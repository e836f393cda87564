------------------------ MODULE BooksDocuments_proofs ------------------------
(***************************************************************************)
(* The invariants of BooksDocuments for any number of threads, orders,     *)
(* customers, edits and faults.                                            *)
(*                                                                         *)
(* Two facts keep a customer from a second contact.  A name that is taken  *)
(* stays taken, so once Books has refused the plain name no thread can     *)
(* create a plain contact of the customer any more; and a contact with the *)
(* unique name is only tried after that, by a thread that has looked for   *)
(* the customer's e-mail address again in between.                         *)
(*                                                                         *)
(* The documents rest on the row lock: a thread that makes a document of   *)
(* Books holds it from its look at the link to its commit, so the link and *)
(* the thread that saves account for every document but the lost ones, no  *)
(* edit falls between the payload and the link, and a cancellation in      *)
(* between was there before the lock was taken.  Where there is no lock    *)
(* the threads that cross are in raced.                                    *)
(***************************************************************************)
EXTENDS BooksDocuments, FiniteSetTheorems, SequenceTheorems, TLAPS

Refused == {"again", "unique", "last"}

Known(u) == ContactsOf(u) \cup {0}

\* No contact of the customer has the plain name.
NoPlain(u) == \A c \in DOMAIN contacts : contacts[c].email = u => contacts[c].unique

JobFits(j) ==
  LET u == Customer[j.order] IN
  /\ j.read \in Known(u) /\ j.found \in Known(u)
  /\ j.made \in 0..Len(documents)
  /\ j.at \in Refused => NameTaken(u)
  /\ j.at = "unique" => NoPlain(u)

RowsTyped ==
  /\ manual \in BOOLEAN
  /\ lock \in [Orders -> Workers \cup {None}]
  /\ faults \in 0..MaxFaults /\ raced \subseteq Orders /\ late \subseteq Orders

OrdersFit ==
  /\ order \in [Orders -> OrderRow]
  /\ \A o \in Orders, k \in Kinds : order[o].link[k] \in 0..Len(documents)

ContactsFit ==
  /\ contacts \in Seq(Contact)
  /\ \A c, d \in DOMAIN contacts : contacts[c].email = contacts[d].email => c = d
  /\ \A u \in Users, c \in DOMAIN contacts :
       contacts[c].email = u /\ contacts[c].unique => NameTaken(u)

KnownFit ==
  /\ contactOf \in [Users -> Nat]
  /\ \A u \in Users : contactOf[u] \in Known(u)

DocumentsFit ==
  /\ documents \in Seq(Document)
  /\ \A d \in DOMAIN documents : documents[d].customer = Customer[documents[d].order]

JobsFit ==
  /\ job \in [Workers -> JobState]
  /\ \A w \in Workers : JobFits(job[w])

Contacted ==
  /\ RowsTyped /\ OrdersFit /\ ContactsFit /\ KnownFit /\ DocumentsFit /\ JobsFit

-----------------------------------------------------------------------------
(***************************************************************************)
(* What a step does to the jobs while Books gets no contact.               *)
(***************************************************************************)
LEMMA IdleTyped ==
  /\ Idle \in JobState /\ Idle.at = "idle" /\ Idle.read = 0 /\ Idle.found = 0
  /\ Idle.made = 0
<1>1. (CHOOSE o \in Orders : TRUE) \in Orders
  BY OrdersAssumption
<1>2. QED BY <1>1, BoundAssumption DEF Idle, JobState, Steps, Kinds

LEMMA LenTyped ==
  ASSUME Contacted
  PROVE  Len(documents) \in Nat /\ Len(contacts) \in Nat
BY DEF Contacted, DocumentsFit, ContactsFit

\* A job that is not about to create a contact.
LEMMA PlainJobFits ==
  ASSUME NEW j, j.at \notin Refused, j.made \in 0..Len(documents),
         j.read \in Known(Customer[j.order]), j.found \in Known(Customer[j.order])
  PROVE  JobFits(j)
BY DEF JobFits, Refused

\* The other jobs fit as before.
LEMMA SameJobFits ==
  ASSUME NEW j, JobFits(j), UNCHANGED contacts, Len(documents) \in Nat,
         Len(documents') \in Nat, Len(documents') >= Len(documents)
  PROVE  JobFits(j)'
<1> DEFINE u == Customer[j.order]
<1>1. /\ Known(u)' = Known(u) /\ NameTaken(u)' = NameTaken(u) /\ NoPlain(u)' = NoPlain(u)
  BY DEF Known, ContactsOf, NameTaken, NoPlain
<1>2. j.made \in 0..Len(documents')
  BY DEF JobFits
<1> HIDE DEF u
<1>3. QED BY <1>1, <1>2 DEF JobFits, u

LEMMA OneJob ==
  ASSUME Contacted, UNCHANGED contacts, Len(documents') \in Nat,
         Len(documents') >= Len(documents), NEW w \in Workers, NEW new \in JobState,
         job' = [job EXCEPT ![w] = new], JobFits(new)'
  PROVE  JobsFit'
<1>1. job \in [Workers -> JobState] /\ \A v \in Workers : JobFits(job[v])
  BY DEF Contacted, JobsFit
<1>2. ASSUME NEW v \in Workers PROVE JobFits(job[v])'
  <2>1. CASE v = w
    <3>1. job'[v] = new
      BY <2>1, <1>1
    <3>2. QED BY <3>1
  <2>2. CASE v # w
    <3>1. job'[v] = job[v]
      BY <2>2, <1>1
    <3>2. JobFits(job[v])
      BY <1>1
    <3>3. QED BY <3>1, <3>2, LenTyped, SameJobFits
  <2>3. QED BY <2>1, <2>2
<1>3. QED BY <1>1, <1>2 DEF JobsFit

LEMMA NewJob ==
  ASSUME Contacted, UNCHANGED <<contacts, documents>>, NEW w \in Workers, NEW new \in JobState,
         job' = [job EXCEPT ![w] = new], JobFits(new)
  PROVE  JobsFit'
<1>1. /\ Len(documents') \in Nat /\ Len(documents') >= Len(documents)
      /\ Len(documents) \in Nat
  BY LenTyped
<1>2. JobFits(new)'
  BY <1>1, SameJobFits
<1>3. QED BY <1>1, <1>2, OneJob

LEMMA JobTyped ==
  ASSUME Contacted, NEW w \in Workers
  PROVE  /\ job \in [Workers -> JobState] /\ job[w] \in JobState /\ JobFits(job[w])
         /\ job[w].order \in Orders /\ job[w].kind \in Kinds /\ User(w) \in Users
         /\ User(w) = Customer[job[w].order]
<1>1. /\ job \in [Workers -> JobState] /\ job[w] \in JobState /\ JobFits(job[w])
  BY DEF Contacted, JobsFit
<1>2. job[w].order \in Orders /\ job[w].kind \in Kinds
  BY <1>1 DEF JobState
<1>3. QED BY <1>1, <1>2, CustomerAssumption DEF User

LEMMA IdleFits ==
  ASSUME Contacted, Len(documents') \in Nat
  PROVE  JobFits(Idle)'
<1>1. /\ Idle.at \notin Refused /\ Idle.made \in 0..Len(documents')
      /\ Idle.read = 0 /\ Idle.found = 0
  BY IdleTyped DEF Refused
<1>2. QED BY <1>1 DEF JobFits, Known, Refused

LEMMA EndFits ==
  ASSUME Contacted, UNCHANGED contacts, Len(documents') \in Nat,
         Len(documents') >= Len(documents), NEW w \in Workers, End(w)
  PROVE  JobsFit'
BY IdleTyped, IdleFits, OneJob DEF End

LEMMA StartFits ==
  ASSUME Contacted, UNCHANGED <<contacts, documents>>, NEW w \in Workers, NEW o \in Orders,
         NEW step \in Steps \ Refused, NEW kind \in Kinds, Start(w, o, step, kind)
  PROVE  JobsFit'
<1> DEFINE new == [Idle EXCEPT !.at = step, !.order = o, !.kind = kind]
<1>1. new \in JobState
  BY IdleTyped DEF JobState
<1>2. /\ new.at = step /\ new.read = 0 /\ new.found = 0 /\ new.made = 0
  BY IdleTyped DEF JobState
<1>3. job' = [job EXCEPT ![w] = new]
  BY DEF Start
<1> HIDE DEF new
<1>4. JobFits(new)
  BY <1>2, LenTyped DEF JobFits, Known, Refused
<1>5. QED BY <1>1, <1>3, <1>4, NewJob

\* A job goes on to a step that creates no contact.
LEMMA GotoFits ==
  ASSUME Contacted, UNCHANGED <<contacts, documents>>, NEW w \in Workers,
         NEW step \in Steps \ Refused, Goto(w, step)
  PROVE  JobsFit'
<1> DEFINE new == [job[w] EXCEPT !.at = step]
<1>1. job[w] \in JobState /\ JobFits(job[w]) /\ job \in [Workers -> JobState]
  BY JobTyped
<1>2. new \in JobState
  BY <1>1 DEF JobState
<1>3. /\ new.at = step /\ new.read = job[w].read /\ new.found = job[w].found
      /\ new.made = job[w].made /\ new.order = job[w].order
  BY <1>1 DEF JobState
<1>4. job' = [job EXCEPT ![w] = new]
  BY DEF Goto
<1> HIDE DEF new
<1>5. JobFits(new)
  BY <1>1, <1>3, PlainJobFits DEF JobFits
<1>6. QED BY <1>2, <1>4, <1>5, NewJob

\* ... reads the order and its customer on the way.
LEMMA ReadFits ==
  ASSUME Contacted, UNCHANGED <<contacts, documents>>, NEW w \in Workers,
         NEW new \in JobState, job' = [job EXCEPT ![w] = new],
         new.at \notin Refused, new.order = job[w].order, new.made = job[w].made,
         new.found = job[w].found,
         new.read \in {job[w].read, contactOf[User(w)], 0}
  PROVE  JobsFit'
<1>1. JobFits(job[w]) /\ User(w) = Customer[job[w].order] /\ User(w) \in Users
  BY JobTyped
<1>2. /\ new.read \in Known(User(w)) /\ new.found \in Known(User(w))
      /\ new.made \in 0..Len(documents)
  BY <1>1 DEF JobFits, Contacted, KnownFit, Known
<1>3. JobFits(new)
  BY <1>1, <1>2, PlainJobFits
<1>4. QED BY <1>3, NewJob

-----------------------------------------------------------------------------
(***************************************************************************)
(* Steps during which Zoho is not called.                                  *)
(***************************************************************************)
LEMMA ShopFits ==
  ASSUME Contacted, UNCHANGED <<contacts, documents>>, RowsTyped', OrdersFit', JobsFit',
         UNCHANGED contactOf
  PROVE  Contacted'
<1>1. ContactsFit'
  BY DEF Contacted, ContactsFit, NameTaken
<1>2. KnownFit' /\ DocumentsFit'
  BY DEF Contacted, KnownFit, Known, ContactsOf, DocumentsFit
<1>3. QED BY <1>1, <1>2 DEF Contacted

LEMMA SameOrders ==
  ASSUME Contacted, UNCHANGED order, Len(documents') \in Nat, Len(documents') >= Len(documents)
  PROVE  OrdersFit'
<1>1. ASSUME NEW o \in Orders, NEW k \in Kinds PROVE order[o].link[k] \in 0..Len(documents')
  <2>1. order[o].link[k] \in 0..Len(documents)
    BY DEF Contacted, OrdersFit
  <2>2. QED BY <2>1, LenTyped
<1>2. QED BY <1>1 DEF Contacted, OrdersFit

LEMMA RowTyped ==
  ASSUME Contacted, NEW o \in Orders
  PROVE  /\ order[o] \in OrderRow /\ order[o].edits \in 0..MaxEdits
         /\ order[o].link \in [Kinds -> Nat]
BY DEF Contacted, OrdersFit, OrderRow

LEMMA StatusFits ==
  ASSUME Contacted, NEW o \in Orders,
         NEW status \in {"absent", "pending", "synced", "cancelled"},
         order' = [order EXCEPT ![o].status = status],
         Len(documents') = Len(documents)
  PROVE  OrdersFit'
<1>1. [order[o] EXCEPT !.status = status] \in OrderRow
  BY RowTyped DEF OrderRow
<1>2. /\ order' = [order EXCEPT ![o] = [order[o] EXCEPT !.status = status]]
      /\ order \in [Orders -> OrderRow]
  BY DEF Contacted, OrdersFit
<1>3. ASSUME NEW p \in Orders PROVE order'[p].link = order[p].link
  BY <1>2 DEF OrderRow
<1>4. QED BY <1>1, <1>2, <1>3 DEF Contacted, OrdersFit

LEMMA EditFits ==
  ASSUME Contacted, NEW o \in Orders, order[o].edits < MaxEdits,
         order' = [order EXCEPT ![o].edits = @ + 1], UNCHANGED documents
  PROVE  OrdersFit'
<1>1. order[o].edits + 1 \in 0..MaxEdits
  BY RowTyped, BoundAssumption
<1> DEFINE new == [order[o] EXCEPT !.edits = order[o].edits + 1]
<1>2. new \in OrderRow /\ new.link = order[o].link
  BY <1>1, RowTyped DEF OrderRow
<1>3. order' = [order EXCEPT ![o] = new] /\ order \in [Orders -> OrderRow]
  BY DEF Contacted, OrdersFit
<1> HIDE DEF new
<1>4. ASSUME NEW p \in Orders PROVE order'[p].link = order[p].link
  BY <1>2, <1>3
<1>5. QED BY <1>2, <1>3, <1>4 DEF Contacted, OrdersFit

LEMMA SalesOrderKindTyped == SalesOrderKind \in Kinds
BY DEF SalesOrderKind, Kinds

LEMMA RequestFits ==
  ASSUME Contacted, NEW w \in Workers, NEW o \in Orders, Request(w, o)
  PROVE  Contacted'
<1>1. UNCHANGED <<manual, lock, contactOf, contacts, documents, faults, raced, late>>
  BY DEF Request, PlaceOrder, Retry, EditOrder, ConfirmOrder, StaffInvoice, CancelOrder,
         rowVars, zohoVars
<1>2. RowsTyped'
  BY <1>1 DEF Contacted, RowsTyped
<1>3. JobsFit'
  <2>1. PICK step \in {"read", "find", "confirm", "lock", "cancel"}, kind \in Kinds :
          Start(w, o, step, kind)
    <3>1. CASE PlaceOrder(w, o)
      BY <3>1, SalesOrderKindTyped DEF PlaceOrder
    <3>2. CASE EditOrder(w, o)
      BY <3>2, SalesOrderKindTyped DEF EditOrder
    <3>3. CASE Retry(w, o) \/ ConfirmOrder(w, o)
      BY <3>3 DEF Retry, ConfirmOrder, Kinds
    <3>4. CASE StaffInvoice(w, o) \/ CancelOrder(w, o)
      BY <3>4 DEF StaffInvoice, CancelOrder, Kinds
    <3>5. QED BY <3>1, <3>2, <3>3, <3>4 DEF Request
  <2>2. step \in Steps \ Refused
    BY <2>1 DEF Steps, Refused
  <2>3. QED BY <1>1, <2>1, <2>2, StartFits
<1>4. OrdersFit'
  <2>1. CASE PlaceOrder(w, o)
    BY <2>1, <1>1, StatusFits DEF PlaceOrder
  <2>2. CASE EditOrder(w, o)
    BY <2>2, <1>1, EditFits DEF EditOrder
  <2>3. CASE UNCHANGED order
    BY <2>3, <1>1, LenTyped, SameOrders
  <2>4. QED
    BY <2>1, <2>2, <2>3 DEF Request, Retry, ConfirmOrder, StaffInvoice, CancelOrder, rowVars
<1>5. QED BY <1>1, <1>2, <1>3, <1>4, ShopFits

LEMMA FaultTyped == Contacted /\ (Fault \/ NoFault) => faults' \in 0..MaxFaults
BY BoundAssumption DEF Contacted, RowsTyped, Fault, NoFault

LEMMA ReleaseTyped ==
  ASSUME Contacted, NEW w \in Workers, Release(w) \/ UNCHANGED lock
  PROVE  lock' \in [Orders -> Workers \cup {None}]
BY DEF Contacted, RowsTyped, Release

LEMMA SaveConfirmedFits ==
  ASSUME Contacted, NEW w \in Workers, SaveConfirmed(w)
  PROVE  Contacted'
<1> DEFINE o == job[w].order
<1>1. /\ UNCHANGED <<manual, lock, contactOf, contacts, documents, faults, raced>>
      /\ order' = [order EXCEPT ![o].status = "synced"] /\ o \in Orders
      /\ late' \in {late, late \cup {o}}
      /\ End(w) \/ Goto(w, "read")
  BY JobTyped DEF SaveConfirmed, zohoVars
<1> HIDE DEF o
<1>2. RowsTyped'
  BY <1>1 DEF Contacted, RowsTyped
<1>3. OrdersFit'
  BY <1>1, StatusFits
<1>4. JobsFit'
  BY <1>1, LenTyped, EndFits, GotoFits DEF Steps, Refused
<1>5. QED BY <1>1, <1>2, <1>3, <1>4, ShopFits

LEMMA LockToCancelFits ==
  ASSUME Contacted, NEW w \in Workers, LockToCancel(w)
  PROVE  Contacted'
<1> DEFINE o == job[w].order
<1>1. /\ UNCHANGED <<manual, contactOf, contacts, documents, faults, raced, late>>
      /\ o \in Orders
      /\ End(w) \/ Goto(w, "void")
      /\ UNCHANGED order \/ order' = [order EXCEPT ![o].status = "cancelled"]
      /\ UNCHANGED lock \/ lock' = [lock EXCEPT ![o] = w]
  BY JobTyped DEF LockToCancel, zohoVars
<1> HIDE DEF o
<1>2. RowsTyped'
  BY <1>1 DEF Contacted, RowsTyped
<1>3. OrdersFit'
  BY <1>1, LenTyped, StatusFits, SameOrders
<1>4. JobsFit'
  BY <1>1, LenTyped, EndFits, GotoFits DEF Steps, Refused
<1>5. QED BY <1>1, <1>2, <1>3, <1>4, ShopFits

LEMMA FindSalesOrderFits ==
  ASSUME Contacted, NEW w \in Workers, FindSalesOrder(w)
  PROVE  Contacted'
<1> DEFINE o == job[w].order
<1>1. /\ UNCHANGED <<manual, lock, order, contactOf, late, contacts, documents, faults>>
      /\ o \in Orders /\ raced' \in {raced, raced \cup {o}}
  BY JobTyped DEF FindSalesOrder, rowVars, zohoVars
<1>2. RowsTyped' /\ OrdersFit'
  BY <1>1, LenTyped, SameOrders DEF Contacted, RowsTyped
<1>3. CASE Goto(w, "read") \/ End(w)
  BY <1>1, <1>2, <1>3, LenTyped, GotoFits, EndFits, ShopFits DEF Steps, Refused
<1>4. CASE job' = [job EXCEPT ![w].at = IF manual THEN "stored" ELSE "put",
                              ![w].updates = TRUE, ![w].shows = order[o].edits,
                              ![w].read = contactOf[Customer[o]]]
  <2> DEFINE at == IF manual THEN "stored" ELSE "put"
             read == contactOf[Customer[o]]
             new == [job[w] EXCEPT !.at = at, !.updates = TRUE, !.shows = order[o].edits,
                                   !.read = read]
  <2>1. /\ job[w] \in JobState /\ job \in [Workers -> JobState]
        /\ order[o].edits \in 0..MaxEdits /\ read \in Nat
        /\ at \in Steps \ Refused
    BY <1>1, JobTyped, RowTyped, CustomerAssumption DEF Contacted, KnownFit, Steps, Refused
  <2>2. job' = [job EXCEPT ![w] = new]
    BY <1>4, <2>1
  <2> HIDE DEF at, read
  <2>3. /\ new \in JobState /\ new.at = at /\ new.read = read /\ new.found = job[w].found
        /\ new.made = job[w].made /\ new.order = job[w].order
    BY <2>1 DEF JobState
  <2>4. read = contactOf[User(w)]
    BY DEF read, User
  <2> HIDE DEF new
  <2>5. JobsFit'
    BY <1>1, <2>1, <2>2, <2>3, <2>4, ReadFits
  <2>6. QED BY <1>1, <1>2, <2>5, ShopFits
<1>5. QED BY <1>3, <1>4 DEF FindSalesOrder

LEMMA ReadOrderFits ==
  ASSUME Contacted, NEW w \in Workers, ReadOrder(w)
  PROVE  Contacted'
<1> DEFINE o == job[w].order
<1>1. /\ UNCHANGED <<manual, lock, order, contactOf, late, contacts, documents, faults>>
      /\ o \in Orders /\ raced' \in {raced, raced \cup {o}}
  BY JobTyped DEF ReadOrder, rowVars, zohoVars
<1>2. RowsTyped' /\ OrdersFit'
  BY <1>1, LenTyped, SameOrders DEF Contacted, RowsTyped
<1>3. CASE Goto(w, "lock") \/ End(w)
  BY <1>1, <1>2, <1>3, LenTyped, GotoFits, EndFits, ShopFits DEF Steps, Refused
<1>4. CASE job' = [job EXCEPT ![w].at = "post", ![w].shows = order[o].edits]
  <2> DEFINE new == [job[w] EXCEPT !.at = "post", !.shows = order[o].edits]
  <2>1. /\ job[w] \in JobState /\ job \in [Workers -> JobState]
        /\ order[o].edits \in 0..MaxEdits /\ "post" \in Steps \ Refused
    BY <1>1, JobTyped, RowTyped DEF Steps, Refused
  <2>2. job' = [job EXCEPT ![w] = new]
    BY <1>4, <2>1
  <2>3. /\ new \in JobState /\ new.at = "post" /\ new.read = job[w].read
        /\ new.found = job[w].found /\ new.made = job[w].made /\ new.order = job[w].order
    BY <2>1 DEF JobState
  <2> HIDE DEF new
  <2>4. JobsFit'
    BY <1>1, <2>1, <2>2, <2>3, ReadFits
  <2>5. QED BY <1>1, <1>2, <2>4, ShopFits
<1>5. QED BY <1>3, <1>4 DEF ReadOrder

LEMMA LockOrderFits ==
  ASSUME Contacted, NEW w \in Workers, LockOrder(w)
  PROVE  Contacted'
<1> DEFINE o == job[w].order
<1>1. /\ UNCHANGED <<manual, order, contactOf, contacts, documents, faults, raced>>
      /\ o \in Orders /\ late' \in {late, late \cup {o}}
      /\ UNCHANGED lock \/ lock' = [lock EXCEPT ![o] = w]
  BY JobTyped DEF LockOrder, zohoVars
<1>2. RowsTyped' /\ OrdersFit'
  BY <1>1, LenTyped, SameOrders DEF Contacted, RowsTyped
<1>3. CASE End(w)
  BY <1>1, <1>2, <1>3, LenTyped, EndFits, ShopFits
<1>4. CASE job' = [job EXCEPT ![w].at = IF NeedsContact(job[w].kind, o) THEN "stored"
                                        ELSE "post",
                              ![w].shows = order[o].edits,
                              ![w].read = contactOf[Customer[o]]]
  <2> DEFINE at == IF NeedsContact(job[w].kind, o) THEN "stored" ELSE "post"
             read == contactOf[Customer[o]]
             new == [job[w] EXCEPT !.at = at, !.shows = order[o].edits, !.read = read]
  <2>1. /\ job[w] \in JobState /\ job \in [Workers -> JobState]
        /\ order[o].edits \in 0..MaxEdits /\ read \in Nat
        /\ at \in Steps \ Refused
    BY <1>1, JobTyped, RowTyped, CustomerAssumption DEF Contacted, KnownFit, Steps, Refused
  <2>2. job' = [job EXCEPT ![w] = new]
    BY <1>4, <2>1
  <2> HIDE DEF at, read
  <2>3. /\ new \in JobState /\ new.at = at /\ new.read = read /\ new.found = job[w].found
        /\ new.made = job[w].made /\ new.order = job[w].order
    BY <2>1 DEF JobState
  <2>4. read = contactOf[User(w)]
    BY DEF read, User
  <2> HIDE DEF new
  <2>5. JobsFit'
    BY <1>1, <2>1, <2>2, <2>3, <2>4, ReadFits
  <2>6. QED BY <1>1, <1>2, <2>5, ShopFits
<1>5. QED BY <1>3, <1>4 DEF LockOrder

-----------------------------------------------------------------------------
(***************************************************************************)
(* The documents.                                                          *)
(***************************************************************************)
\* A document was made, and is the last one of Books and Commerce.
LEMMA MadeFits ==
  ASSUME Contacted, UNCHANGED contacts, Len(documents') = Len(documents) + 1,
         NEW w \in Workers, NEW new \in JobState, job' = [job EXCEPT ![w] = new],
         new.at = "save", new.made = Len(documents) + 1, new.order = job[w].order,
         new.read = job[w].read, new.found = job[w].found
  PROVE  JobsFit'
<1>1. /\ Len(documents) \in Nat /\ Len(documents') \in Nat
      /\ Len(documents') >= Len(documents) /\ new.made \in 0..Len(documents')
  BY LenTyped
<1>2. JobFits(job[w])
  BY JobTyped
<1> DEFINE u == Customer[new.order]
<1>3. new.read \in Known(u) /\ new.found \in Known(u)
  BY <1>2 DEF JobFits
<1>4. Known(u)' = Known(u)
  BY DEF Known, ContactsOf
<1> HIDE DEF u
<1>5. JobFits(new)'
  BY <1>1, <1>3, <1>4 DEF JobFits, Refused, u
<1>6. QED BY <1>1, <1>5, OneJob

\* A document is voided or updated: it keeps its order and its customer.
LEMMA ChangeFits ==
  ASSUME Contacted, NEW d \in Nat, NEW doc,
         d \in DOMAIN documents => /\ doc \in Document /\ doc.order = documents[d].order
                                  /\ doc.customer = documents[d].customer,
         documents' = [documents EXCEPT ![d] = doc]
  PROVE  DocumentsFit' /\ Len(documents') = Len(documents)
<1>1. documents \in Seq(Document) /\ DOMAIN documents = 1..Len(documents)
  BY DEF Contacted, DocumentsFit
<1>2. CASE d \in DOMAIN documents
  <2>1. /\ documents' \in Seq(Document) /\ Len(documents') = Len(documents)
        /\ \A e \in 1..Len(documents) : documents'[e] = IF e = d THEN doc ELSE documents[e]
    BY <1>1, <1>2, ExceptSeq
  <2>2. DOMAIN documents' = 1..Len(documents)
    BY <2>1
  <2>3. QED BY <1>2, <2>1, <2>2 DEF Contacted, DocumentsFit
<1>3. CASE d \notin DOMAIN documents
  <2>1. documents' = documents
    BY <1>1, <1>3
  <2>2. QED BY <2>1, ZenonT(60) DEF Contacted, DocumentsFit
<1>4. QED BY <1>2, <1>3

LEMMA ZohoFits ==
  ASSUME Contacted, UNCHANGED contacts, RowsTyped', OrdersFit', JobsFit', DocumentsFit',
         KnownFit'
  PROVE  Contacted'
BY DEF Contacted, ContactsFit, NameTaken

LEMMA SameKnown ==
  ASSUME Contacted, UNCHANGED <<contacts, contactOf>>
  PROVE  KnownFit'
BY DEF Contacted, KnownFit, Known, ContactsOf

LEMMA VoidSalesOrderFits ==
  ASSUME Contacted, NEW w \in Workers, VoidSalesOrder(w)
  PROVE  Contacted'
<1> DEFINE o == job[w].order
           d == order[o].link["salesorder"]
<1>1. /\ UNCHANGED <<manual, contactOf, contacts, raced, late>> /\ o \in Orders
      /\ End(w) /\ Release(w) /\ (Fault \/ NoFault)
      /\ UNCHANGED order \/ order' = [order EXCEPT ![o].status = "cancelled"]
      /\ UNCHANGED documents \/ documents' = [documents EXCEPT ![d].void = TRUE]
  BY JobTyped DEF VoidSalesOrder, Abandon
<1>2. d \in Nat
  BY <1>1, RowTyped DEF Kinds
<1> HIDE DEF o, d
<1>3. RowsTyped'
  BY <1>1, FaultTyped, ReleaseTyped DEF Contacted, RowsTyped
<1>4. DocumentsFit' /\ Len(documents') = Len(documents)
  <2>1. CASE UNCHANGED documents
    BY <2>1 DEF Contacted, DocumentsFit
  <2>2. CASE documents' = [documents EXCEPT ![d].void = TRUE]
    <3> DEFINE doc == [documents[d] EXCEPT !.void = TRUE]
    <3>1. documents' = [documents EXCEPT ![d] = doc]
      BY <2>2
    <3>2. d \in DOMAIN documents => /\ doc \in Document /\ doc.order = documents[d].order
                                    /\ doc.customer = documents[d].customer
      <4>1. SUFFICES ASSUME d \in DOMAIN documents
                     PROVE  /\ doc \in Document /\ doc.order = documents[d].order
                            /\ doc.customer = documents[d].customer
        OBVIOUS
      <4>2. documents[d] \in Document
        BY <4>1 DEF Contacted, DocumentsFit
      <4>3. QED BY <4>2 DEF Document
    <3> HIDE DEF doc
    <3>3. QED BY <1>2, <3>1, <3>2, ChangeFits
  <2>3. QED BY <1>1, <2>1, <2>2
<1>5. OrdersFit'
  BY <1>1, <1>4, LenTyped, SameOrders, StatusFits
<1>6. JobsFit'
  BY <1>1, <1>4, LenTyped, EndFits
<1>7. QED BY <1>1, <1>3, <1>4, <1>5, <1>6, SameKnown, ZohoFits

LEMMA UpdateDocumentFits ==
  ASSUME Contacted, NEW w \in Workers, UpdateDocument(w)
  PROVE  Contacted'
<1> DEFINE d == order[job[w].order].link[job[w].kind]
<1>1. /\ UNCHANGED <<manual, order, contactOf, late, lock, contacts, raced>>
      /\ End(w) /\ (Fault \/ NoFault)
      /\ UNCHANGED documents \/ documents' = [documents EXCEPT ![d].shows = job[w].shows]
  BY DEF UpdateDocument, rowVars
<1>2. d \in Nat /\ job[w].shows \in 0..MaxEdits
  BY JobTyped, RowTyped DEF JobState
<1> HIDE DEF d
<1>3. RowsTyped'
  BY <1>1, FaultTyped DEF Contacted, RowsTyped
<1>4. DocumentsFit' /\ Len(documents') = Len(documents)
  <2>1. CASE UNCHANGED documents
    BY <2>1 DEF Contacted, DocumentsFit
  <2>2. CASE documents' = [documents EXCEPT ![d].shows = job[w].shows]
    <3> DEFINE doc == [documents[d] EXCEPT !.shows = job[w].shows]
    <3>1. documents' = [documents EXCEPT ![d] = doc]
      BY <2>2
    <3>2. d \in DOMAIN documents => /\ doc \in Document /\ doc.order = documents[d].order
                                    /\ doc.customer = documents[d].customer
      <4>1. SUFFICES ASSUME d \in DOMAIN documents
                     PROVE  /\ doc \in Document /\ doc.order = documents[d].order
                            /\ doc.customer = documents[d].customer
        OBVIOUS
      <4>2. documents[d] \in Document
        BY <4>1 DEF Contacted, DocumentsFit
      <4>3. QED BY <4>2, <1>2 DEF Document
    <3> HIDE DEF doc
    <3>3. QED BY <1>2, <3>1, <3>2, ChangeFits
  <2>3. QED BY <1>1, <2>1, <2>2
<1>5. OrdersFit' /\ JobsFit'
  BY <1>1, <1>4, LenTyped, SameOrders, EndFits
<1>6. QED BY <1>1, <1>3, <1>4, <1>5, SameKnown, ZohoFits, SMTT(60)

\* The contact that was resolved is the customer's, so the document is made out to them.
LEMMA NewDocumentFits ==
  ASSUME Contacted, NEW w \in Workers
  PROVE  /\ NewDocument(w) \in Document
         /\ NewDocument(w).customer = Customer[NewDocument(w).order]
<1>1. /\ job[w] \in JobState /\ job[w].found \in Known(User(w)) /\ User(w) \in Users
      /\ User(w) = Customer[job[w].order] /\ job[w].order \in Orders /\ job[w].kind \in Kinds
  BY JobTyped DEF JobFits
<1> DEFINE customer == IF job[w].found = 0 THEN User(w) ELSE contacts[job[w].found].email
<1>2. customer = User(w)
  BY <1>1 DEF Known, ContactsOf
<1>3. NewDocument(w) = [kind |-> job[w].kind, order |-> job[w].order, shows |-> job[w].shows,
                        void |-> FALSE, customer |-> customer]
  BY DEF NewDocument
<1> HIDE DEF customer
<1>4. QED BY <1>1, <1>2, <1>3 DEF Document, JobState

LEMMA PostDocumentFits ==
  ASSUME Contacted, NEW w \in Workers, PostDocument(w)
  PROVE  Contacted'
<1>1. /\ UNCHANGED <<manual, order, contactOf, late, contacts, raced>> /\ (Fault \/ NoFault)
      /\ UNCHANGED documents \/ documents' = Append(documents, NewDocument(w))
      /\ Release(w) \/ UNCHANGED lock
  BY DEF PostDocument, Abandon, rowVars
<1>2. RowsTyped'
  BY <1>1, FaultTyped, ReleaseTyped DEF Contacted, RowsTyped
<1>3. documents \in Seq(Document) /\ Len(documents) \in Nat
  BY DEF Contacted, DocumentsFit
<1>4. DocumentsFit' /\ Len(documents') \in Nat /\ Len(documents') >= Len(documents)
  <2>1. CASE UNCHANGED documents
    BY <2>1, <1>3 DEF Contacted, DocumentsFit
  <2>2. CASE documents' = Append(documents, NewDocument(w))
    <3> DEFINE new == NewDocument(w)
    <3>1. new \in Document /\ new.customer = Customer[new.order]
      BY NewDocumentFits
    <3>2. documents' = Append(documents, new)
      BY <2>2
    <3> HIDE DEF new
    <3>3. /\ documents' \in Seq(Document) /\ Len(documents') = Len(documents) + 1
          /\ DOMAIN documents' = 1..(Len(documents) + 1)
          /\ \A e \in 1..Len(documents) : documents'[e] = documents[e]
          /\ documents'[Len(documents) + 1] = new
      BY <1>3, <3>1, <3>2
    <3>4. ASSUME NEW e \in DOMAIN documents'
          PROVE  documents'[e].customer = Customer[documents'[e].order]
      <4>1. CASE e \in 1..Len(documents)
        BY <4>1, <3>3, <1>3 DEF Contacted, DocumentsFit
      <4>2. CASE e = Len(documents) + 1
        BY <4>2, <3>1, <3>3
      <4>3. QED BY <4>1, <4>2, <3>3, <1>3
    <3>5. QED BY <1>3, <3>3, <3>4 DEF DocumentsFit
  <2>3. QED BY <1>1, <2>1, <2>2
<1>5. OrdersFit'
  BY <1>1, <1>4, SameOrders
<1>6. CASE End(w)
  BY <1>1, <1>2, <1>4, <1>5, <1>6, EndFits, SameKnown, ZohoFits
<1>7. CASE /\ documents' = Append(documents, NewDocument(w))
           /\ job' = [job EXCEPT ![w].at = "save", ![w].made = Len(documents) + 1]
  <2> DEFINE made == Len(documents) + 1
             new == [job[w] EXCEPT !.at = "save", !.made = made]
  <2>1. job[w] \in JobState /\ job \in [Workers -> JobState] /\ JobFits(job[w])
    BY JobTyped
  <2>2. made \in Nat
    BY <1>3
  <2>3. job' = [job EXCEPT ![w] = new]
    BY <1>7, <2>1
  <2>4. Len(documents') = Len(documents) + 1
    BY <1>3, <1>7
  <2>5. made = Len(documents) + 1
    OBVIOUS
  <2> HIDE DEF made
  <2>6. new \in JobState
    BY <2>1, <2>2 DEF JobState, Steps
  <2>7. /\ new.at = "save" /\ new.made = made /\ new.order = job[w].order
        /\ new.read = job[w].read /\ new.found = job[w].found
    BY <2>1 DEF JobState
  <2> HIDE DEF new
  <2>8. JobsFit'
    BY <1>1, <2>3, <2>4, <2>5, <2>6, <2>7, MadeFits
  <2>9. QED BY <1>1, <1>2, <1>4, <1>5, <2>8, SameKnown, ZohoFits
<1>8. QED BY <1>6, <1>7 DEF PostDocument, Abandon

LEMMA SaveDocumentFits ==
  ASSUME Contacted, NEW w \in Workers, SaveDocument(w)
  PROVE  Contacted'
<1> DEFINE o == job[w].order
           k == job[w].kind
           made == job[w].made
           new == [order[o] EXCEPT !.link = [order[o].link EXCEPT ![k] = made]]
<1>1. /\ UNCHANGED <<manual, contacts, documents, faults, raced, late>>
      /\ End(w) /\ Release(w)
      /\ UNCHANGED contactOf \/ contactOf' = [contactOf EXCEPT ![User(w)] = job[w].found]
      /\ order' = [order EXCEPT ![o].link[k] = made]
  BY DEF SaveDocument, Abandon, zohoVars
<1>2. /\ o \in Orders /\ k \in Kinds /\ job[w] \in JobState /\ made \in 0..Len(documents)
      /\ made \in Nat /\ job[w].found \in Nat /\ job[w].found \in Known(User(w))
  BY JobTyped DEF JobFits, JobState
<1>3. order' = [order EXCEPT ![o] = new] /\ order \in [Orders -> OrderRow]
  BY <1>1 DEF Contacted, OrdersFit
<1>4. /\ new \in OrderRow
      /\ \A l \in Kinds : new.link[l] = IF l = k THEN made ELSE order[o].link[l]
  BY <1>2, RowTyped DEF OrderRow
<1> HIDE DEF o, k, made, new
<1>5. OrdersFit'
  <2>1. ASSUME NEW p \in Orders, NEW l \in Kinds
        PROVE  order'[p].link[l] \in 0..Len(documents)
    <3>1. CASE p = o
      BY <3>1, <1>2, <1>3, <1>4 DEF Contacted, OrdersFit
    <3>2. CASE p # o
      BY <3>2, <1>3 DEF Contacted, OrdersFit
    <3>3. QED BY <3>1, <3>2
  <2>2. QED BY <1>1, <1>2, <1>3, <1>4, <2>1 DEF OrdersFit
<1>6. RowsTyped'
  BY <1>1, ReleaseTyped DEF Contacted, RowsTyped
<1>7. KnownFit'
  BY <1>1, <1>2 DEF Contacted, KnownFit, Known, ContactsOf
<1>8. DocumentsFit'
  BY <1>1 DEF Contacted, DocumentsFit
<1>9. JobsFit'
  BY <1>1, LenTyped, EndFits
<1>10. QED BY <1>1, <1>5, <1>6, <1>7, <1>8, <1>9, ZohoFits

LEMMA DieFits ==
  ASSUME Contacted, NEW w \in Workers, Die(w)
  PROVE  Contacted'
<1>1. /\ UNCHANGED <<manual, order, contactOf, late, contacts, documents, raced>>
      /\ Fault /\ End(w) /\ Release(w)
  BY DEF Die, Abandon, rowVars, zohoVars
<1>2. RowsTyped'
  BY <1>1, FaultTyped, ReleaseTyped DEF Contacted, RowsTyped
<1>3. OrdersFit' /\ JobsFit'
  BY <1>1, LenTyped, SameOrders, EndFits
<1>4. QED BY <1>1, <1>2, <1>3, ShopFits

-----------------------------------------------------------------------------
(***************************************************************************)
(* The contacts.                                                           *)
(***************************************************************************)
\* The thread resolved a contact of its customer, in Books as it is now.
LEMMA ResolvedJob ==
  ASSUME Contacted, NEW w \in Workers, NEW c \in Nat, Resolved(w, c)
  PROVE  \E new \in JobState :
           /\ job' = [job EXCEPT ![w] = new] /\ new.order = job[w].order
           /\ new.at \in {"put", "post"} /\ new.read = job[w].read /\ new.found = c
           /\ new.made = job[w].made
<1> DEFINE at == IF job[w].updates THEN "put" ELSE "post"
           new == [job[w] EXCEPT !.at = at, !.found = c]
<1>1. job[w] \in JobState /\ job \in [Workers -> JobState] /\ at \in Steps
      /\ at \in {"put", "post"}
  BY JobTyped DEF Steps
<1>2. job' = [job EXCEPT ![w] = new]
  BY <1>1 DEF Resolved
<1> HIDE DEF at
<1>3. new \in JobState
  BY <1>1 DEF JobState
<1>4. /\ new.at = at /\ new.read = job[w].read /\ new.found = c
      /\ new.made = job[w].made /\ new.order = job[w].order
  BY <1>1 DEF JobState
<1> HIDE DEF new
<1>5. QED BY <1>1, <1>2, <1>3, <1>4

LEMMA ResolvedFits ==
  ASSUME Contacted, UNCHANGED <<contacts, documents>>, NEW w \in Workers,
         NEW c \in Known(User(w)), c \in Nat, Resolved(w, c)
  PROVE  JobsFit' /\ KnownFit'
<1>1. JobsFit'
  <2>1. PICK new \in JobState :
           /\ job' = [job EXCEPT ![w] = new] /\ new.order = job[w].order
           /\ new.at \in {"put", "post"} /\ new.read = job[w].read /\ new.found = c
           /\ new.made = job[w].made
    BY ResolvedJob
  <2>2. JobFits(job[w]) /\ User(w) = Customer[job[w].order]
    BY JobTyped
  <2>3. JobFits(new)
    BY <2>1, <2>2, PlainJobFits DEF JobFits, Refused
  <2>4. QED BY <2>1, <2>3, NewJob
<1>2. UNCHANGED contactOf \/ contactOf' = [contactOf EXCEPT ![User(w)] = c]
  BY DEF Resolved, Persist
<1>3. KnownFit'
  BY <1>2 DEF Contacted, KnownFit, Known, ContactsOf
<1>4. QED BY <1>1, <1>3

LEMMA ShopAndKnownFit ==
  ASSUME Contacted, UNCHANGED <<contacts, documents>>, RowsTyped', OrdersFit', JobsFit',
         KnownFit'
  PROVE  Contacted'
<1>1. DocumentsFit'
  BY DEF Contacted, DocumentsFit
<1>2. QED BY <1>1, ZohoFits

LEMMA CheckStoredFits ==
  ASSUME Contacted, NEW w \in Workers, CheckStored(w)
  PROVE  Contacted'
<1>1. UNCHANGED <<manual, order, lock, contacts, documents, raced, late>>
      /\ (Fault \/ NoFault)
  BY DEF CheckStored, zohoVars
<1>2. RowsTyped' /\ OrdersFit'
  BY <1>1, FaultTyped, LenTyped, SameOrders DEF Contacted, RowsTyped
<1>3. CASE Goto(w, "email") /\ UNCHANGED contactOf
  BY <1>1, <1>2, <1>3, GotoFits, ShopFits DEF Steps, Refused
<1>4. CASE Resolved(w, job[w].read)
  <2>1. job[w].read \in Known(User(w)) /\ job[w].read \in Nat
    BY JobTyped DEF JobFits, JobState
  <2>2. QED BY <1>1, <1>2, <1>4, <2>1, ResolvedFits, ShopAndKnownFit
<1>5. CASE /\ job' = [job EXCEPT ![w].at = "email", ![w].read = 0]
           /\ Persist(w, 0)
  <2> DEFINE new == [job[w] EXCEPT !.at = "email", !.read = 0]
  <2>1. job[w] \in JobState /\ job \in [Workers -> JobState]
    BY JobTyped
  <2>2. job' = [job EXCEPT ![w] = new]
    BY <1>5, <2>1
  <2>3. /\ new \in JobState /\ new.at = "email" /\ new.read = 0
        /\ new.found = job[w].found /\ new.made = job[w].made /\ new.order = job[w].order
    BY <2>1 DEF JobState, Steps
  <2> HIDE DEF new
  <2>4. JobsFit'
    BY <1>1, <2>2, <2>3, ReadFits DEF Refused
  <2>5. KnownFit'
    BY <1>1, <1>5 DEF Persist, Contacted, KnownFit, Known, ContactsOf
  <2>6. QED BY <1>1, <1>2, <2>4, <2>5, ShopAndKnownFit
<1>6. QED BY <1>3, <1>4, <1>5 DEF CheckStored

\* A thread that has looked again and found nothing goes on to the unique name.
LEMMA AgainFits ==
  ASSUME Contacted, UNCHANGED <<contacts, documents>>, NEW w \in Workers,
         NEW step \in Refused, Goto(w, step), NameTaken(User(w)),
         step = "unique" => ContactsOf(User(w)) = {}
  PROVE  JobsFit'
<1> DEFINE new == [job[w] EXCEPT !.at = step]
<1>1. /\ job[w] \in JobState /\ JobFits(job[w]) /\ job \in [Workers -> JobState]
      /\ User(w) = Customer[job[w].order]
  BY JobTyped
<1>2. step \in Steps
  BY DEF Steps, Refused
<1>3. /\ new \in JobState /\ new.at = step /\ new.read = job[w].read
      /\ new.found = job[w].found /\ new.made = job[w].made /\ new.order = job[w].order
  BY <1>1, <1>2 DEF JobState
<1>4. job' = [job EXCEPT ![w] = new]
  BY DEF Goto
<1>5. step = "unique" => NoPlain(User(w))
  BY DEF NoPlain, ContactsOf
<1> HIDE DEF new
<1>6. JobFits(new)
  BY <1>1, <1>3, <1>5 DEF JobFits
<1>7. QED BY <1>3, <1>4, <1>6, NewJob

LEMMA SearchContactFits ==
  ASSUME Contacted, NEW w \in Workers, SearchContact(w)
  PROVE  Contacted'
<1> DEFINE next == IF At(w, "email") THEN "create" ELSE "unique"
<1>1. /\ UNCHANGED <<manual, order, contacts, documents, raced, late>>
      /\ (Fault \/ NoFault) /\ (Release(w) \/ UNCHANGED lock)
  BY DEF SearchContact, Abandon, zohoVars
<1>2. RowsTyped' /\ OrdersFit'
  BY <1>1, FaultTyped, ReleaseTyped, LenTyped, SameOrders DEF Contacted, RowsTyped
<1>3. CASE \E c \in ContactsOf(User(w)) : Resolved(w, c)
  <2>1. PICK c \in ContactsOf(User(w)) : Resolved(w, c)
    BY <1>3
  <2>2. c \in Known(User(w)) /\ c \in Nat
    BY DEF Known, ContactsOf, Contacted, ContactsFit
  <2>3. QED BY <1>1, <1>2, <2>1, <2>2, ResolvedFits, ShopAndKnownFit
<1>4. CASE End(w) /\ UNCHANGED contactOf
  BY <1>1, <1>2, <1>4, LenTyped, EndFits, ShopFits
<1>5. CASE /\ ContactsOf(User(w)) = {} /\ ~At(w, "last")
           /\ Goto(w, next) /\ UNCHANGED contactOf
  <2>1. CASE At(w, "email")
    BY <1>1, <1>2, <1>5, <2>1, GotoFits, ShopFits DEF Steps, Refused
  <2>2. CASE At(w, "again")
    <3>1. NameTaken(User(w))
      BY <2>2, JobTyped DEF At, JobFits, Refused
    <3>2. Goto(w, "unique")
      BY <1>5, <2>2 DEF At
    <3>3. QED BY <1>1, <1>2, <1>5, <3>1, <3>2, AgainFits, ShopFits DEF Refused
  <2>3. QED BY <1>5, <2>1, <2>2 DEF SearchContact
<1>6. QED BY <1>3, <1>4, <1>5 DEF SearchContact, Abandon

\* What was known of the customer and is still true.
StillKnown(v) ==
  /\ Known(v) \subseteq Known(v)'
  /\ NameTaken(v) => NameTaken(v)'
  /\ NameTaken(v) /\ NoPlain(v) => NoPlain(v)'

\* What remains true when Books gets a contact it did not have: of a customer
\* without one, under a plain name nobody has or a unique name.
LEMMA CreatedFits ==
  ASSUME Contacted, NEW u \in Users, NEW unique \in BOOLEAN,
         contacts' = Append(contacts, [email |-> u, unique |-> unique]),
         ContactsOf(u) = {}, unique <=> NameTaken(u)
  PROVE  /\ ContactsFit' /\ Len(contacts) + 1 \in Known(u)'
         /\ \A v \in Users : StillKnown(v)
<1> DEFINE n == Len(contacts) + 1
           new == [email |-> u, unique |-> unique]
<1>1. contacts \in Seq(Contact) /\ new \in Contact /\ Len(contacts) \in Nat
  BY DEF Contacted, ContactsFit, Contact
<1>2. /\ contacts' \in Seq(Contact) /\ DOMAIN contacts' = 1..n /\ n \in 1..n
      /\ DOMAIN contacts = 1..Len(contacts) /\ n \notin DOMAIN contacts
      /\ DOMAIN contacts' = DOMAIN contacts \cup {n}
      /\ \A c \in DOMAIN contacts : contacts'[c] = contacts[c]
      /\ contacts'[n] = new
  BY <1>1
<1>3. new.email = u /\ new.unique = unique
  OBVIOUS
<1> HIDE DEF n, new
<1>4. ASSUME NEW v \in Users, NameTaken(v), NoPlain(v) PROVE NoPlain(v)'
  <2>1. SUFFICES ASSUME NEW c \in DOMAIN contacts', contacts'[c].email = v
                 PROVE  contacts'[c].unique
    BY DEF NoPlain
  <2>2. CASE c \in DOMAIN contacts
    BY <1>2, <1>4, <2>1, <2>2 DEF NoPlain
  <2>3. CASE c = n
    BY <1>2, <1>3, <1>4, <2>1, <2>3
  <2>4. QED BY <1>2, <2>2, <2>3
<1>5. ASSUME NEW v \in Users PROVE StillKnown(v)
  <2>1. Known(v) \subseteq Known(v)'
    BY <1>2 DEF Known, ContactsOf
  <2>2. NameTaken(v) => NameTaken(v)'
    BY <1>2 DEF NameTaken
  <2>3. NameTaken(v) /\ NoPlain(v) => NoPlain(v)'
    BY <1>4
  <2>4. QED BY <2>1, <2>2, <2>3 DEF StillKnown
<1>6. n \in Known(u)'
  BY <1>2, <1>3 DEF Known, ContactsOf
<1>7. ASSUME NEW c \in DOMAIN contacts', NEW d \in DOMAIN contacts',
             contacts'[c].email = contacts'[d].email
      PROVE  c = d
  <2>1. ASSUME NEW e \in DOMAIN contacts PROVE contacts[e].email # u
    BY DEF ContactsOf
  <2>2. CASE c \in DOMAIN contacts /\ d \in DOMAIN contacts
    BY <1>2, <1>7, <2>2 DEF Contacted, ContactsFit
  <2>3. CASE c = n \/ d = n
    BY <1>2, <1>3, <1>7, <2>1, <2>3
  <2>4. QED BY <1>2, <2>2, <2>3
<1>8. ASSUME NEW v \in Users, NEW c \in DOMAIN contacts', contacts'[c].email = v,
             contacts'[c].unique
      PROVE  NameTaken(v)'
  <2>1. NameTaken(v)
    <3>1. CASE c \in DOMAIN contacts
      BY <1>2, <1>8, <3>1 DEF Contacted, ContactsFit
    <3>2. CASE c = n
      BY <1>2, <1>3, <1>8, <3>2
    <3>3. QED BY <1>2, <3>1, <3>2
  <2>2. StillKnown(v)
    BY <1>5
  <2>3. QED BY <2>1, <2>2 DEF StillKnown
<1>9. ContactsFit'
  BY <1>2, <1>7, <1>8 DEF ContactsFit
<1>10. Len(contacts) + 1 \in Known(u)'
  BY <1>6 DEF n
<1>11. QED BY <1>5, <1>9, <1>10

\* The other jobs while Books gets a contact.
LEMMA OtherJobFits ==
  ASSUME NEW j, JobFits(j), Customer[j.order] \in Users, UNCHANGED documents,
         \A v \in Users : StillKnown(v)
  PROVE  JobFits(j)'
<1> DEFINE u == Customer[j.order]
<1>1. /\ j.read \in Known(u)' /\ j.found \in Known(u)'
      /\ j.at \in Refused => NameTaken(u)'
      /\ j.at = "unique" => NoPlain(u)'
  <2>1. StillKnown(u)
    OBVIOUS
  <2>2. /\ j.read \in Known(u) /\ j.found \in Known(u)
        /\ j.at \in Refused => NameTaken(u)
        /\ j.at = "unique" => NoPlain(u) /\ NameTaken(u)
    BY DEF JobFits, Refused
  <2> HIDE DEF u
  <2>3. QED BY <2>1, <2>2 DEF StillKnown
<1>2. j.made \in 0..Len(documents')
  BY DEF JobFits
<1> HIDE DEF u
<1>3. QED BY <1>1, <1>2 DEF JobFits, u

LEMMA CreateContactFits ==
  ASSUME Contacted, NEW w \in Workers, CreateContact(w)
  PROVE  Contacted'
<1> PICK u \in Users : u = User(w)
  BY JobTyped
<1> PICK unique \in BOOLEAN : unique = At(w, "unique")
  BY DEF At
<1> PICK n \in Nat : n = Len(contacts) + 1
  BY LenTyped
<1>1. /\ UNCHANGED <<manual, order, documents, raced, late>>
      /\ (Fault \/ NoFault) /\ (Release(w) \/ UNCHANGED lock)
  BY DEF CreateContact, Abandon
<1>2. RowsTyped' /\ OrdersFit' /\ DocumentsFit'
  BY <1>1, FaultTyped, ReleaseTyped, LenTyped, SameOrders
     DEF Contacted, RowsTyped, DocumentsFit
<1>3. u = Customer[job[w].order] /\ JobFits(job[w])
  BY JobTyped
<1>4. unique => NameTaken(u) /\ NoPlain(u)
  BY <1>3 DEF At, JobFits, Refused
<1>5. CASE UNCHANGED <<contacts, contactOf>> /\ End(w)
  BY <1>1, <1>2, <1>5, LenTyped, EndFits, SameKnown, ZohoFits
<1>6. CASE /\ NameTaken(u) /\ UNCHANGED <<contacts, contactOf>>
           /\ Goto(w, WhenTaken(job[w].at))
  <2>1. WhenTaken(job[w].at) \in Refused /\ WhenTaken(job[w].at) # "unique"
    BY DEF WhenTaken, Refused
  <2>2. JobsFit'
    BY <1>1, <1>6, <2>1, AgainFits
  <2>3. QED BY <1>1, <1>2, <1>6, <2>2, SameKnown, ZohoFits
<1>7. CASE /\ ~(IF unique THEN UniqueTaken(u) ELSE NameTaken(u))
           /\ contacts' = Append(contacts, [email |-> u, unique |-> unique])
           /\ (Resolved(w, n) \/ (End(w) /\ UNCHANGED contactOf))
  <2>1. unique <=> NameTaken(u)
    BY <1>4, <1>7
  <2>2. ContactsOf(u) = {}
    <3>1. SUFFICES ASSUME NEW c \in DOMAIN contacts, contacts[c].email = u PROVE FALSE
      BY DEF ContactsOf
    <3>2. contacts[c] \in Contact
      BY DEF Contacted, ContactsFit
    <3>3. contacts[c] = [email |-> u, unique |-> contacts[c].unique]
      BY <3>1, <3>2 DEF Contact
    <3>4. CASE unique
      <4>1. contacts[c].unique = TRUE
        BY <1>4, <3>1, <3>2, <3>4 DEF NoPlain, Contact
      <4>2. QED BY <1>7, <3>3, <3>4, <4>1 DEF UniqueTaken
    <3>5. CASE ~unique
      <4>1. ~NameTaken(u)
        BY <1>7, <3>5
      <4>2. ~contacts[c].unique
        BY <1>3, <3>1, <4>1 DEF Contacted, ContactsFit
      <4>3. QED BY <3>1, <4>1, <4>2 DEF NameTaken
    <3>6. QED BY <3>4, <3>5
  <2>3. /\ ContactsFit' /\ Len(contacts) + 1 \in Known(u)'
        /\ \A v \in Users : StillKnown(v)
    BY <1>7, <2>1, <2>2, CreatedFits
  <2>4. n \in Known(u)'
    BY <2>3
  <2>5. KnownFit'
    <3>1. UNCHANGED contactOf \/ contactOf' = [contactOf EXCEPT ![u] = n]
      BY <1>7 DEF Resolved, Persist
    <3>2. contactOf \in [Users -> Nat] /\ \A v \in Users : contactOf[v] \in Known(v)
      BY DEF Contacted, KnownFit
    <3>3. contactOf' \in [Users -> Nat]
      BY <1>3, <3>1, <3>2
    <3>4. ASSUME NEW v \in Users PROVE contactOf'[v] \in Known(v)'
      <4>1. StillKnown(v)
        BY <2>3
      <4>2. contactOf[v] \in Known(v)'
        BY <3>2, <4>1 DEF StillKnown
      <4>3. CASE contactOf'[v] = contactOf[v]
        BY <4>2, <4>3
      <4>4. CASE v = u /\ contactOf'[v] = n
        BY <2>4, <4>4
      <4>5. QED BY <3>1, <3>2, <4>3, <4>4
    <3>5. QED BY <3>3, <3>4 DEF KnownFit
  <2>6. \E new \in JobState :
          /\ job' = [job EXCEPT ![w] = new]
          /\ JobFits(new)'
    <3>1. CASE End(w)
      BY <1>1, <3>1, IdleTyped, IdleFits, LenTyped DEF End
    <3>2. CASE Resolved(w, n)
      <4>1. PICK new \in JobState :
               /\ job' = [job EXCEPT ![w] = new] /\ new.order = job[w].order
               /\ new.at \in {"put", "post"} /\ new.read = job[w].read /\ new.found = n
               /\ new.made = job[w].made
        BY <1>3, <3>2, ResolvedJob
      <4>2. /\ Customer[new.order] = u /\ new.at \notin Refused /\ new.at # "unique"
            /\ new.made \in 0..Len(documents')
        BY <1>1, <1>3, <4>1 DEF JobFits, Refused
      <4>3. new.read \in Known(u)' /\ new.found \in Known(u)'
        <5>1. new.read \in Known(u)
          BY <1>3, <4>1 DEF JobFits
        <5>2. StillKnown(u)
          BY <2>3
        <5>3. new.read \in Known(u)'
          BY <5>1, <5>2 DEF StillKnown
        <5>4. QED BY <2>4, <4>1, <5>3
      <4>4. \A v : v = u => new.read \in Known(v)' /\ new.found \in Known(v)'
        BY <4>3
      <4>5. JobFits(new)'
        BY <4>2, <4>4 DEF JobFits, Refused
      <4>6. QED BY <4>1, <4>5
    <3>3. QED BY <1>7, <3>1, <3>2
  <2>7. JobsFit'
    <3>1. PICK new \in JobState : job' = [job EXCEPT ![w] = new] /\ JobFits(new)'
      BY <2>6
    <3>2. job \in [Workers -> JobState] /\ \A v \in Workers : JobFits(job[v])
      BY DEF Contacted, JobsFit
    <3>3. ASSUME NEW v \in Workers PROVE JobFits(job[v])'
      <4>1. CASE v = w
        <5>1. job'[v] = new
          BY <3>1, <3>2, <4>1
        <5>2. QED BY <3>1, <5>1 DEF JobFits
      <4>2. CASE v # w
        <5>1. job'[v] = job[v]
          BY <3>1, <3>2, <4>2
        <5>2. JobFits(job[v]) /\ Customer[job[v].order] \in Users
          BY <3>2, JobTyped
        <5>3. \A j : j = job[v] => JobFits(j)'
          BY <1>1, <2>3, <5>2, OtherJobFits
        <5>4. QED BY <5>1, <5>3 DEF JobFits
      <4>3. QED BY <4>1, <4>2
    <3>4. QED BY <3>1, <3>2, <3>3 DEF JobsFit
  <2>8. QED BY <1>1, <1>2, <2>3, <2>5, <2>7 DEF Contacted
<1>8. QED BY <1>5, <1>6, <1>7, <1>4 DEF CreateContact, Abandon

-----------------------------------------------------------------------------
LEMMA NextFits == Contacted /\ [Next]_vars => Contacted'
<1> SUFFICES ASSUME Contacted, [Next]_vars PROVE Contacted'
  OBVIOUS
<1>1. CASE UNCHANGED vars
  BY <1>1 DEF vars, Contacted, RowsTyped, OrdersFit, ContactsFit, KnownFit, DocumentsFit,
              JobsFit, JobFits, Known, ContactsOf, NameTaken, NoPlain
<1>2. ASSUME NEW w \in Workers, Step(w) PROVE Contacted'
  BY <1>2, SaveConfirmedFits, LockToCancelFits, VoidSalesOrderFits, FindSalesOrderFits,
     ReadOrderFits, LockOrderFits, CheckStoredFits, SearchContactFits, CreateContactFits,
     PostDocumentFits, SaveDocumentFits, UpdateDocumentFits DEF Step
<1>3. QED BY <1>1, <1>2, DieFits, RequestFits DEF Next

LEMMA InitFits == Init => Contacted
<1> SUFFICES ASSUME Init PROVE Contacted
  OBVIOUS
<1>1. RowsTyped
  BY ManualAssumption, BoundAssumption DEF Init, RowsTyped
<1>2. contacts = <<>> /\ documents = <<>>
  BY DEF Init
<1>3. Len(documents) = 0 /\ DOMAIN contacts = {} /\ DOMAIN documents = {}
  BY <1>2
<1>4. ContactsFit /\ DocumentsFit
  BY <1>2, <1>3 DEF ContactsFit, DocumentsFit
<1>5. KnownFit
  BY DEF Init, KnownFit, Known
<1>6. OrdersFit
  <2>1. [status |-> "absent", edits |-> 0, link |-> [k \in Kinds |-> 0]] \in OrderRow
    BY BoundAssumption DEF OrderRow
  <2>2. QED BY <1>3, <2>1 DEF Init, OrdersFit
<1>7. JobsFit
  <2>1. JobFits(Idle)
    BY <1>3, IdleTyped DEF JobFits, Known, Refused
  <2>2. job = [w \in Workers |-> Idle]
    BY DEF Init
  <2>3. \A w \in Workers : job[w] = Idle
    BY <2>2
  <2> HIDE DEF Idle
  <2>4. QED BY <2>1, <2>2, <2>3, IdleTyped DEF JobsFit
<1>8. QED BY <1>1, <1>4, <1>5, <1>6, <1>7 DEF Contacted

LEMMA AlwaysContacted == Spec => []Contacted
BY InitFits, NextFits, PTL DEF Spec

\* Every row, document and thread has its type, and an order only names documents
\* that were made.
THEOREM DocumentsTyped == Spec => []TypeOK
<1>1. Contacted => TypeOK
  <2> SUFFICES ASSUME Contacted PROVE TypeOK
    OBVIOUS
  <2>1. ASSUME NEW u \in Users PROVE contactOf[u] \in 0..Len(contacts)
    BY LenTyped DEF Contacted, KnownFit, Known, ContactsOf, ContactsFit
  <2>2. contactOf \in [Users -> 0..Len(contacts)]
    BY <2>1 DEF Contacted, KnownFit
  <2>3. QED
    BY <2>2 DEF Contacted, RowsTyped, OrdersFit, ContactsFit, DocumentsFit, JobsFit, TypeOK
<1>2. QED BY <1>1, AlwaysContacted, PTL

\* A customer has at most one contact in Books and every document is made out to the
\* customer of its order, whatever calls failed and whatever threads died.
THEOREM CustomersHaveOneContact == Spec => []OneContactEach
<1>1. Contacted => OneContactEach
  <2> SUFFICES ASSUME Contacted PROVE OneContactEach
    OBVIOUS
  <2>1. ASSUME NEW u \in Users PROVE Cardinality(ContactsOf(u)) <= 1
    <3>1. CASE ContactsOf(u) = {}
      BY <3>1, FS_EmptySet
    <3>2. CASE ContactsOf(u) # {}
      <4>1. PICK c \in ContactsOf(u) : TRUE
        BY <3>2
      <4>2. ContactsOf(u) = {c}
        <5>1. ASSUME NEW d \in ContactsOf(u) PROVE d = c
          BY DEF ContactsOf, Contacted, ContactsFit
        <5>2. QED BY <5>1
      <4>3. Cardinality(ContactsOf(u)) = 1
        BY <4>2, FS_Singleton
      <4>4. QED BY <4>3
    <3>3. QED BY <3>1, <3>2
  <2>2. QED BY <2>1 DEF OneContactEach, Contacted, KnownFit, Known, DocumentsFit
<1>2. QED BY <1>1, AlwaysContacted, PTL
-----------------------------------------------------------------------------
(***************************************************************************)
(* The documents of an order: how many there are, which are void, what the *)
(* sales order shows.  What a thread knows of the order it works on:       *)
(* JobPath, how it got to its step; JobLocks, what the row lock keeps from *)
(* changing under it; JobMade, the document it is about to link.           *)
(***************************************************************************)
ContactSteps == {"stored", "email", "create", "again", "unique", "last"}
MakeSteps == ContactSteps \cup {"post", "save"}

Holds(w) == lock[job[w].order] = w

\* w makes a document of the kind for the order.
Making(w, o, kind) == Busy(w, o, kind, {"post", "save"})
Saving(w, o, kind) == Busy(w, o, kind, {"save"})
Updating(w, o) == job[w].order = o /\ job[w].updates
Finding(w, o) == job[w].order = o /\ job[w].at = "find"
Linked(w) == order[job[w].order].link[job[w].kind] # 0

JobPath(w) ==
  /\ job[w].updates => /\ job[w].at \in ContactSteps \cup {"put"}
                       /\ job[w].kind = SalesOrderKind /\ Linked(w)
  /\ job[w].at = "find" => job[w].kind = SalesOrderKind
  /\ job[w].at = "put" => job[w].updates
  /\ job[w].at = "lock" => job[w].kind \in InBooks
  /\ job[w].at \in ContactSteps /\ ~job[w].updates => job[w].kind \in InBooks
  /\ job[w].kind = "salesorder" /\ job[w].at \notin {"idle", "cancel", "void"} => manual
  /\ job[w].at = "last" => ContactsOf(User(w)) # {}

JobLocks(w) ==
  LET o == job[w].order IN
  /\ job[w].at = "void" => Holds(w)
  /\ job[w].at \in MakeSteps /\ ~job[w].updates /\ job[w].kind \in InBooks =>
       /\ Holds(w) /\ ~Linked(w)
       /\ Cancelled(o) => o \in late
       /\ job[w].shows = order[o].edits
  /\ job[w].at \in {"post", "save"} /\ job[w].kind \notin InBooks /\ o \notin raced =>
       ~Linked(w)

JobMade(w) ==
  job[w].at = "save" =>
    /\ job[w].made \in DOMAIN documents
    /\ documents[job[w].made].order = job[w].order
    /\ documents[job[w].made].kind = job[w].kind
    /\ job[w].kind \in InBooks => /\ ~documents[job[w].made].void
                                  /\ documents[job[w].made].shows = job[w].shows

JobDocs(w) == JobPath(w) /\ JobLocks(w) /\ JobMade(w)

\* Two threads update, or create without a lock.
Crossing ==
  \A v, w \in Workers : v # w /\ job[v].order = job[w].order =>
    /\ job[v].updates /\ job[w].updates => job[v].order \in raced
    /\ \A o \in Orders : Making(v, o, "commerce") /\ Making(w, o, "commerce") => o \in raced

LinksFit ==
  /\ \A o \in Orders, kind \in Kinds :
       LET d == order[o].link[kind] IN
       d # 0 => documents[d].order = o /\ documents[d].kind = kind
  /\ ~manual => \A o \in Orders : order[o].link["salesorder"] = 0

VoidInv ==
  \A o \in Orders \ late :
    LET d == order[o].link["salesorder"] IN
    faults = 0 /\ d # 0 => documents[d].void = Cancelled(o)

Made(o, kind) == order[o].link[kind] # 0 \/ \E w \in Workers : Saving(w, o, kind)

CountInv ==
  \A o \in Orders, kind \in Kinds :
    kind \in InBooks \/ o \notin raced =>
      Cardinality(DocumentsOf(o, kind)) <= faults + (IF Made(o, kind) THEN 1 ELSE 0)

Found(o) == \E w \in Workers : Finding(w, o)

CurrentInv ==
  \A o \in Orders \ raced :
    faults = 0 /\ manual /\ order[o].status \notin {"synced", "cancelled"} =>
      /\ \A w \in Workers : Updating(w, o) => job[w].shows = order[o].edits \/ Found(o)
      /\ LET d == order[o].link["salesorder"] IN
         d # 0 => \/ documents[d].shows = order[o].edits
                  \/ Found(o) \/ \E w \in Workers : Updating(w, o)

DocsInv ==
  /\ \A w \in Workers : JobDocs(w)
  /\ Crossing /\ LinksFit /\ VoidInv /\ CountInv /\ CurrentInv

\* What the others may count on in a step of w.
LocksLast(w) ==
  /\ \A o \in Orders, v \in Workers \ {w} : lock[o] = v => lock'[o] = v
  /\ late \subseteq late' /\ raced \subseteq raced'
  /\ UNCHANGED manual

OrdersLast(w) ==
  \A o \in Orders :
    /\ \A kind \in Kinds : \/ order'[o].link[kind] = order[o].link[kind]
                           \/ Saving(w, o, kind) /\ order'[o].link[kind] # 0
    /\ order'[o].edits = order[o].edits \/ Unlocked(o)
    /\ Cancelled(o)' => Cancelled(o) \/ lock[o] \in {None, w}

DocumentsLast(w) ==
  \A d \in DOMAIN documents :
    /\ d \in DOMAIN documents'
    /\ documents'[d].order = documents[d].order /\ documents'[d].kind = documents[d].kind
    /\ \/ documents'[d].void = documents[d].void
       \/ At(w, "void") /\ d = order[job[w].order].link["salesorder"]
    /\ \/ documents'[d].shows = documents[d].shows
       \/ At(w, "put") /\ d = order[job[w].order].link[job[w].kind]

OthersLast(w) ==
  /\ \A v \in Workers : v # w => job'[v] = job[v]
  /\ \A u \in Users : ContactsOf(u) # {} => ContactsOf(u)' # {}

Leaves(w) == LocksLast(w) /\ OrdersLast(w) /\ DocumentsLast(w) /\ OthersLast(w)

LEMMA OtherPath ==
  ASSUME Contacted, DocsInv, NEW w \in Workers, Leaves(w), NEW v \in Workers, v # w
  PROVE  JobPath(v)'
<1>1. /\ job'[v] = job[v] /\ JobPath(v) /\ manual' = manual
      /\ job[v].order \in Orders /\ job[v].kind \in Kinds /\ User(v) \in Users
  BY JobTyped DEF DocsInv, JobDocs, Leaves, OthersLast, LocksLast
<1>2. SalesOrderKind' = SalesOrderKind /\ User(v)' = User(v)
  BY <1>1 DEF SalesOrderKind, User
<1>3. Linked(v) => Linked(v)'
  BY <1>1 DEF Linked, Leaves, OrdersLast
<1>4. ContactsOf(User(v)) # {} => ContactsOf(User(v))' # {}
  BY <1>1, <1>2 DEF Leaves, OthersLast, ContactsOf
<1>5. QED
  BY <1>1, <1>2, <1>3, <1>4 DEF JobPath

LEMMA OtherLocks ==
  ASSUME Contacted, DocsInv, NEW w \in Workers, Leaves(w), NEW v \in Workers, v # w
  PROVE  JobLocks(v)'
<1> DEFINE o == job[v].order
<1>1. /\ job'[v] = job[v] /\ JobLocks(v) /\ o \in Orders /\ job[v].kind \in Kinds
      /\ raced \subseteq raced' /\ late \subseteq late'
  BY JobTyped DEF DocsInv, JobDocs, Leaves, OthersLast, LocksLast
<1>2. Holds(v) => Holds(v)' /\ lock[o] \notin {None, w}
  BY <1>1, NoneAssumption DEF Holds, Leaves, LocksLast
<1>3. Holds(v) => order'[o].edits = order[o].edits /\ (Cancelled(o)' => Cancelled(o))
  BY <1>1, <1>2 DEF Leaves, OrdersLast, Unlocked
<1>4. Linked(v)' => Linked(v) \/ Saving(w, o, job[v].kind)
  BY <1>1 DEF Linked, Leaves, OrdersLast
<1>5. Saving(w, o, job[v].kind) /\ job[v].kind \in InBooks => ~Holds(v)
  <2>1. SUFFICES ASSUME Saving(w, o, job[v].kind), job[v].kind \in InBooks
                 PROVE  Holds(w) /\ job[w].order = o
    BY DEF Holds
  <2>2. job[w].order = o /\ job[w].kind = job[v].kind /\ job[w].at = "save"
    BY <2>1 DEF Saving, Busy
  <2>3. JobPath(w) /\ JobLocks(w)
    BY DEF DocsInv, JobDocs
  <2>4. ~job[w].updates
    BY <2>2, <2>3 DEF JobPath, ContactSteps
  <2>5. QED
    BY <2>1, <2>2, <2>3, <2>4 DEF JobLocks, MakeSteps
<1>6. Saving(w, o, job[v].kind) /\ job[v].kind \notin InBooks /\ job[v].at \in {"post", "save"}
        => o \in raced
  <2>1. SUFFICES ASSUME Saving(w, o, job[v].kind), job[v].kind \notin InBooks,
                        job[v].at \in {"post", "save"}
                 PROVE  o \in raced
    OBVIOUS
  <2>2. job[v].kind = "commerce"
    BY <1>1, <2>1 DEF Kinds, InBooks
  <2>3. Making(v, o, "commerce") /\ Making(w, o, "commerce") /\ job[v].order = job[w].order
    BY <2>1, <2>2 DEF Making, Saving, Busy
  <2>4. QED
    BY <1>1, <2>3 DEF DocsInv, Crossing
<1>7. /\ (Linked(v)' <=> order'[o].link[job[v].kind] # 0)
      /\ (Cancelled(o)' <=> order'[o].status = "cancelled")
      /\ (Holds(v)' <=> lock'[o] = v)
  BY <1>1 DEF Linked, Cancelled, Holds
<1>8. job[v].at = "void" => Holds(v)'
  BY <1>1, <1>2 DEF JobLocks
<1>9. job[v].at \in MakeSteps /\ ~job[v].updates /\ job[v].kind \in InBooks =>
        /\ Holds(v)' /\ ~Linked(v)'
        /\ Cancelled(o)' => o \in late'
        /\ job[v].shows = order'[o].edits
  BY <1>1, <1>2, <1>3, <1>4, <1>5 DEF JobLocks
<1>10. job[v].at \in {"post", "save"} /\ job[v].kind \notin InBooks /\ o \notin raced' => ~Linked(v)'
  BY <1>1, <1>4, <1>6 DEF JobLocks
<1> HIDE DEF o
<1>11. QED
  BY <1>1, <1>7, <1>8, <1>9, <1>10 DEF JobLocks, o, Cancelled, Holds, Linked

LEMMA OtherMade ==
  ASSUME Contacted, DocsInv, NEW w \in Workers, Leaves(w), NEW v \in Workers, v # w
  PROVE  JobMade(v)'
<1> DEFINE d == job[v].made
<1>1. job'[v] = job[v] /\ JobMade(v)
  BY DEF DocsInv, JobDocs, Leaves, OthersLast
<1>2. SUFFICES ASSUME job[v].at = "save" PROVE JobMade(v)'
  BY <1>1 DEF JobMade
<1>3. /\ d \in DOMAIN documents /\ documents[d].order = job[v].order
      /\ documents[d].kind = job[v].kind
      /\ job[v].kind \in InBooks => /\ ~documents[d].void
                                    /\ documents[d].shows = job[v].shows
  BY <1>1, <1>2 DEF JobMade
<1>4. d # 0
  BY <1>3 DEF Contacted, DocumentsFit
<1>5. /\ d \in DOMAIN documents' /\ documents'[d].order = documents[d].order
      /\ documents'[d].kind = documents[d].kind
  BY <1>3 DEF Leaves, DocumentsLast
<1>6. ASSUME NEW kind \in Kinds, d = order[job[w].order].link[kind], job[v].kind \in InBooks
      PROVE  FALSE
  <2>1. job[w].order \in Orders
    BY JobTyped
  <2>2. documents[d].order = job[w].order /\ documents[d].kind = kind
    BY <1>4, <1>6, <2>1 DEF DocsInv, LinksFit
  <2>3. Linked(v)
    BY <1>3, <1>4, <1>6, <2>2 DEF Linked
  <2>4. ~job[v].updates /\ job[v].at \in MakeSteps
    BY <1>2 DEF DocsInv, JobDocs, JobPath, ContactSteps, MakeSteps
  <2>5. ~Linked(v)
    BY <1>6, <2>4 DEF DocsInv, JobDocs, JobLocks
  <2>6. QED
    BY <2>3, <2>5
<1>7. job[v].kind \in InBooks => /\ documents'[d].void = documents[d].void
                                 /\ documents'[d].shows = documents[d].shows
  BY <1>3, <1>6, JobTyped DEF Leaves, DocumentsLast, Kinds
<1> HIDE DEF d
<1>8. QED
  BY <1>1, <1>3, <1>5, <1>7 DEF JobMade, d

LEMMA OtherDocs ==
  ASSUME Contacted, DocsInv, NEW w \in Workers, Leaves(w)
  PROVE  \A v \in Workers : v # w => JobDocs(v)'
BY OtherPath, OtherLocks, OtherMade DEF JobDocs

LEMMA IdleDocs ==
  ASSUME NEW w \in Workers, job'[w] = Idle
  PROVE  JobDocs(w)'
BY IdleTyped DEF JobDocs, JobPath, JobLocks, JobMade, ContactSteps, MakeSteps, Idle

\* Two threads cross only if one of them begins to update or to create.
LEMMA CrossingKept ==
  ASSUME Contacted, DocsInv, NEW w \in Workers, Leaves(w),
         job'[w].updates => job[w].updates /\ job'[w].order = job[w].order,
         \A o \in Orders : Making(w, o, "commerce")' => Making(w, o, "commerce")
  PROVE  Crossing'
<1>1. raced \subseteq raced' /\ \A v \in Workers : v # w => job'[v] = job[v]
  BY DEF Leaves, LocksLast, OthersLast
<1>2. \A v \in Workers : job'[v].updates => job[v].updates /\ job'[v].order = job[v].order
  BY <1>1
<1>3. \A v \in Workers, o \in Orders : Making(v, o, "commerce")' => Making(v, o, "commerce")
  BY <1>1 DEF Making, Busy
<1>4. \A v \in Workers, o \in Orders : Making(v, o, "commerce") => job[v].order = o
  BY DEF Making, Busy
<1>5. ASSUME NEW v \in Workers, NEW x \in Workers, v # x, job'[v].order = job'[x].order,
             job'[v].updates, job'[x].updates
      PROVE  job'[v].order \in raced'
  BY <1>1, <1>2, <1>5 DEF DocsInv, Crossing
<1>6. ASSUME NEW v \in Workers, NEW x \in Workers, v # x, NEW o \in Orders,
             Making(v, o, "commerce")', Making(x, o, "commerce")'
      PROVE  o \in raced'
  BY <1>1, <1>3, <1>4, <1>6 DEF DocsInv, Crossing
<1>7. QED
  BY <1>5, <1>6 DEF Crossing

-----------------------------------------------------------------------------
(***************************************************************************)
(* How a thread moves.                                                     *)
(***************************************************************************)
LEMMA OneMoves ==
  ASSUME Contacted, NEW w \in Workers, NEW new, job' = [job EXCEPT ![w] = new]
  PROVE  job'[w] = new /\ \A v \in Workers : v # w => job'[v] = job[v]
BY DEF Contacted, JobsFit

LEMMA EndIs ==
  ASSUME Contacted, NEW w \in Workers, End(w)
  PROVE  job'[w] = Idle /\ \A v \in Workers : v # w => job'[v] = job[v]
BY OneMoves DEF End

LEMMA StartIs ==
  ASSUME Contacted, NEW w \in Workers, NEW o, NEW step, NEW kind, Start(w, o, step, kind)
  PROVE  /\ job'[w].at = step /\ job'[w].order = o /\ job'[w].kind = kind
         /\ ~job'[w].updates
         /\ \A v \in Workers : v # w => job'[v] = job[v]
<1> DEFINE new == [Idle EXCEPT !.at = step, !.order = o, !.kind = kind]
<1>1. new.at = step /\ new.order = o /\ new.kind = kind /\ ~new.updates
  BY DEF Idle
<1>2. job' = [job EXCEPT ![w] = new]
  BY DEF Start
<1> HIDE DEF new
<1>3. QED
  BY <1>1, <1>2, OneMoves

\* The fields of a job that a step keeps.
SameJob(w) ==
  /\ job'[w].order = job[w].order /\ job'[w].kind = job[w].kind
  /\ job'[w].updates = job[w].updates /\ job'[w].shows = job[w].shows

LEMMA GotoIs ==
  ASSUME Contacted, NEW w \in Workers, NEW step, Goto(w, step)
  PROVE  /\ job'[w].at = step /\ SameJob(w)
         /\ \A v \in Workers : v # w => job'[v] = job[v]
<1> DEFINE new == [job[w] EXCEPT !.at = step]
<1>1. /\ new.at = step /\ new.order = job[w].order /\ new.kind = job[w].kind
      /\ new.updates = job[w].updates /\ new.shows = job[w].shows
  BY JobTyped DEF JobState
<1>2. job' = [job EXCEPT ![w] = new]
  BY DEF Goto
<1> HIDE DEF new
<1>3. QED
  BY <1>1, <1>2, OneMoves DEF SameJob

LEMMA ResolvedIs ==
  ASSUME Contacted, NEW w \in Workers, NEW c, Resolved(w, c)
  PROVE  /\ job'[w].at = IF job[w].updates THEN "put" ELSE "post"
         /\ SameJob(w)
         /\ \A v \in Workers : v # w => job'[v] = job[v]
<1> DEFINE at == IF job[w].updates THEN "put" ELSE "post"
           new == [job[w] EXCEPT !.at = at, !.found = c]
<1>1. job[w] \in JobState /\ job \in [Workers -> JobState]
  BY JobTyped
<1>2. job' = [job EXCEPT ![w] = new]
  BY <1>1 DEF Resolved
<1> HIDE DEF at
<1>3. /\ new.at = at /\ new.order = job[w].order /\ new.kind = job[w].kind
      /\ new.updates = job[w].updates /\ new.shows = job[w].shows
  BY <1>1 DEF JobState
<1> HIDE DEF new
<1>4. QED
  BY <1>2, <1>3, OneMoves DEF SameJob, at

LEMMA LocksMove ==
  ASSUME Contacted, NEW w \in Workers,
         \/ UNCHANGED lock \/ Release(w)
         \/ \E o \in Orders : Unlocked(o) /\ lock' = [lock EXCEPT ![o] = w]
  PROVE  \A o \in Orders, v \in Workers \ {w} : lock[o] = v => lock'[o] = v
BY NoneAssumption DEF Contacted, RowsTyped, Release, Unlocked

LEMMA ContactsGrow ==
  ASSUME Contacted, UNCHANGED contacts \/ \E x : contacts' = Append(contacts, x)
  PROVE  \A u \in Users : ContactsOf(u) # {} => ContactsOf(u)' # {}
<1>1. CASE UNCHANGED contacts
  BY <1>1 DEF ContactsOf
<1>2. ASSUME NEW x, contacts' = Append(contacts, x)
      PROVE  \A u \in Users : ContactsOf(u) # {} => ContactsOf(u)' # {}
  <2>1. \A c \in DOMAIN contacts : c \in DOMAIN contacts' /\ contacts'[c] = contacts[c]
    BY <1>2 DEF Contacted, ContactsFit
  <2>2. QED
    BY <2>1 DEF ContactsOf
<1>3. QED
  BY <1>1, <1>2

\* A step that changes neither orders nor documents.
LEMMA QuietLeaves ==
  ASSUME Contacted, NEW w \in Workers, UNCHANGED <<manual, order, documents>>,
         \/ UNCHANGED lock \/ Release(w)
         \/ \E o \in Orders : Unlocked(o) /\ lock' = [lock EXCEPT ![o] = w],
         late \subseteq late', raced \subseteq raced',
         UNCHANGED contacts \/ \E x : contacts' = Append(contacts, x),
         \A v \in Workers : v # w => job'[v] = job[v]
  PROVE  Leaves(w)
<1>1. LocksLast(w)
  BY LocksMove DEF LocksLast
<1>2. OrdersLast(w) /\ DocumentsLast(w)
  BY DEF OrdersLast, DocumentsLast, Cancelled
<1>3. OthersLast(w)
  BY ContactsGrow DEF OthersLast
<1>4. QED
  BY <1>1, <1>2, <1>3 DEF Leaves

\* Only a fault ends the making of a document before it is done ...
MakingKept(w) == faults' = faults => job[w].at # "save"

\* ... and the search for a sales order or an update of it.
UpdateKept(w) ==
  /\ job'[w].updates => job[w].updates
  /\ faults' = faults => job[w].at # "find" /\ (job[w].updates => job'[w].updates)
  /\ job[w].updates /\ job'[w].updates =>
       job'[w].order = job[w].order /\ job'[w].shows = job[w].shows

\* A step that changes at most the status of orders and what is void.
LinksStay == \A o \in Orders, kind \in Kinds : order'[o].link[kind] = order[o].link[kind]

DocumentsStay ==
  /\ DOMAIN documents' = DOMAIN documents
  /\ \A d \in DOMAIN documents : /\ documents'[d].order = documents[d].order
                                 /\ documents'[d].kind = documents[d].kind

ShowsStay ==
  /\ \A d \in DOMAIN documents : documents'[d].shows = documents[d].shows
  /\ \A o \in Orders : /\ order'[o].edits = order[o].edits
                       /\ order'[o].status \notin {"synced", "cancelled"} =>
                            order[o].status \notin {"synced", "cancelled"}

FaultsGrow == faults' \in Nat /\ faults' >= faults

LEMMA FaultsTyped ==
  ASSUME Contacted
  PROVE  faults \in Nat
BY BoundAssumption DEF Contacted, RowsTyped

LEMMA FaultGrows ==
  ASSUME Contacted, Fault \/ NoFault
  PROVE  faults' \in Nat /\ faults' >= faults /\ (Fault => faults' = faults + 1)
BY FaultsTyped DEF Fault, NoFault

LEMMA CountTyped ==
  ASSUME Contacted, NEW o \in Orders, NEW kind \in Kinds
  PROVE  IsFiniteSet(DocumentsOf(o, kind)) /\ Cardinality(DocumentsOf(o, kind)) \in Nat
<1>1. DocumentsOf(o, kind) \subseteq 1..Len(documents) /\ Len(documents) \in Nat
  BY DEF DocumentsOf, Contacted, DocumentsFit
<1>2. IsFiniteSet(1..Len(documents))
  BY <1>1, FS_Interval
<1>3. QED
  BY <1>1, <1>2, FS_Subset, FS_CardinalityType

\* The number of documents does not change, and who was saving one still is, or died.
LEMMA CountKept ==
  ASSUME Contacted, DocsInv, NEW w \in Workers, Leaves(w), faults' \in Nat, faults' >= faults,
         faults' = faults => \A o \in Orders, kind \in Kinds : Made(o, kind) => Made(o, kind)',
         \A o \in Orders, kind \in Kinds : DocumentsOf(o, kind)' = DocumentsOf(o, kind)
  PROVE  CountInv'
<1> SUFFICES ASSUME NEW o \in Orders, NEW kind \in Kinds, kind \in InBooks \/ o \notin raced'
             PROVE  Cardinality(DocumentsOf(o, kind)')
                      <= faults' + (IF Made(o, kind)' THEN 1 ELSE 0)
  BY DEF CountInv
<1>1. kind \in InBooks \/ o \notin raced
  BY DEF Leaves, LocksLast
<1>2. Cardinality(DocumentsOf(o, kind)) <= faults + (IF Made(o, kind) THEN 1 ELSE 0)
  BY <1>1 DEF DocsInv, CountInv
<1>3. Cardinality(DocumentsOf(o, kind)) \in Nat /\ faults \in Nat
  BY CountTyped, FaultsTyped
<1>4. faults' = faults => (Made(o, kind) => Made(o, kind)')
  OBVIOUS
<1>5. DocumentsOf(o, kind)' = DocumentsOf(o, kind)
  OBVIOUS
<1>6. CASE faults' = faults
  BY <1>2, <1>3, <1>4, <1>5, <1>6
<1>7. CASE faults' # faults
  <2>1. faults' >= faults + 1
    BY <1>3, <1>7
  <2>2. Cardinality(DocumentsOf(o, kind)) <= faults + 1
    BY <1>2, <1>3
  <2>3. QED
    BY <1>3, <1>5, <2>1, <2>2
<1>8. QED
  BY <1>6, <1>7

LEMMA LinkTyped ==
  ASSUME Contacted, NEW o \in Orders, NEW kind \in Kinds
  PROVE  /\ order[o].link[kind] # 0 => order[o].link[kind] \in DOMAIN documents
         /\ order[o].link[kind] \in Nat
BY LenTyped DEF Contacted, OrdersFit, DocumentsFit

LEMMA LinksKept ==
  ASSUME Contacted, DocsInv, NEW w \in Workers, Leaves(w), LinksStay, DocumentsStay
  PROVE  LinksFit'
<1>1. manual' = manual
  BY DEF Leaves, LocksLast
<1>2. LinksFit /\ "salesorder" \in Kinds
  BY DEF DocsInv, Kinds
<1>3. QED
  BY <1>1, <1>2, LinkTyped DEF LinksFit, LinksStay, DocumentsStay

LEMMA CountSame ==
  ASSUME Contacted, DocsInv, NEW w \in Workers, Leaves(w), LinksStay, DocumentsStay, FaultsGrow,
         MakingKept(w)
  PROVE  CountInv'
<1>1. \A v \in Workers : v # w => job'[v] = job[v]
  BY DEF Leaves, OthersLast
<1>2. ASSUME faults' = faults, NEW o \in Orders, NEW kind \in Kinds, Made(o, kind)
      PROVE  Made(o, kind)'
  <2>1. \A v \in Workers : Saving(v, o, kind) => Saving(v, o, kind)'
    BY <1>1, <1>2 DEF Saving, Busy, MakingKept
  <2>2. QED
    BY <1>2, <2>1 DEF Made, LinksStay
<1>3. \A o \in Orders, kind \in Kinds : DocumentsOf(o, kind)' = DocumentsOf(o, kind)
  BY DEF DocumentsOf, DocumentsStay
<1>4. QED
  BY <1>2, <1>3, CountKept DEF FaultsGrow

LEMMA CurrentKept ==
  ASSUME Contacted, DocsInv, NEW w \in Workers, Leaves(w), LinksStay, ShowsStay, FaultsGrow,
         UpdateKept(w)
  PROVE  CurrentInv'
<1>f. faults \in Nat
  BY FaultsTyped
<1>o. manual' = manual /\ raced \subseteq raced' /\ \A v \in Workers : v # w => job'[v] = job[v]
  BY DEF Leaves, LocksLast, OthersLast
<1> SUFFICES ASSUME NEW o \in Orders \ raced', faults' = 0, manual',
                    order'[o].status \notin {"synced", "cancelled"}
             PROVE  /\ \A v \in Workers :
                         Updating(v, o)' => job'[v].shows = order'[o].edits \/ Found(o)'
                    /\ order'[o].link["salesorder"] # 0 =>
                         \/ documents'[order'[o].link["salesorder"]].shows = order'[o].edits
                         \/ Found(o)' \/ \E v \in Workers : Updating(v, o)'
  BY DEF CurrentInv
<1>1. /\ faults = 0 /\ faults' = faults /\ manual /\ o \in Orders \ raced
      /\ order[o].status \notin {"synced", "cancelled"}
      /\ order'[o].edits = order[o].edits
  BY <1>f, <1>o DEF FaultsGrow, ShowsStay
<1>2. /\ \A v \in Workers : Updating(v, o) => job[v].shows = order[o].edits \/ Found(o)
      /\ order[o].link["salesorder"] # 0 =>
           \/ documents[order[o].link["salesorder"]].shows = order[o].edits
           \/ Found(o) \/ \E v \in Workers : Updating(v, o)
  BY <1>1 DEF DocsInv, CurrentInv
<1>3. Found(o) => Found(o)'
  <2>1. \A v \in Workers : Finding(v, o) => Finding(v, o)'
    BY <1>o, <1>1 DEF Finding, UpdateKept
  <2>2. QED
    BY <2>1 DEF Found
<1>4. \A v \in Workers : /\ Updating(v, o)' <=> Updating(v, o)
                         /\ Updating(v, o) => job'[v].shows = job[v].shows
  BY <1>o, <1>1 DEF Updating, UpdateKept
<1>5. /\ order'[o].link["salesorder"] = order[o].link["salesorder"]
      /\ order[o].link["salesorder"] # 0 =>
           documents'[order[o].link["salesorder"]].shows
             = documents[order[o].link["salesorder"]].shows
  <2>1. "salesorder" \in Kinds /\ o \in Orders
    BY DEF Kinds
  <2>2. order'[o].link["salesorder"] = order[o].link["salesorder"]
    BY <2>1 DEF LinksStay
  <2>3. order[o].link["salesorder"] # 0 => order[o].link["salesorder"] \in DOMAIN documents
    BY <2>1, LinkTyped
  <2>4. \A d \in DOMAIN documents : documents'[d].shows = documents[d].shows
    BY DEF ShowsStay
  <2> DEFINE d == order[o].link["salesorder"]
  <2>5. d # 0 => documents'[d].shows = documents[d].shows
    <3> HIDE DEF d
    <3>1. d # 0 => d \in DOMAIN documents
      BY <2>3 DEF d
    <3>2. QED
      BY <2>4, <3>1
  <2>6. QED
    BY <2>2, <2>5
<1>6. \A v \in Workers : Updating(v, o)' => job'[v].shows = order'[o].edits \/ Found(o)'
  BY <1>1, <1>2, <1>3, <1>4
<1> DEFINE d == order[o].link["salesorder"]
           e == order'[o].link["salesorder"]
<1>7. e = d /\ (d # 0 => documents'[d].shows = documents[d].shows)
  BY <1>5
<1>8. d # 0 => documents[d].shows = order[o].edits \/ Found(o) \/ \E v \in Workers : Updating(v, o)
  BY <1>2
<1> HIDE DEF d, e
<1>9. e # 0 => \/ documents'[e].shows = order'[o].edits
               \/ Found(o)' \/ \E v \in Workers : Updating(v, o)'
  <2>1. (\E v \in Workers : Updating(v, o)) => \E v \in Workers : Updating(v, o)'
    BY <1>4
  <2>2. e # 0 => documents'[e].shows = documents[d].shows
    BY <1>7
  <2>3. QED
    BY <1>1, <1>3, <1>7, <1>8, <2>1, <2>2
<1>10. QED
  BY <1>6, <1>9 DEF e

\* A step that changes neither orders nor documents.
LEMMA QuietStay ==
  ASSUME UNCHANGED <<order, documents>>
  PROVE  LinksStay /\ DocumentsStay /\ ShowsStay
BY DEF LinksStay, DocumentsStay, ShowsStay

LEMMA QuietVoid ==
  ASSUME Contacted, DocsInv, NEW w \in Workers, Leaves(w), UNCHANGED <<order, documents>>,
         FaultsGrow
  PROVE  VoidInv'
<1>1. faults \in Nat /\ late \subseteq late'
  BY FaultsTyped DEF Leaves, LocksLast
<1>2. QED
  BY <1>1 DEF DocsInv, VoidInv, Cancelled, FaultsGrow

LEMMA QuietKeeps ==
  ASSUME Contacted, DocsInv, NEW w \in Workers, Leaves(w), UNCHANGED <<order, documents>>,
         FaultsGrow, MakingKept(w), UpdateKept(w), JobDocs(w)', Crossing'
  PROVE  DocsInv'
<1>1. \A v \in Workers : JobDocs(v)'
  BY OtherDocs
<1>2. LinksFit' /\ VoidInv' /\ CountInv' /\ CurrentInv'
  BY QuietStay, QuietVoid, LinksKept, CountSame, CurrentKept
<1>3. QED
  BY <1>1, <1>2 DEF DocsInv

-----------------------------------------------------------------------------
(***************************************************************************)
(* The requests.                                                           *)
(***************************************************************************)
Stays(w) == \A v \in Workers : v # w => job'[v] = job[v]

LEMMA OnlyUpdatesTagged ==
  ASSUME Contacted, DocsInv, NEW w \in Workers,
         job[w].at \notin ContactSteps \cup {"put"}
  PROVE  ~job[w].updates
BY DEF DocsInv, JobDocs, JobPath

\* A thread that has not read the order yet.
LEMMA LightDocs ==
  ASSUME NEW w \in Workers, manual' = manual, ~job'[w].updates,
         job'[w].at \in {"read", "confirm", "lock", "cancel", "find"},
         job'[w].at = "lock" => job'[w].kind \in InBooks,
         job'[w].at = "find" => job'[w].kind = SalesOrderKind,
         job'[w].kind = "salesorder" /\ job'[w].at # "cancel" => manual
  PROVE  JobDocs(w)' /\ \A o \in Orders : ~Making(w, o, "commerce")'
<1>1. SalesOrderKind' = SalesOrderKind
  BY DEF SalesOrderKind
<1>2. JobPath(w)'
  BY <1>1 DEF JobPath, ContactSteps
<1>3. JobLocks(w)' /\ JobMade(w)'
  BY DEF JobLocks, JobMade, MakeSteps, ContactSteps
<1>4. \A o \in Orders : ~Making(w, o, "commerce")'
  BY DEF Making, Busy
<1>5. QED
  BY <1>2, <1>3, <1>4 DEF JobDocs

LEMMA LightKeeps ==
  ASSUME Contacted, DocsInv, NEW w \in Workers,
         UNCHANGED <<manual, order, contacts, documents, faults, raced>>,
         late \subseteq late',
         UNCHANGED lock \/ Release(w)
           \/ \E o \in Orders : Unlocked(o) /\ lock' = [lock EXCEPT ![o] = w],
         job[w].at \notin ContactSteps \cup {"put", "find", "save"}, Stays(w), ~job'[w].updates,
         JobDocs(w)', \A o \in Orders : Making(w, o, "commerce")' => Making(w, o, "commerce")
  PROVE  DocsInv'
<1>1. Leaves(w)
  BY QuietLeaves DEF Stays
<1>2. ~job[w].updates
  BY OnlyUpdatesTagged
<1>3. MakingKept(w) /\ UpdateKept(w) /\ FaultsGrow
  BY <1>2, FaultsTyped DEF MakingKept, UpdateKept, FaultsGrow
<1>4. Crossing'
  BY <1>1, CrossingKept
<1>5. QED
  BY <1>1, <1>3, <1>4, QuietKeeps

LEMMA StartKeeps ==
  ASSUME Contacted, DocsInv, NEW w \in Workers, NEW o \in Orders, NEW step, NEW kind,
         UNCHANGED <<manual, lock, rowVars, zohoVars, faults, raced>>,
         At(w, "idle"), Start(w, o, step, kind),
         step \in {"read", "confirm", "lock", "cancel", "find"},
         step = "lock" => kind \in InBooks, step = "find" => kind = SalesOrderKind,
         kind = "salesorder" /\ step # "cancel" => manual
  PROVE  DocsInv'
<1>1. /\ job'[w].at = step /\ job'[w].kind = kind /\ ~job'[w].updates /\ Stays(w)
  BY StartIs DEF Stays
<1>2. JobDocs(w)' /\ \A p \in Orders : ~Making(w, p, "commerce")'
  BY <1>1, LightDocs
<1>3. job[w].at \notin ContactSteps \cup {"put", "find", "save"}
  BY DEF At, ContactSteps
<1>4. QED
  BY <1>1, <1>2, <1>3, LightKeeps DEF rowVars, zohoVars

LEMMA RetryDocs ==
  ASSUME Contacted, DocsInv, NEW w \in Workers, NEW o \in Orders, Retry(w, o)
  PROVE  DocsInv'
BY StartKeeps DEF Retry

LEMMA ConfirmOrderDocs ==
  ASSUME Contacted, DocsInv, NEW w \in Workers, NEW o \in Orders, ConfirmOrder(w, o)
  PROVE  DocsInv'
<1>1. CASE Start(w, o, "confirm", "invoice")
  BY <1>1, StartKeeps DEF ConfirmOrder
<1>2. CASE Start(w, o, "read", "invoice")
  BY <1>2, StartKeeps DEF ConfirmOrder
<1>3. QED
  BY <1>1, <1>2 DEF ConfirmOrder

LEMMA StaffInvoiceDocs ==
  ASSUME Contacted, DocsInv, NEW w \in Workers, NEW o \in Orders, StaffInvoice(w, o)
  PROVE  DocsInv'
BY StartKeeps DEF StaffInvoice, InBooks

LEMMA CancelOrderDocs ==
  ASSUME Contacted, DocsInv, NEW w \in Workers, NEW o \in Orders, CancelOrder(w, o)
  PROVE  DocsInv'
BY StartKeeps DEF CancelOrder

\* A step that writes to one order, and to no document.
LEMMA RowsKeep ==
  ASSUME Contacted, DocsInv, NEW w \in Workers, Leaves(w), LinksStay, DocumentsStay, ShowsStay,
         FaultsGrow, MakingKept(w), UpdateKept(w), JobDocs(w)', Crossing', VoidInv'
  PROVE  DocsInv'
<1>1. \A v \in Workers : JobDocs(v)'
  BY OtherDocs
<1>2. LinksFit' /\ CountInv' /\ CurrentInv'
  BY LinksKept, CountSame, CurrentKept
<1>3. QED
  BY <1>1, <1>2 DEF DocsInv

LEMMA StatusIs ==
  ASSUME Contacted, NEW o \in Orders, NEW s, order' = [order EXCEPT ![o].status = s]
  PROVE  /\ order'[o].status = s /\ \A p \in Orders : p # o => order'[p] = order[p]
         /\ LinksStay /\ \A p \in Orders : order'[p].edits = order[p].edits
<1>1. order \in [Orders -> OrderRow] /\ order[o] \in OrderRow
  BY DEF Contacted, OrdersFit
<1>2. order' = [order EXCEPT ![o] = [order[o] EXCEPT !.status = s]]
  BY <1>1
<1> DEFINE new == [order[o] EXCEPT !.status = s]
<1>3. new.status = s /\ new.edits = order[o].edits /\ new.link = order[o].link
  BY <1>1 DEF OrderRow
<1> HIDE DEF new
<1>4. order'[o] = new /\ \A p \in Orders : p # o => order'[p] = order[p]
  BY <1>1, <1>2 DEF new
<1>5. QED
  BY <1>3, <1>4 DEF LinksStay

\* A step that voids nothing, and cancels no order with a sales order.
LEMMA VoidKept ==
  ASSUME Contacted, DocsInv, FaultsGrow, LinksStay, late \subseteq late',
         \A d \in DOMAIN documents : documents'[d].void = documents[d].void,
         \A o \in Orders \ late' : order[o].link["salesorder"] # 0 =>
           (order'[o].status = "cancelled" <=> order[o].status = "cancelled")
  PROVE  VoidInv'
<1> SUFFICES ASSUME NEW o \in Orders \ late', faults' = 0, order'[o].link["salesorder"] # 0
             PROVE  documents'[order'[o].link["salesorder"]].void
                      = (order'[o].status = "cancelled")
  BY DEF VoidInv, Cancelled
<1> DEFINE d == order[o].link["salesorder"]
<1>1. o \in Orders \ late /\ faults = 0 /\ "salesorder" \in Kinds
  BY FaultsTyped DEF FaultsGrow, Kinds
<1>2. order'[o].link["salesorder"] = d /\ d # 0 /\ d \in DOMAIN documents
  BY <1>1, LinkTyped DEF LinksStay
<1>3. documents[d].void = (order[o].status = "cancelled")
  BY <1>1, <1>2 DEF DocsInv, VoidInv, Cancelled
<1>4. (order'[o].status = "cancelled") = (order[o].status = "cancelled")
  BY <1>2
<1> HIDE DEF d
<1>5. documents'[d].void = documents[d].void
  BY <1>2
<1>6. QED
  BY <1>2, <1>3, <1>4, <1>5

LEMMA PlaceOrderDocs ==
  ASSUME Contacted, DocsInv, NEW w \in Workers, NEW o \in Orders, PlaceOrder(w, o)
  PROVE  DocsInv'
<1>1. /\ order' = [order EXCEPT ![o].status = "pending"] /\ order[o].status = "absent"
      /\ At(w, "idle") /\ Start(w, o, "read", SalesOrderKind)
      /\ UNCHANGED <<manual, lock, contacts, documents, faults, raced, late>>
  BY DEF PlaceOrder, zohoVars
<1>2. /\ job'[w].at = "read" /\ job'[w].kind = SalesOrderKind /\ ~job'[w].updates /\ Stays(w)
  BY <1>1, StartIs DEF Stays
<1>3. /\ order'[o].status = "pending" /\ \A p \in Orders : p # o => order'[p] = order[p]
      /\ LinksStay /\ \A p \in Orders : order'[p].edits = order[p].edits
  BY <1>1, StatusIs
<1>4. JobDocs(w)' /\ \A p \in Orders : ~Making(w, p, "commerce")'
  BY <1>1, <1>2, LightDocs DEF SalesOrderKind
<1>5. \A p \in Orders : Cancelled(p)' <=> Cancelled(p)
  BY <1>1, <1>3 DEF Cancelled
<1>6. Leaves(w)
  <2>1. LocksLast(w) /\ DocumentsLast(w) /\ OthersLast(w)
    BY <1>1, <1>2 DEF LocksLast, DocumentsLast, OthersLast, Stays, ContactsOf
  <2>2. OrdersLast(w)
    BY <1>3, <1>5 DEF OrdersLast, LinksStay
  <2>3. QED
    BY <2>1, <2>2 DEF Leaves
<1>7. ~job[w].updates
  BY <1>1, OnlyUpdatesTagged DEF At, ContactSteps
<1>8. /\ DocumentsStay /\ ShowsStay /\ FaultsGrow /\ MakingKept(w) /\ UpdateKept(w)
  BY <1>1, <1>2, <1>3, <1>7, FaultsTyped
  DEF DocumentsStay, ShowsStay, FaultsGrow, MakingKept, UpdateKept, At
<1>9. Crossing'
  BY <1>2, <1>4, <1>6, CrossingKept
<1>10. VoidInv'
  BY <1>1, <1>3, <1>8, VoidKept
<1>11. QED
  BY <1>3, <1>4, <1>6, <1>8, <1>9, <1>10, RowsKeep

LEMMA EndDocs ==
  ASSUME Contacted, NEW w \in Workers, End(w)
  PROVE  /\ JobDocs(w)' /\ Stays(w) /\ ~job'[w].updates /\ job'[w].at = "idle"
         /\ \A o \in Orders : ~Making(w, o, "commerce")'
<1>1. job'[w] = Idle /\ Stays(w)
  BY EndIs DEF Stays
<1>2. JobDocs(w)'
  BY <1>1, IdleDocs
<1>3. QED
  BY <1>1, <1>2 DEF Idle, Making, Busy

LEMMA FaultEnds ==
  ASSUME Contacted, DocsInv, NEW w \in Workers, Fault, End(w),
         UNCHANGED <<manual, order, documents, raced>>, UNCHANGED lock \/ Release(w),
         late \subseteq late', UNCHANGED contacts \/ \E x : contacts' = Append(contacts, x)
  PROVE  DocsInv'
<1>1. /\ JobDocs(w)' /\ Stays(w) /\ ~job'[w].updates
      /\ \A o \in Orders : ~Making(w, o, "commerce")'
  BY EndDocs
<1>2. Leaves(w)
  BY <1>1, QuietLeaves DEF Stays
<1>3. FaultsGrow /\ faults' # faults
  BY FaultsTyped DEF Fault, FaultsGrow
<1>4. MakingKept(w) /\ UpdateKept(w)
  BY <1>1, <1>3 DEF MakingKept, UpdateKept
<1>5. Crossing'
  BY <1>1, <1>2, CrossingKept
<1>6. QED
  BY <1>1, <1>2, <1>3, <1>4, <1>5, QuietKeeps

LEMMA DieDocs ==
  ASSUME Contacted, DocsInv, NEW w \in Workers, Die(w)
  PROVE  DocsInv'
BY FaultEnds DEF Die, Abandon, rowVars, zohoVars

LEMMA EditsAre ==
  ASSUME Contacted, NEW o \in Orders, order' = [order EXCEPT ![o].edits = @ + 1]
  PROVE  /\ \A p \in Orders : p # o => order'[p] = order[p]
         /\ LinksStay /\ \A p \in Orders : order'[p].status = order[p].status
<1>1. order \in [Orders -> OrderRow] /\ order[o] \in OrderRow
  BY DEF Contacted, OrdersFit
<1>2. order' = [order EXCEPT ![o] = [order[o] EXCEPT !.edits = @ + 1]]
  BY <1>1
<1> DEFINE new == [order[o] EXCEPT !.edits = @ + 1]
<1>3. new.status = order[o].status /\ new.link = order[o].link
  BY <1>1 DEF OrderRow
<1> HIDE DEF new
<1>4. order'[o] = new /\ \A p \in Orders : p # o => order'[p] = order[p]
  BY <1>1, <1>2 DEF new
<1>5. QED
  BY <1>3, <1>4 DEF LinksStay

LEMMA EditOrderDocs ==
  ASSUME Contacted, DocsInv, NEW w \in Workers, NEW o \in Orders, EditOrder(w, o)
  PROVE  DocsInv'
<1>1. /\ order' = [order EXCEPT ![o].edits = @ + 1] /\ Unlocked(o)
      /\ At(w, "idle") /\ Start(w, o, "find", SalesOrderKind)
      /\ UNCHANGED <<manual, lock, contacts, documents, faults, raced, late>>
  BY DEF EditOrder, zohoVars
<1>2. /\ job'[w].at = "find" /\ job'[w].kind = SalesOrderKind /\ ~job'[w].updates /\ Stays(w)
      /\ job'[w].order = o
  BY <1>1, StartIs DEF Stays
<1>3. /\ \A p \in Orders : p # o => order'[p] = order[p]
      /\ LinksStay /\ \A p \in Orders : order'[p].status = order[p].status
  BY <1>1, EditsAre
<1>4. JobDocs(w)' /\ \A p \in Orders : ~Making(w, p, "commerce")'
  BY <1>1, <1>2, LightDocs DEF SalesOrderKind
<1>5. Leaves(w)
  <2>1. LocksLast(w) /\ DocumentsLast(w) /\ OthersLast(w)
    BY <1>1, <1>2 DEF LocksLast, DocumentsLast, OthersLast, Stays, ContactsOf
  <2>2. OrdersLast(w)
    BY <1>1, <1>3 DEF OrdersLast, LinksStay, Cancelled
  <2>3. QED
    BY <2>1, <2>2 DEF Leaves
<1>6. ~job[w].updates
  BY <1>1, OnlyUpdatesTagged DEF At, ContactSteps
<1>7. DocumentsStay /\ FaultsGrow /\ MakingKept(w)
  BY <1>1, FaultsTyped DEF DocumentsStay, FaultsGrow, MakingKept, At
<1>8. Crossing'
  BY <1>2, <1>4, <1>5, CrossingKept
<1>9. VoidInv'
  BY <1>1, <1>3, <1>7, VoidKept
<1>10. LinksFit' /\ CountInv'
  BY <1>3, <1>5, <1>7, LinksKept, CountSame
<1>11. CurrentInv'
  <2> SUFFICES ASSUME NEW p \in Orders \ raced', faults' = 0, manual',
                      order'[p].status \notin {"synced", "cancelled"}
               PROVE  /\ \A v \in Workers :
                           Updating(v, p)' => job'[v].shows = order'[p].edits \/ Found(p)'
                      /\ order'[p].link["salesorder"] # 0 =>
                           \/ documents'[order'[p].link["salesorder"]].shows = order'[p].edits
                           \/ Found(p)' \/ \E v \in Workers : Updating(v, p)'
    BY DEF CurrentInv
  <2>1. CASE p = o
    BY <1>2, <2>1 DEF Found, Finding
  <2>2. CASE p # o
    <3>1. order'[p] = order[p]
      BY <1>3, <2>2
    <3>2. /\ \A v \in Workers : Updating(v, p) => job[v].shows = order[p].edits \/ Found(p)
          /\ order[p].link["salesorder"] # 0 =>
               \/ documents[order[p].link["salesorder"]].shows = order[p].edits
               \/ Found(p) \/ \E v \in Workers : Updating(v, p)
      BY <1>1, <1>3, <3>1 DEF DocsInv, CurrentInv
    <3>3. Found(p) => Found(p)'
      <4>1. \A v \in Workers : Finding(v, p) => Finding(v, p)'
        BY <1>1, <1>2 DEF Finding, Stays, At
      <4>2. QED
        BY <4>1 DEF Found
    <3>4. \A v \in Workers : /\ Updating(v, p)' <=> Updating(v, p)
                             /\ Updating(v, p) => job'[v].shows = job[v].shows
      BY <1>2, <1>6 DEF Updating, Stays
    <3>5. QED
      BY <1>1, <3>1, <3>2, <3>3, <3>4
  <2>3. QED
    BY <2>1, <2>2
<1>12. \A v \in Workers : JobDocs(v)'
  BY <1>4, <1>5, OtherDocs
<1>13. QED
  BY <1>8, <1>9, <1>10, <1>11, <1>12 DEF DocsInv

-----------------------------------------------------------------------------
(***************************************************************************)
(* Confirmation and cancellation.                                          *)
(***************************************************************************)
LEMMA SaveConfirmedDocs ==
  ASSUME Contacted, DocsInv, NEW w \in Workers, SaveConfirmed(w)
  PROVE  DocsInv'
<1> DEFINE o == job[w].order
<1>1. /\ order' = [order EXCEPT ![o].status = "synced"] /\ Unlocked(o) /\ At(w, "confirm")
      /\ late' = IF Cancelled(o) THEN late \cup {o} ELSE late
      /\ End(w) \/ Goto(w, "read")
      /\ UNCHANGED <<manual, lock, contacts, documents, faults, raced>>
  BY DEF SaveConfirmed, zohoVars
<1>2. o \in Orders
  BY JobTyped
<1>3. ~job[w].updates
  BY <1>1, OnlyUpdatesTagged DEF At, ContactSteps
<1>4. /\ JobDocs(w)' /\ Stays(w) /\ ~job'[w].updates
      /\ \A p \in Orders : ~Making(w, p, "commerce")'
  <2>1. CASE End(w)
    BY <2>1, EndDocs
  <2>2. CASE Goto(w, "read")
    <3>1. job'[w].at = "read" /\ SameJob(w) /\ Stays(w)
      BY <2>2, GotoIs DEF Stays
    <3>2. job[w].kind = "salesorder" => manual
      BY <1>1 DEF DocsInv, JobDocs, JobPath, At
    <3>3. ~job'[w].updates /\ (job'[w].kind = "salesorder" => manual)
      BY <1>3, <3>1, <3>2 DEF SameJob
    <3>4. QED
      BY <1>1, <3>1, <3>3, LightDocs
  <2>3. QED
    BY <1>1, <2>1, <2>2
<1> HIDE DEF o
<1>5. /\ order'[o].status = "synced" /\ \A p \in Orders : p # o => order'[p] = order[p]
      /\ LinksStay /\ \A p \in Orders : order'[p].edits = order[p].edits
  BY <1>1, <1>2, StatusIs
<1>6. Leaves(w)
  <2>1. LocksLast(w) /\ DocumentsLast(w) /\ OthersLast(w)
    BY <1>1, <1>4 DEF LocksLast, DocumentsLast, OthersLast, Stays, ContactsOf
  <2>2. OrdersLast(w)
    BY <1>5 DEF OrdersLast, LinksStay, Cancelled
  <2>3. QED
    BY <2>1, <2>2 DEF Leaves
<1>7. /\ DocumentsStay /\ ShowsStay /\ FaultsGrow /\ MakingKept(w) /\ UpdateKept(w)
  BY <1>1, <1>3, <1>4, <1>5, FaultsTyped
  DEF DocumentsStay, ShowsStay, FaultsGrow, MakingKept, UpdateKept, At
<1>8. Crossing'
  BY <1>4, <1>6, CrossingKept
<1>9. VoidInv'
  BY <1>1, <1>5, <1>7, VoidKept DEF Cancelled
<1>10. QED
  BY <1>4, <1>5, <1>6, <1>7, <1>8, <1>9, RowsKeep

LEMMA LockToCancelDocs ==
  ASSUME Contacted, DocsInv, NEW w \in Workers, LockToCancel(w)
  PROVE  DocsInv'
<1> DEFINE o == job[w].order
<1>1. /\ Unlocked(o) /\ At(w, "cancel")
      /\ UNCHANGED <<manual, contacts, documents, faults, raced, late>>
  BY DEF LockToCancel, zohoVars
<1>2. o \in Orders /\ ~job[w].updates
  BY <1>1, OnlyUpdatesTagged, JobTyped DEF At, ContactSteps
<1>n. job[w].at \notin ContactSteps \cup {"put", "find", "save"}
  BY <1>1 DEF At, ContactSteps
<1>3. CASE End(w) /\ UNCHANGED <<order, lock>>
  <2>1. /\ JobDocs(w)' /\ Stays(w) /\ ~job'[w].updates
        /\ \A p \in Orders : ~Making(w, p, "commerce")'
    BY <1>3, EndDocs
  <2>2. QED
    BY <1>1, <1>3, <1>n, <2>1, LightKeeps
<1>4. CASE /\ order[o].link["salesorder"] = 0 /\ End(w) /\ UNCHANGED lock
           /\ order' = [order EXCEPT ![o].status = "cancelled"]
  <2>1. /\ JobDocs(w)' /\ Stays(w) /\ ~job'[w].updates
        /\ \A p \in Orders : ~Making(w, p, "commerce")'
    BY <1>4, EndDocs
  <2> HIDE DEF o
  <2>2. /\ order'[o].status = "cancelled" /\ \A p \in Orders : p # o => order'[p] = order[p]
        /\ LinksStay /\ \A p \in Orders : order'[p].edits = order[p].edits
    BY <1>2, <1>4, StatusIs
  <2>3. Leaves(w)
    <3>1. LocksLast(w) /\ DocumentsLast(w) /\ OthersLast(w)
      BY <1>1, <1>4, <2>1 DEF LocksLast, DocumentsLast, OthersLast, Stays, ContactsOf
    <3>2. OrdersLast(w)
      BY <1>1, <2>2 DEF OrdersLast, LinksStay, Cancelled, Unlocked
    <3>3. QED
      BY <3>1, <3>2 DEF Leaves
  <2>4. /\ DocumentsStay /\ ShowsStay /\ FaultsGrow /\ MakingKept(w) /\ UpdateKept(w)
    BY <1>1, <1>2, <2>1, <2>2, FaultsTyped
    DEF DocumentsStay, ShowsStay, FaultsGrow, MakingKept, UpdateKept, At
  <2>5. Crossing'
    BY <2>1, <2>3, CrossingKept
  <2>6. VoidInv'
    BY <1>1, <1>4, <2>2, <2>4, VoidKept
  <2>7. QED
    BY <2>1, <2>2, <2>3, <2>4, <2>5, <2>6, RowsKeep
<1>5. CASE lock' = [lock EXCEPT ![o] = w] /\ Goto(w, "void") /\ UNCHANGED order
  <2>1. job'[w].at = "void" /\ SameJob(w) /\ Stays(w)
    BY <1>5, GotoIs DEF Stays
  <2>2. Holds(w)'
    <3>1. lock'[o] = w
      BY <1>2, <1>5 DEF Contacted, RowsTyped
    <3>2. QED
      BY <2>1, <3>1 DEF Holds, SameJob
  <2>3. ~job'[w].updates
    BY <1>2, <2>1 DEF SameJob
  <2>4. JobDocs(w)' /\ \A p \in Orders : ~Making(w, p, "commerce")'
    BY <2>1, <2>2, <2>3 DEF JobDocs, JobPath, JobLocks, JobMade, MakeSteps, ContactSteps,
       Making, Busy
  <2>5. \E p \in Orders : Unlocked(p) /\ lock' = [lock EXCEPT ![p] = w]
    BY <1>1, <1>2, <1>5
  <2>6. QED
    BY <1>1, <1>5, <1>n, <2>1, <2>3, <2>4, <2>5, LightKeeps
<1>6. QED
  BY <1>3, <1>4, <1>5 DEF LockToCancel

LEMMA VoidedIs ==
  ASSUME Contacted, NEW d, documents' = [documents EXCEPT ![d].void = TRUE]
  PROVE  /\ DocumentsStay
         /\ \A c \in DOMAIN documents : /\ documents'[c].shows = documents[c].shows
                                        /\ c # d => documents'[c] = documents[c]
                                        /\ c = d => documents'[c].void = TRUE
<1>1. documents \in Seq(Document)
  BY DEF Contacted, DocumentsFit
<1>2. DOMAIN documents' = DOMAIN documents
  BY <1>1
<1>3. \A c \in DOMAIN documents : c # d => documents'[c] = documents[c]
  BY <1>1
<1>4. ASSUME d \in DOMAIN documents
      PROVE  /\ documents'[d].shows = documents[d].shows /\ documents'[d].void = TRUE
             /\ documents'[d].order = documents[d].order /\ documents'[d].kind = documents[d].kind
  <2>1. documents[d] \in Document
    BY <1>1, <1>4
  <2>2. documents'[d] = [documents[d] EXCEPT !.void = TRUE]
    BY <1>1, <1>4
  <2>3. QED
    BY <2>1, <2>2 DEF Document
<1>5. QED
  BY <1>2, <1>3, <1>4 DEF DocumentsStay

LEMMA VoidSalesOrderDocs ==
  ASSUME Contacted, DocsInv, NEW w \in Workers, VoidSalesOrder(w)
  PROVE  DocsInv'
<1> DEFINE o == job[w].order
           d == order[o].link["salesorder"]
           Voided == documents' = [documents EXCEPT ![d].void = TRUE]
           Cancels == order' = [order EXCEPT ![o].status = "cancelled"]
<1>1. /\ At(w, "void") /\ End(w) /\ Release(w) /\ UNCHANGED <<manual, contacts, raced, late>>
      /\ \/ Voided /\ NoFault /\ Cancels
         \/ Fault /\ UNCHANGED <<order, documents>>
         \/ Fault /\ Voided /\ UNCHANGED order
  BY DEF VoidSalesOrder, Abandon
<1> HIDE DEF Voided, Cancels
<1>2. o \in Orders /\ ~job[w].updates
  BY <1>1, OnlyUpdatesTagged, JobTyped DEF At, ContactSteps
<1>3. lock[o] = w
  BY <1>1 DEF DocsInv, JobDocs, JobLocks, Holds, At
<1>4. /\ JobDocs(w)' /\ Stays(w) /\ ~job'[w].updates
      /\ \A p \in Orders : ~Making(w, p, "commerce")'
  BY <1>1, EndDocs
<1>5. CASE Fault /\ UNCHANGED <<order, documents>>
  BY <1>1, <1>5, FaultEnds
<1>6. CASE Voided /\ ((NoFault /\ Cancels) \/ (Fault /\ UNCHANGED order))
  <2>1. /\ DocumentsStay
        /\ \A c \in DOMAIN documents : /\ documents'[c].shows = documents[c].shows
                                       /\ c # d => documents'[c] = documents[c]
                                       /\ c = d => documents'[c].void = TRUE
    <3> HIDE DEF d
    <3>1. QED
      BY <1>6, VoidedIs DEF Voided
  <2>2. Cancels => /\ order'[o].status = "cancelled" /\ LinksStay
                   /\ \A p \in Orders : p # o => order'[p] = order[p]
                   /\ \A p \in Orders : order'[p].edits = order[p].edits
    <3> HIDE DEF o
    <3>1. QED
      BY <1>2, StatusIs DEF Cancels
  <2>3. /\ LinksStay /\ \A p \in Orders : p # o => order'[p] = order[p]
        /\ \A p \in Orders : order'[p].edits = order[p].edits
        /\ order'[o].status = order[o].status \/ order'[o].status = "cancelled"
    BY <1>6, <2>2 DEF LinksStay
  <2>4. Leaves(w)
    <3>1. LocksLast(w)
      BY <1>1, LocksMove DEF LocksLast
    <3>2. OthersLast(w)
      BY <1>1, <1>4 DEF OthersLast, Stays, ContactsOf
    <3>3. DocumentsLast(w)
      BY <1>1, <2>1 DEF DocumentsLast, DocumentsStay
    <3>4. OrdersLast(w)
      BY <1>3, <2>3 DEF OrdersLast, LinksStay, Cancelled
    <3>5. QED
      BY <3>1, <3>2, <3>3, <3>4 DEF Leaves
  <2>5. FaultsGrow
    BY <1>6, FaultsTyped DEF FaultsGrow, Fault, NoFault
  <2>6. ShowsStay
    BY <2>1, <2>3 DEF ShowsStay
  <2>7. MakingKept(w) /\ UpdateKept(w)
    BY <1>1, <1>2, <1>4 DEF MakingKept, UpdateKept, At
  <2>8. Crossing'
    BY <1>4, <2>4, CrossingKept
  <2>9. VoidInv'
    <3>1. CASE Fault
      BY <3>1, FaultsTyped DEF Fault, VoidInv
    <3>2. CASE Cancels /\ NoFault
      <4> SUFFICES ASSUME NEW p \in Orders \ late', faults' = 0,
                          order'[p].link["salesorder"] # 0
                   PROVE  documents'[order'[p].link["salesorder"]].void
                            = (order'[p].status = "cancelled")
        BY DEF VoidInv, Cancelled
      <4> DEFINE c == order[p].link["salesorder"]
      <4>1. /\ order'[p].link["salesorder"] = c /\ c # 0 /\ c \in DOMAIN documents
            /\ documents[c].order = p /\ p \in Orders \ late /\ faults = 0
        BY <1>1, <2>3, <3>2, LinkTyped DEF LinksStay, Kinds, DocsInv, LinksFit, NoFault
      <4>2. CASE p = o
        <5>1. c = d /\ order'[p].status = "cancelled"
          BY <2>2, <3>2, <4>2
        <5> HIDE DEF c, d
        <5>2. QED
          BY <2>1, <4>1, <5>1
      <4>3. CASE p # o
        <5>1. documents[c].void = (order[p].status = "cancelled")
          BY <4>1 DEF DocsInv, VoidInv, Cancelled
        <5>2. c # d
          <6>1. d # 0 => documents[d].order = o
            BY <1>2 DEF DocsInv, LinksFit, Kinds
          <6> HIDE DEF c, d
          <6>2. QED
            BY <4>1, <4>3, <6>1
        <5>3. order'[p] = order[p]
          BY <2>3, <4>3
        <5> HIDE DEF c, d
        <5>4. QED
          BY <2>1, <4>1, <5>1, <5>2, <5>3
      <4>4. QED
        BY <4>2, <4>3
    <3>3. QED
      BY <1>6, <3>1, <3>2
  <2>10. QED
    BY <1>4, <2>1, <2>3, <2>4, <2>5, <2>6, <2>7, <2>8, <2>9, RowsKeep
<1>7. \/ Fault /\ UNCHANGED <<order, documents>>
      \/ Voided /\ ((NoFault /\ Cancels) \/ (Fault /\ UNCHANGED order))
  BY <1>1
<1>8. QED
  BY <1>5, <1>6, <1>7

-----------------------------------------------------------------------------
(***************************************************************************)
(* The order is read, and locked.                                          *)
(***************************************************************************)
LEMMA UpdatingIs ==
  ASSUME Contacted, NEW w \in Workers, NEW at, NEW shows, NEW read,
         job' = [job EXCEPT ![w].at = at, ![w].updates = TRUE, ![w].shows = shows,
                            ![w].read = read]
  PROVE  /\ job'[w].at = at /\ job'[w].updates /\ job'[w].shows = shows /\ Stays(w)
         /\ job'[w].order = job[w].order /\ job'[w].kind = job[w].kind
<1> DEFINE new == [job[w] EXCEPT !.at = at, !.updates = TRUE, !.shows = shows, !.read = read]
<1>1. job[w] \in JobState /\ job \in [Workers -> JobState]
  BY JobTyped
<1>2. /\ new.at = at /\ new.updates /\ new.shows = shows
      /\ new.order = job[w].order /\ new.kind = job[w].kind
  BY <1>1 DEF JobState
<1>3. job' = [job EXCEPT ![w] = new]
  BY <1>1
<1> HIDE DEF new
<1>4. QED
  BY <1>2, <1>3, OneMoves DEF Stays

LEMMA FindSalesOrderDocs ==
  ASSUME Contacted, DocsInv, NEW w \in Workers, FindSalesOrder(w)
  PROVE  DocsInv'
<1> DEFINE o == job[w].order
           kind == job[w].kind
           Others == \E v \in Workers \ {w} : job[v].order = o /\ job[v].updates
           at == IF manual THEN "stored" ELSE "put"
<1>1. At(w, "find") /\ UNCHANGED <<manual, lock, order, late, contacts, documents, faults>>
  BY DEF FindSalesOrder, rowVars, zohoVars
<1>2. o \in Orders /\ ~job[w].updates /\ kind = SalesOrderKind /\ kind \in Kinds
  BY <1>1, OnlyUpdatesTagged, JobTyped DEF At, ContactSteps, DocsInv, JobDocs, JobPath
<1>3. \/ order[o].link[kind] = 0 /\ Goto(w, "read") /\ UNCHANGED raced
      \/ manual /\ Cancelled(o) /\ End(w) /\ UNCHANGED raced
      \/ /\ order[o].link[kind] # 0
         /\ job' = [job EXCEPT ![w].at = at, ![w].updates = TRUE, ![w].shows = order[o].edits,
                               ![w].read = contactOf[Customer[o]]]
         /\ raced' = IF Others THEN raced \cup {o} ELSE raced
  BY DEF FindSalesOrder
<1>u. ASSUME job' = [job EXCEPT ![w].at = at, ![w].updates = TRUE, ![w].shows = order[o].edits,
                                ![w].read = contactOf[Customer[o]]]
      PROVE  /\ job'[w].at = at /\ job'[w].updates /\ job'[w].shows = order[o].edits
             /\ Stays(w) /\ job'[w].order = o /\ job'[w].kind = kind
  <2> DEFINE s == order[o].edits
             r == contactOf[Customer[o]]
  <2>1. job' = [job EXCEPT ![w].at = at, ![w].updates = TRUE, ![w].shows = s, ![w].read = r]
    BY <1>u
  <2> HIDE DEF at, s, r
  <2>2. PICK a, sh, re : a = at /\ sh = s /\ re = r
    OBVIOUS
  <2>3. job' = [job EXCEPT ![w].at = a, ![w].updates = TRUE, ![w].shows = sh, ![w].read = re]
    BY <2>1, <2>2
  <2>4. /\ job'[w].at = a /\ job'[w].updates /\ job'[w].shows = sh /\ Stays(w)
        /\ job'[w].order = job[w].order /\ job'[w].kind = job[w].kind
    <3> HIDE DEF o, kind
    <3>1. QED
      BY <2>3, UpdatingIs
  <2>5. QED
    BY <2>2, <2>4 DEF s
<1>4. /\ Stays(w) /\ JobDocs(w)' /\ raced \subseteq raced' /\ Crossing'
      /\ job'[w].updates => job'[w].order = o
  <2>1. CASE order[o].link[kind] = 0 /\ Goto(w, "read") /\ UNCHANGED raced
    <3>1. job'[w].at = "read" /\ SameJob(w) /\ Stays(w)
      BY <2>1, GotoIs DEF Stays
    <3>2. job[w].kind = "salesorder" => manual
      BY <1>1 DEF DocsInv, JobDocs, JobPath, At
    <3>3. ~job'[w].updates /\ (job'[w].kind = "salesorder" => manual)
      BY <1>2, <3>1, <3>2 DEF SameJob
    <3>4. JobDocs(w)' /\ \A p \in Orders : ~Making(w, p, "commerce")'
      BY <1>1, <3>1, <3>3, LightDocs
    <3>5. Crossing'
      <4>1. Leaves(w)
        BY <1>1, <2>1, <3>1, QuietLeaves DEF Stays
      <4>2. QED
        BY <3>3, <3>4, <4>1, CrossingKept
    <3>6. QED
      BY <2>1, <3>1, <3>3, <3>4, <3>5
  <2>2. CASE End(w) /\ UNCHANGED raced
    <3>1. /\ JobDocs(w)' /\ Stays(w) /\ ~job'[w].updates
          /\ \A p \in Orders : ~Making(w, p, "commerce")'
      BY <2>2, EndDocs
    <3>2. Leaves(w)
      BY <1>1, <2>2, <3>1, QuietLeaves DEF Stays
    <3>3. QED
      BY <2>2, <3>1, <3>2, CrossingKept
  <2>3. CASE /\ order[o].link[kind] # 0
             /\ job' = [job EXCEPT ![w].at = at, ![w].updates = TRUE,
                                   ![w].shows = order[o].edits,
                                   ![w].read = contactOf[Customer[o]]]
             /\ raced' = IF Others THEN raced \cup {o} ELSE raced
    <3>1. /\ job'[w].at = at /\ job'[w].updates /\ job'[w].shows = order[o].edits /\ Stays(w)
          /\ job'[w].order = o /\ job'[w].kind = kind
      BY <1>u, <2>3
    <3>2. JobDocs(w)'
      <4>1. SalesOrderKind' = SalesOrderKind
        BY <1>1 DEF SalesOrderKind
      <4>2. Linked(w)'
        BY <1>1, <2>3, <3>1 DEF Linked
      <4>3. JobPath(w)'
        BY <1>1, <1>2, <3>1, <4>1, <4>2 DEF JobPath, ContactSteps, SalesOrderKind
      <4>4. JobLocks(w)' /\ JobMade(w)'
        BY <3>1 DEF JobLocks, JobMade
      <4>5. QED
        BY <4>3, <4>4 DEF JobDocs
    <3>3. Crossing'
      <4>1. ~(\E p \in Orders : Making(w, p, "commerce")')
        BY <3>1 DEF Making, Busy
      <4>2. \A v \in Workers \ {w} : job'[v] = job[v]
        BY <3>1 DEF Stays
      <4>3. raced \subseteq raced' /\ (Others => o \in raced')
        BY <2>3
      <4>4. ASSUME NEW v \in Workers, NEW x \in Workers, v # x, job'[v].order = job'[x].order,
                   job'[v].updates, job'[x].updates
            PROVE  job'[v].order \in raced'
        <5>1. CASE v # w /\ x # w
          BY <4>2, <4>3, <4>4, <5>1 DEF DocsInv, Crossing
        <5>2. CASE v = w \/ x = w
          BY <3>1, <4>2, <4>3, <4>4, <5>2
        <5>3. QED
          BY <5>1, <5>2
      <4>5. ASSUME NEW v \in Workers, NEW x \in Workers, v # x, NEW p \in Orders,
                   job'[v].order = job'[x].order,
                   Making(v, p, "commerce")', Making(x, p, "commerce")'
            PROVE  p \in raced'
        <5>1. v # w /\ x # w
          BY <4>1, <4>5
        <5>2. Making(v, p, "commerce") /\ Making(x, p, "commerce")
          BY <4>2, <4>5, <5>1 DEF Making, Busy
        <5>3. job[v].order = job[x].order
          BY <5>2 DEF Making, Busy
        <5>4. QED
          BY <4>3, <4>5, <5>2, <5>3 DEF DocsInv, Crossing
      <4>6. QED
        BY <4>4, <4>5 DEF Crossing
    <3>4. QED
      BY <2>3, <3>1, <3>2, <3>3
  <2>4. QED
    BY <1>3, <2>1, <2>2, <2>3
<1>5. Leaves(w)
  BY <1>1, <1>4, QuietLeaves DEF Stays
<1>6. \A v \in Workers : JobDocs(v)'
  BY <1>4, <1>5, OtherDocs
<1>7. FaultsGrow /\ MakingKept(w)
  BY <1>1, FaultsTyped DEF FaultsGrow, MakingKept, At
<1>8. LinksFit' /\ CountInv' /\ VoidInv'
  BY <1>1, <1>5, <1>7, QuietStay, LinksKept, CountSame, QuietVoid
<1>9. CurrentInv'
  <2> SUFFICES ASSUME NEW p \in Orders \ raced', faults' = 0, manual',
                      order'[p].status \notin {"synced", "cancelled"}
               PROVE  /\ \A v \in Workers :
                           Updating(v, p)' => job'[v].shows = order[p].edits \/ Found(p)'
                      /\ order[p].link["salesorder"] # 0 =>
                           \/ documents[order[p].link["salesorder"]].shows = order[p].edits
                           \/ Found(p)' \/ \E v \in Workers : Updating(v, p)'
    BY <1>1 DEF CurrentInv
  <2>1. /\ manual /\ faults = 0 /\ p \in Orders \ raced /\ kind = "salesorder"
        /\ order[p].status \notin {"synced", "cancelled"}
    BY <1>1, <1>2, <1>4 DEF SalesOrderKind
  <2>2. /\ \A v \in Workers : Updating(v, p) => job[v].shows = order[p].edits \/ Found(p)
        /\ order[p].link["salesorder"] # 0 =>
             \/ documents[order[p].link["salesorder"]].shows = order[p].edits
             \/ Found(p) \/ \E v \in Workers : Updating(v, p)
    BY <2>1 DEF DocsInv, CurrentInv
  <2>3. CASE p # o
    <3>1. job'[w].order = p => ~job'[w].updates
      BY <1>4, <2>3
    <3>2. Found(p) => Found(p)'
      <4>1. \A v \in Workers : Finding(v, p) => Finding(v, p)'
        BY <1>4, <2>3 DEF Finding, Stays
      <4>2. QED
        BY <4>1 DEF Found
    <3>3. \A v \in Workers : /\ Updating(v, p)' <=> Updating(v, p)
                             /\ Updating(v, p) => job'[v].shows = job[v].shows
      BY <1>2, <1>4, <2>3, <3>1 DEF Updating, Stays
    <3>4. QED
      BY <2>2, <3>2, <3>3
  <2>4. CASE p = o
    <3>1. CASE order[o].link[kind] = 0 /\ Goto(w, "read")
      <4>1. ~job'[w].updates
        BY <1>2, <3>1, GotoIs DEF SameJob
      <4>2. ASSUME NEW v \in Workers, Updating(v, p)'
            PROVE  FALSE
        <5>1. v # w /\ job'[v] = job[v]
          BY <1>4, <4>1, <4>2 DEF Updating, Stays
        <5>2. Updating(v, p)
          BY <4>2, <5>1 DEF Updating
        <5>3. Linked(v) /\ job[v].kind = "salesorder" /\ job[v].order = p
          BY <2>1, <5>2 DEF DocsInv, JobDocs, JobPath, Updating, SalesOrderKind
        <5>4. QED
          BY <2>1, <2>4, <3>1, <5>3 DEF Linked
      <4>3. QED
        BY <2>1, <2>4, <3>1, <4>2
    <3>2. CASE Cancelled(o)
      BY <2>1, <2>4, <3>2 DEF Cancelled
    <3>3. CASE /\ job' = [job EXCEPT ![w].at = at, ![w].updates = TRUE,
                                     ![w].shows = order[o].edits,
                                     ![w].read = contactOf[Customer[o]]]
               /\ raced' = IF Others THEN raced \cup {o} ELSE raced
      <4>1. job'[w].shows = order[p].edits /\ job'[w].order = p /\ job'[w].updates
        BY <1>u, <2>4, <3>3
      <4>2. ~Others
        BY <2>4, <3>3
      <4>3. \A v \in Workers : Updating(v, p)' => v = w
        BY <1>4, <2>4, <4>2 DEF Updating, Stays
      <4>4. Updating(w, p)'
        BY <4>1 DEF Updating
      <4>5. QED
        BY <4>1, <4>3, <4>4
    <3>4. QED
      BY <1>3, <3>1, <3>2, <3>3
  <2>5. QED
    BY <2>3, <2>4
<1>10. QED
  BY <1>4, <1>6, <1>8, <1>9 DEF DocsInv

LEMMA PostingIs ==
  ASSUME Contacted, NEW w \in Workers, NEW at, NEW shows,
         job' = [job EXCEPT ![w].at = at, ![w].shows = shows]
  PROVE  /\ job'[w].at = at /\ job'[w].shows = shows /\ Stays(w)
         /\ job'[w].order = job[w].order /\ job'[w].kind = job[w].kind
         /\ job'[w].updates = job[w].updates
<1> DEFINE new == [job[w] EXCEPT !.at = at, !.shows = shows]
<1>1. job[w] \in JobState /\ job \in [Workers -> JobState]
  BY JobTyped
<1>2. /\ new.at = at /\ new.shows = shows /\ new.updates = job[w].updates
      /\ new.order = job[w].order /\ new.kind = job[w].kind
  BY <1>1 DEF JobState
<1>3. job' = [job EXCEPT ![w] = new]
  BY <1>1
<1> HIDE DEF new
<1>4. QED
  BY <1>2, <1>3, OneMoves DEF Stays

\* A thread begins to create a sales order of Commerce.
LEMMA CreatingDocs ==
  ASSUME Contacted, DocsInv, NEW w \in Workers, NEW o \in Orders,
         UNCHANGED <<manual, order, lock, late, contacts, documents, faults>>,
         At(w, "read"), job[w].order = o, job[w].kind = "commerce",
         order[o].link["commerce"] = 0, NEW shows,
         job' = [job EXCEPT ![w].at = "post", ![w].shows = shows],
         raced' = IF \E v \in Workers \ {w} : Making(v, o, "commerce")
                  THEN raced \cup {o} ELSE raced
  PROVE  DocsInv'
<1>1. /\ job'[w].at = "post" /\ Stays(w) /\ job'[w].order = o /\ job'[w].kind = "commerce"
      /\ job'[w].updates = job[w].updates
  BY PostingIs
<1>2. ~job[w].updates
  BY OnlyUpdatesTagged DEF At, ContactSteps
<1>3. JobDocs(w)'
  <2>1. JobPath(w)' /\ JobMade(w)'
    BY <1>1, <1>2 DEF JobPath, JobMade, ContactSteps
  <2>2. ~Linked(w)'
    BY <1>1 DEF Linked
  <2>3. JobLocks(w)'
    BY <1>1, <2>2 DEF JobLocks, InBooks
  <2>4. QED
    BY <2>1, <2>3 DEF JobDocs
<1>4. raced \subseteq raced'
  OBVIOUS
<1>5. Leaves(w)
  BY <1>1, <1>4, QuietLeaves DEF Stays
<1>6. FaultsGrow /\ MakingKept(w) /\ UpdateKept(w)
  BY <1>1, <1>2, FaultsTyped DEF FaultsGrow, MakingKept, UpdateKept, At
<1>7. Crossing'
  <2>1. ASSUME NEW v \in Workers, NEW x \in Workers, v # x, job'[v].order = job'[x].order,
               job'[v].updates, job'[x].updates
        PROVE  job'[v].order \in raced'
    <3>1. v # w /\ x # w /\ job'[v] = job[v] /\ job'[x] = job[x]
      BY <1>1, <1>2, <2>1 DEF Stays
    <3>2. QED
      BY <1>4, <2>1, <3>1 DEF DocsInv, Crossing
  <2>2. ASSUME NEW v \in Workers, NEW x \in Workers, v # x, NEW p \in Orders,
               Making(v, p, "commerce")', Making(x, p, "commerce")'
        PROVE  p \in raced'
    <3>1. CASE v # w /\ x # w
      <4>1. Making(v, p, "commerce") /\ Making(x, p, "commerce")
        BY <1>1, <2>2, <3>1 DEF Making, Busy, Stays
      <4>2. job[v].order = job[x].order
        BY <4>1 DEF Making, Busy
      <4>3. QED
        BY <1>4, <2>2, <4>1, <4>2 DEF DocsInv, Crossing
    <3>2. ASSUME NEW y \in Workers, y # w, Making(y, p, "commerce")', Making(w, p, "commerce")'
          PROVE  p \in raced'
      <4>1. p = o
        BY <1>1, <3>2 DEF Making, Busy
      <4>2. Making(y, o, "commerce")
        BY <1>1, <3>2, <4>1 DEF Making, Busy, Stays
      <4>3. QED
        BY <3>2, <4>1, <4>2
    <3>3. CASE v = w
      BY <2>2, <3>2, <3>3
    <3>4. CASE x = w
      BY <2>2, <3>2, <3>4
    <3>5. QED
      BY <3>1, <3>3, <3>4
  <2>3. QED
    BY <2>1, <2>2 DEF Crossing
<1>8. QED
  BY <1>3, <1>5, <1>6, <1>7, QuietKeeps

LEMMA ReadOrderDocs ==
  ASSUME Contacted, DocsInv, NEW w \in Workers, ReadOrder(w)
  PROVE  DocsInv'
<1> DEFINE o == job[w].order
           kind == job[w].kind
<1>1. At(w, "read") /\ UNCHANGED <<manual, lock, order, late, contacts, documents, faults>>
  BY DEF ReadOrder, rowVars, zohoVars
<1>2. o \in Orders /\ ~job[w].updates /\ kind \in Kinds
  BY <1>1, OnlyUpdatesTagged, JobTyped DEF At, ContactSteps
<1>n. job[w].at \notin ContactSteps \cup {"put", "find", "save"}
  BY <1>1 DEF At, ContactSteps
<1>3. CASE End(w) /\ UNCHANGED raced
  <2>1. /\ JobDocs(w)' /\ Stays(w) /\ ~job'[w].updates
        /\ \A p \in Orders : ~Making(w, p, "commerce")'
    BY <1>3, EndDocs
  <2>2. QED
    BY <1>1, <1>3, <1>n, <2>1, LightKeeps
<1>4. CASE kind \in InBooks /\ Goto(w, "lock") /\ UNCHANGED raced
  <2>1. job'[w].at = "lock" /\ SameJob(w) /\ Stays(w)
    BY <1>4, GotoIs DEF Stays
  <2>2. job[w].kind = "salesorder" => manual
    BY <1>1 DEF DocsInv, JobDocs, JobPath, At
  <2>3. /\ ~job'[w].updates /\ (job'[w].kind = "salesorder" => manual)
        /\ job'[w].kind \in InBooks
    BY <1>2, <1>4, <2>1, <2>2 DEF SameJob
  <2>4. JobDocs(w)' /\ \A p \in Orders : ~Making(w, p, "commerce")'
    BY <1>1, <2>1, <2>3, LightDocs
  <2>5. QED
    BY <1>1, <1>4, <1>n, <2>1, <2>3, <2>4, LightKeeps
<1>5. CASE /\ kind \notin InBooks /\ order[o].link[kind] = 0
           /\ job' = [job EXCEPT ![w].at = "post", ![w].shows = order[o].edits]
           /\ raced' = IF \E v \in Workers \ {w} : Making(v, o, kind)
                       THEN raced \cup {o} ELSE raced
  <2>1. kind = "commerce"
    BY <1>2, <1>5 DEF Kinds, InBooks
  <2>2. PICK p \in Orders, s \in {order[o].edits} : p = o
    BY <1>2
  <2>3. /\ job[w].order = p /\ job[w].kind = "commerce" /\ order[p].link["commerce"] = 0
        /\ job' = [job EXCEPT ![w].at = "post", ![w].shows = s]
        /\ raced' = IF \E v \in Workers \ {w} : Making(v, p, "commerce")
                    THEN raced \cup {p} ELSE raced
    BY <1>5, <2>1, <2>2
  <2>4. QED
    BY <1>1, <2>3, CreatingDocs
<1>6. QED
  BY <1>3, <1>4, <1>5 DEF ReadOrder, Making

LEMMA LockedIs ==
  ASSUME Contacted, NEW w \in Workers, NEW at, NEW shows, NEW read,
         job' = [job EXCEPT ![w].at = at, ![w].shows = shows, ![w].read = read]
  PROVE  /\ job'[w].at = at /\ job'[w].shows = shows /\ Stays(w)
         /\ job'[w].order = job[w].order /\ job'[w].kind = job[w].kind
         /\ job'[w].updates = job[w].updates
<1> DEFINE new == [job[w] EXCEPT !.at = at, !.shows = shows, !.read = read]
<1>1. job[w] \in JobState /\ job \in [Workers -> JobState]
  BY JobTyped
<1>2. /\ new.at = at /\ new.shows = shows /\ new.updates = job[w].updates
      /\ new.order = job[w].order /\ new.kind = job[w].kind
  BY <1>1 DEF JobState
<1>3. job' = [job EXCEPT ![w] = new]
  BY <1>1
<1> HIDE DEF new
<1>4. QED
  BY <1>2, <1>3, OneMoves DEF Stays

LEMMA LockOrderDocs ==
  ASSUME Contacted, DocsInv, NEW w \in Workers, LockOrder(w)
  PROVE  DocsInv'
<1> DEFINE o == job[w].order
           kind == job[w].kind
           at == IF NeedsContact(kind, o) THEN "stored" ELSE "post"
           r == contactOf[Customer[o]]
<1>1. /\ At(w, "lock") /\ Unlocked(o)
      /\ UNCHANGED <<manual, order, contacts, documents, faults, raced>>
  BY DEF LockOrder, zohoVars
<1>2. /\ o \in Orders /\ ~job[w].updates /\ kind \in InBooks
      /\ (kind = "salesorder" => manual)
  BY <1>1, OnlyUpdatesTagged, JobTyped DEF At, ContactSteps, DocsInv, JobDocs, JobPath
<1>n. job[w].at \notin ContactSteps \cup {"put", "find", "save"}
  BY <1>1 DEF At, ContactSteps
<1>3. CASE End(w) /\ UNCHANGED <<lock, late>>
  <2>1. /\ JobDocs(w)' /\ Stays(w) /\ ~job'[w].updates
        /\ \A p \in Orders : ~Making(w, p, "commerce")'
    BY <1>3, EndDocs
  <2>2. QED
    BY <1>1, <1>3, <1>n, <2>1, LightKeeps
<1>4. CASE /\ order[o].link[kind] = 0 /\ lock' = [lock EXCEPT ![o] = w]
           /\ job' = [job EXCEPT ![w].at = at, ![w].shows = order[o].edits, ![w].read = r]
           /\ late' = IF Cancelled(o) THEN late \cup {o} ELSE late
  <2>1. PICK a, s, re : a = at /\ s = order[o].edits /\ re = r
    OBVIOUS
  <2>2. job' = [job EXCEPT ![w].at = a, ![w].shows = s, ![w].read = re]
    <3> HIDE DEF at, r, o
    <3>1. QED
      BY <1>4, <2>1
  <2>3. /\ job'[w].at = a /\ job'[w].shows = s /\ Stays(w)
        /\ job'[w].order = job[w].order /\ job'[w].kind = job[w].kind
        /\ job'[w].updates = job[w].updates
    <3> HIDE DEF at, r, o, kind
    <3>1. QED
      BY <2>2, LockedIs
  <2>4. a \in {"stored", "post"}
    BY <2>1
  <2> HIDE DEF at
  <2>5. lock'[o] = w
    BY <1>2, <1>4 DEF Contacted, RowsTyped
  <2>6. JobPath(w)'
    BY <1>1, <1>2, <2>3, <2>4 DEF JobPath, ContactSteps
  <2>7. JobLocks(w)'
    <3>1. Holds(w)' /\ ~Linked(w)' /\ job'[w].shows = order'[job'[w].order].edits
      BY <1>1, <1>4, <2>1, <2>3, <2>5 DEF Holds, Linked
    <3>2. Cancelled(o) => o \in late'
      BY <1>4
    <3>3. order'[job'[w].order].status = "cancelled" => job'[w].order \in late'
      BY <1>1, <2>3, <3>2 DEF Cancelled
    <3> HIDE DEF o, kind
    <3>4. QED
      BY <1>2, <2>3, <2>4, <3>1, <3>3 DEF JobLocks, Cancelled, InBooks, kind
  <2>8. JobMade(w)'
    BY <2>3, <2>4 DEF JobMade
  <2>9. \A p \in Orders : ~Making(w, p, "commerce")'
    BY <1>2, <2>3 DEF Making, Busy, InBooks
  <2>10. JobDocs(w)' /\ ~job'[w].updates
    BY <1>2, <2>3, <2>6, <2>7, <2>8 DEF JobDocs
  <2>11. \E p \in Orders : Unlocked(p) /\ lock' = [lock EXCEPT ![p] = w]
    BY <1>1, <1>2, <1>4
  <2>12. late \subseteq late'
    BY <1>4
  <2>13. QED
    BY <1>1, <1>n, <2>3, <2>9, <2>10, <2>11, <2>12, LightKeeps
<1>5. QED
  BY <1>3, <1>4 DEF LockOrder

-----------------------------------------------------------------------------
(***************************************************************************)
(* The contact is looked for.                                              *)
(***************************************************************************)
LEMMA StepOn ==
  ASSUME Contacted, DocsInv, NEW w \in Workers, job[w].at \in ContactSteps,
         UNCHANGED <<manual, order, lock, documents, raced, late>>, FaultsGrow,
         UNCHANGED contacts \/ \E x : contacts' = Append(contacts, x),
         SameJob(w), Stays(w),
         \/ job'[w].at \in ContactSteps
         \/ job'[w].at = IF job[w].updates THEN "put" ELSE "post",
         job'[w].at = "last" => ContactsOf(User(w)) # {}
  PROVE  DocsInv'
<1>1. JobDocs(w)
  BY DEF DocsInv
<1>2. Leaves(w)
  BY QuietLeaves DEF Stays
<1>3. JobPath(w)'
  <2>1. SalesOrderKind' = SalesOrderKind /\ (Linked(w)' <=> Linked(w))
    BY DEF SalesOrderKind, Linked, SameJob
  <2>2. User(w) \in Users /\ User(w)' = User(w)
    BY JobTyped DEF User, SameJob
  <2>3. ContactsOf(User(w)) # {} => ContactsOf(User(w))' # {}
    BY <1>2, <2>2 DEF Leaves, OthersLast, ContactsOf
  <2>4. QED
    BY <1>1, <2>1, <2>3 DEF JobDocs, JobPath, SameJob, ContactSteps
<1>4. JobLocks(w)'
  <2>1. /\ (Linked(w)' <=> Linked(w)) /\ (Holds(w)' <=> Holds(w))
        /\ \A o \in Orders : Cancelled(o)' <=> Cancelled(o)
    BY DEF Linked, Holds, Cancelled, SameJob
  <2>2. job[w].at \in MakeSteps /\ ~job[w].updates => job[w].kind \in InBooks
    BY <1>1 DEF JobDocs, JobPath, MakeSteps, ContactSteps
  <2>3. job'[w].at \in MakeSteps /\ ~job'[w].updates =>
          /\ Holds(w) /\ ~Linked(w) /\ job[w].shows = order[job[w].order].edits
          /\ order[job[w].order].status = "cancelled" => job[w].order \in late
    BY <1>1, <2>2 DEF JobDocs, JobLocks, MakeSteps, SameJob, Cancelled
  <2>4. job'[w].at \in {"post", "save"} => ~job'[w].updates /\ job'[w].kind \in InBooks
    BY <2>2 DEF SameJob, MakeSteps, ContactSteps
  <2>5. job'[w].at # "void"
    BY DEF ContactSteps
  <2>6. QED
    BY <2>1, <2>3, <2>4, <2>5 DEF JobLocks, SameJob, Cancelled
<1>5. JobMade(w)'
  BY DEF JobMade, ContactSteps
<1>6. Crossing'
  <2>1. \A o \in Orders : ~Making(w, o, "commerce")'
    BY <1>1 DEF JobDocs, JobPath, Making, Busy, SameJob, InBooks, ContactSteps
  <2>2. QED
    BY <1>2, <2>1, CrossingKept DEF SameJob
<1>7. MakingKept(w) /\ UpdateKept(w)
  BY DEF MakingKept, UpdateKept, SameJob, ContactSteps
<1>8. QED
  BY <1>2, <1>3, <1>4, <1>5, <1>6, <1>7, QuietKeeps DEF JobDocs

LEMMA ResolvedDocs ==
  ASSUME Contacted, DocsInv, NEW w \in Workers, job[w].at \in ContactSteps,
         UNCHANGED <<manual, order, lock, documents, raced, late>>, FaultsGrow,
         UNCHANGED contacts \/ \E x : contacts' = Append(contacts, x),
         NEW c, Resolved(w, c)
  PROVE  DocsInv'
<1>1. /\ job'[w].at = IF job[w].updates THEN "put" ELSE "post"
      /\ SameJob(w) /\ Stays(w)
  BY ResolvedIs DEF Stays
<1>2. job'[w].at # "last"
  BY <1>1
<1>3. QED
  BY <1>1, <1>2, StepOn

LEMMA GotoDocs ==
  ASSUME Contacted, DocsInv, NEW w \in Workers, job[w].at \in ContactSteps,
         UNCHANGED <<manual, order, lock, documents, raced, late, contacts>>, FaultsGrow,
         NEW step \in ContactSteps, Goto(w, step),
         step = "last" => ContactsOf(User(w)) # {}
  PROVE  DocsInv'
<1>1. job'[w].at = step /\ SameJob(w) /\ Stays(w)
  BY GotoIs DEF Stays
<1>2. QED
  BY <1>1, StepOn

LEMMA NoFaultGrows ==
  ASSUME Contacted, Fault \/ NoFault
  PROVE  FaultsGrow
BY FaultGrows DEF FaultsGrow

LEMMA ForgetIs ==
  ASSUME Contacted, NEW w \in Workers,
         job' = [job EXCEPT ![w].at = "email", ![w].read = 0]
  PROVE  job'[w].at = "email" /\ SameJob(w) /\ Stays(w)
<1> DEFINE new == [job[w] EXCEPT !.at = "email", !.read = 0]
<1>1. job[w] \in JobState /\ job \in [Workers -> JobState]
  BY JobTyped
<1>2. /\ new.at = "email" /\ new.shows = job[w].shows /\ new.updates = job[w].updates
      /\ new.order = job[w].order /\ new.kind = job[w].kind
  BY <1>1 DEF JobState
<1>3. job' = [job EXCEPT ![w] = new]
  BY <1>1
<1> HIDE DEF new
<1>4. QED
  BY <1>2, <1>3, OneMoves DEF Stays, SameJob

LEMMA CheckStoredDocs ==
  ASSUME Contacted, DocsInv, NEW w \in Workers, CheckStored(w)
  PROVE  DocsInv'
<1>1. /\ At(w, "stored") /\ UNCHANGED <<manual, order, lock, contacts, documents, raced, late>>
      /\ Fault \/ NoFault
  BY DEF CheckStored, zohoVars
<1>2. job[w].at \in ContactSteps /\ FaultsGrow /\ "email" \in ContactSteps
  BY <1>1, NoFaultGrows DEF At, ContactSteps
<1>3. CASE Goto(w, "email")
  BY <1>1, <1>2, <1>3, GotoDocs
<1>4. CASE Resolved(w, job[w].read)
  BY <1>1, <1>2, <1>4, ResolvedDocs
<1>5. CASE job' = [job EXCEPT ![w].at = "email", ![w].read = 0]
  BY <1>1, <1>2, <1>5, ForgetIs, StepOn
<1>6. QED
  BY <1>3, <1>4, <1>5 DEF CheckStored

LEMMA SearchContactDocs ==
  ASSUME Contacted, DocsInv, NEW w \in Workers, SearchContact(w)
  PROVE  DocsInv'
<1>1. /\ At(w, "email") \/ At(w, "again") \/ At(w, "last")
      /\ UNCHANGED <<manual, order, contacts, documents, raced, late>>
      /\ Fault \/ NoFault
  BY DEF SearchContact, zohoVars
<1>2. job[w].at \in ContactSteps /\ FaultsGrow /\ {"create", "unique"} \subseteq ContactSteps
  BY <1>1, NoFaultGrows DEF At, ContactSteps
<1>3. ASSUME NEW c \in ContactsOf(User(w)), Resolved(w, c), UNCHANGED lock
      PROVE  DocsInv'
  BY <1>1, <1>2, <1>3, ResolvedDocs
<1>4. CASE ContactsOf(User(w)) = {} /\ At(w, "last")
  BY <1>4 DEF DocsInv, JobDocs, JobPath, At
<1>5. CASE Goto(w, "create") /\ UNCHANGED lock
  BY <1>1, <1>2, <1>5, GotoDocs
<1>6. CASE Goto(w, "unique") /\ UNCHANGED lock
  BY <1>1, <1>2, <1>6, GotoDocs
<1>7. CASE Fault /\ Abandon(w)
  BY <1>1, <1>7, FaultEnds DEF Abandon
<1>8. \/ \E c \in ContactsOf(User(w)) : Resolved(w, c) /\ UNCHANGED lock
      \/ ContactsOf(User(w)) = {} /\ At(w, "last")
      \/ Goto(w, "create") /\ UNCHANGED lock
      \/ Goto(w, "unique") /\ UNCHANGED lock
      \/ Fault /\ Abandon(w)
  BY DEF SearchContact
<1>9. QED
  BY <1>3, <1>4, <1>5, <1>6, <1>7, <1>8

LEMMA CreateContactDocs ==
  ASSUME Contacted, DocsInv, NEW w \in Workers, CreateContact(w)
  PROVE  DocsInv'
<1> DEFINE u == User(w)
           unique == At(w, "unique")
           taken == IF unique THEN UniqueTaken(u) ELSE NameTaken(u)
           Created == contacts' = Append(contacts, [email |-> u, unique |-> unique])
<1>1. /\ At(w, "create") \/ At(w, "unique")
      /\ UNCHANGED <<manual, order, documents, raced, late>>
      /\ Fault \/ NoFault
  BY DEF CreateContact
<1>2. job[w].at \in ContactSteps /\ FaultsGrow /\ {"again", "last"} \subseteq ContactSteps
  BY <1>1, NoFaultGrows DEF At, ContactSteps
<1>3. CASE taken /\ Goto(w, WhenTaken(job[w].at)) /\ UNCHANGED <<contacts, lock>>
  <2>1. CASE At(w, "create")
    <3>1. Goto(w, "again")
      BY <1>3, <2>1 DEF WhenTaken, At
    <3>2. QED
      BY <1>1, <1>2, <1>3, <3>1, GotoDocs
  <2>2. CASE At(w, "unique")
    <3>1. Goto(w, "last")
      BY <1>3, <2>2 DEF WhenTaken, At
    <3>2. ContactsOf(User(w)) # {}
      BY <1>3, <2>2 DEF UniqueTaken, ContactsOf
    <3>3. QED
      BY <1>1, <1>2, <1>3, <3>1, <3>2, GotoDocs
  <2>3. QED
    BY <1>1, <2>1, <2>2
<1>4. CASE Created /\ Resolved(w, Len(contacts) + 1) /\ UNCHANGED lock
  <2>1. \E x : contacts' = Append(contacts, x)
    BY <1>4
  <2>2. QED
    BY <1>1, <1>2, <1>4, <2>1, ResolvedDocs
<1>5. CASE Fault /\ Abandon(w) /\ (Created \/ UNCHANGED contacts)
  <2>1. UNCHANGED contacts \/ \E x : contacts' = Append(contacts, x)
    BY <1>5
  <2>2. QED
    BY <1>1, <1>5, <2>1, FaultEnds DEF Abandon
<1>6. \/ taken /\ Goto(w, WhenTaken(job[w].at)) /\ UNCHANGED <<contacts, lock>>
      \/ Created /\ Resolved(w, Len(contacts) + 1) /\ UNCHANGED lock
      \/ Fault /\ Abandon(w) /\ (Created \/ UNCHANGED contacts)
  BY DEF CreateContact
<1>7. QED
  BY <1>3, <1>4, <1>5, <1>6

-----------------------------------------------------------------------------
(***************************************************************************)
(* The document is made, saved and updated.                                *)
(***************************************************************************)

\* The lock, and where there is none the race, keeps others from making it.
LEMMA NotMadeYet ==
  ASSUME Contacted, DocsInv, NEW w \in Workers, At(w, "post"),
         job[w].kind \in InBooks \/ job[w].order \notin raced
  PROVE  ~Made(job[w].order, job[w].kind)
<1> DEFINE o == job[w].order
           kind == job[w].kind
<1>1. o \in Orders /\ kind \in Kinds
  BY JobTyped
<1>2. ~job[w].updates
  BY OnlyUpdatesTagged DEF At, ContactSteps
<1>3. ~Linked(w)
  BY <1>2 DEF DocsInv, JobDocs, JobLocks, At, MakeSteps
<1>4. ASSUME NEW v \in Workers, Saving(v, o, kind)
      PROVE  FALSE
  <2>1. v # w /\ job[v].at = "save" /\ job[v].order = o /\ job[v].kind = kind
    BY <1>4 DEF Saving, Busy, At
  <2>2. CASE kind \in InBooks
    <3>1. ~job[v].updates
      BY <2>1, OnlyUpdatesTagged DEF ContactSteps
    <3>2. lock[o] = v /\ lock[o] = w
      BY <1>2, <2>1, <2>2, <3>1 DEF DocsInv, JobDocs, JobLocks, At, MakeSteps, Holds
    <3>3. QED
      BY <2>1, <3>2
  <2>3. CASE kind \notin InBooks
    <3>1. kind = "commerce" /\ o \notin raced
      BY <1>1, <2>3 DEF Kinds, InBooks
    <3>2. Making(v, o, "commerce") /\ Making(w, o, "commerce")
      BY <2>1, <3>1 DEF Making, Busy, At
    <3>3. QED
      BY <1>1, <2>1, <3>1, <3>2 DEF DocsInv, Crossing
  <2>4. QED
    BY <2>2, <2>3
<1>5. QED
  BY <1>3, <1>4 DEF Made, Linked

LEMMA NewDocumentIs ==
  ASSUME Contacted, NEW w \in Workers
  PROVE  /\ NewDocument(w).order = job[w].order /\ NewDocument(w).kind = job[w].kind
         /\ NewDocument(w).void = FALSE /\ NewDocument(w).shows = job[w].shows
BY DEF NewDocument

LEMMA PostedIs ==
  ASSUME Contacted, NEW new, documents' = Append(documents, new)
  PROVE  /\ DOMAIN documents' = DOMAIN documents \cup {Len(documents) + 1}
         /\ Len(documents) + 1 \notin DOMAIN documents
         /\ \A d \in DOMAIN documents : documents'[d] = documents[d]
         /\ documents'[Len(documents) + 1] = new
<1>1. documents \in Seq(Document) /\ Len(documents) \in Nat
  BY LenTyped DEF Contacted, DocumentsFit
<1>2. DOMAIN documents = 1..Len(documents)
  BY <1>1
<1>3. DOMAIN documents' = 1..Len(documents) + 1
  BY <1>1
<1>4. QED
  BY <1>1, <1>2, <1>3

LEMMA PostedCount ==
  ASSUME Contacted, NEW new, documents' = Append(documents, new), NEW o \in Orders,
         NEW kind \in Kinds
  PROVE  /\ new.order = o /\ new.kind = kind =>
              Cardinality(DocumentsOf(o, kind)') = Cardinality(DocumentsOf(o, kind)) + 1
         /\ ~(new.order = o /\ new.kind = kind) =>
              DocumentsOf(o, kind)' = DocumentsOf(o, kind)
<1> DEFINE n == Len(documents) + 1
<1>1. /\ DOMAIN documents' = DOMAIN documents \cup {n} /\ n \notin DOMAIN documents
      /\ \A d \in DOMAIN documents : documents'[d] = documents[d]
      /\ documents'[n] = new
  BY PostedIs
<1> HIDE DEF n
<1>2. ASSUME new.order = o, new.kind = kind
      PROVE  DocumentsOf(o, kind)' = DocumentsOf(o, kind) \cup {n}
  BY <1>1, <1>2 DEF DocumentsOf
<1>3. n \notin DocumentsOf(o, kind)
  BY <1>1 DEF DocumentsOf
<1>4. IsFiniteSet(DocumentsOf(o, kind))
  BY CountTyped
<1>5. Cardinality(DocumentsOf(o, kind) \cup {n}) = Cardinality(DocumentsOf(o, kind)) + 1
  BY <1>3, <1>4, FS_AddElement
<1>6. ~(new.order = o /\ new.kind = kind) => DocumentsOf(o, kind)' = DocumentsOf(o, kind)
  BY <1>1 DEF DocumentsOf
<1>7. QED
  BY <1>2, <1>5, <1>6

\* Books or Commerce got the document, and the thread its answer or not.
LEMMA PostedDocs ==
  ASSUME Contacted, DocsInv, NEW w \in Workers, At(w, "post"),
         UNCHANGED <<manual, order, contacts, raced>>, late \subseteq late',
         documents' = Append(documents, NewDocument(w)),
         UNCHANGED lock \/ Release(w), Stays(w), ~job'[w].updates, JobDocs(w)',
         \A p \in Orders : Making(w, p, "commerce")' => Making(w, p, "commerce"),
         \/ faults' = faults /\ job'[w].at = "save" /\ SameJob(w)
         \/ faults' = faults + 1
  PROVE  DocsInv'
<1> DEFINE o == job[w].order
           kind == job[w].kind
           n == Len(documents) + 1
           new == NewDocument(w)
<1>1. o \in Orders /\ kind \in Kinds /\ ~job[w].updates
  BY JobTyped, OnlyUpdatesTagged DEF At, ContactSteps
<1>2. /\ DOMAIN documents' = DOMAIN documents \cup {n} /\ n \notin DOMAIN documents
      /\ \A d \in DOMAIN documents : documents'[d] = documents[d]
      /\ documents'[n] = new
  BY PostedIs
<1>3. new.order = o /\ new.kind = kind
  BY NewDocumentIs
<1>f. faults \in Nat /\ FaultsGrow
  BY FaultsTyped DEF FaultsGrow
<1>4. Leaves(w)
  <2>1. LocksLast(w)
    BY LocksMove DEF LocksLast
  <2>2. OthersLast(w) /\ OrdersLast(w)
    BY DEF OthersLast, OrdersLast, Stays, ContactsOf, Cancelled
  <2>3. DocumentsLast(w)
    BY <1>2 DEF DocumentsLast
  <2>4. QED
    BY <2>1, <2>2, <2>3 DEF Leaves
<1>5. Crossing'
  BY <1>4, CrossingKept
<1>6. LinksStay /\ ShowsStay
  BY <1>2 DEF LinksStay, ShowsStay
<1>7. LinksFit'
  BY <1>2, LinkTyped DEF DocsInv, LinksFit
<1>8. VoidInv'
  BY <1>2, <1>6, <1>f, VoidKept
<1>9. UpdateKept(w)
  BY <1>1 DEF UpdateKept, At
<1>10. CurrentInv'
  BY <1>4, <1>6, <1>9, <1>f, CurrentKept
<1>11. CountInv'
  <2> SUFFICES ASSUME NEW p \in Orders, NEW k \in Kinds, k \in InBooks \/ p \notin raced'
               PROVE  Cardinality(DocumentsOf(p, k)')
                        <= faults' + (IF Made(p, k)' THEN 1 ELSE 0)
    BY DEF CountInv
  <2>1. /\ Cardinality(DocumentsOf(p, k)) <= faults + (IF Made(p, k) THEN 1 ELSE 0)
        /\ Cardinality(DocumentsOf(p, k)) \in Nat
    BY CountTyped DEF DocsInv, CountInv
  <2>2. CASE p = o /\ k = kind
    <3>1. ~Made(o, kind)
      BY <2>2, NotMadeYet
    <3>2. ~Made(p, k)
      BY <2>2, <3>1
    <3>3. Cardinality(DocumentsOf(p, k)') = Cardinality(DocumentsOf(p, k)) + 1
      <4>1. new.order = p /\ new.kind = k
        BY <1>3, <2>2
      <4> HIDE DEF new
      <4>2. documents' = Append(documents, new)
        BY DEF new
      <4>3. QED
        BY <4>1, <4>2, PostedCount
    <3>4. faults' = faults => Made(p, k)'
      <4>1. SUFFICES ASSUME job'[w].at = "save", SameJob(w)
                     PROVE  Made(p, k)'
        BY <1>f
      <4>2. Saving(w, p, k)'
        BY <2>2, <4>1 DEF SameJob, Saving, Busy
      <4>3. QED
        BY <4>2 DEF Made
    <3> HIDE DEF o, kind
    <3>5. Cardinality(DocumentsOf(p, k)) <= faults
      BY <1>f, <2>1, <3>2
    <3>6. CASE faults' = faults
      BY <1>f, <2>1, <3>3, <3>4, <3>5, <3>6
    <3>7. CASE faults' = faults + 1
      BY <1>f, <2>1, <3>3, <3>5, <3>7
    <3>8. QED
      BY <3>6, <3>7
  <2>3. CASE ~(p = o /\ k = kind)
    <3>1. DocumentsOf(p, k)' = DocumentsOf(p, k)
      <4>1. ~(new.order = p /\ new.kind = k)
        BY <1>3, <2>3
      <4> HIDE DEF new
      <4>2. documents' = Append(documents, new)
        BY DEF new
      <4>3. QED
        BY <4>1, <4>2, PostedCount
    <3>2. Made(p, k) => Made(p, k)'
      <4>1. \A v \in Workers : Saving(v, p, k) => Saving(v, p, k)'
        BY DEF Saving, Busy, At, Stays
      <4>2. QED
        BY <4>1 DEF Made
    <3>3. CASE Made(p, k)
      BY <1>f, <2>1, <3>1, <3>2, <3>3 DEF FaultsGrow
    <3>4. CASE ~Made(p, k)
      <4>1. Cardinality(DocumentsOf(p, k)) <= faults
        BY <1>f, <2>1, <3>4
      <4>2. QED
        BY <1>f, <2>1, <3>1, <4>1 DEF FaultsGrow
    <3>5. QED
      BY <3>3, <3>4
  <2>4. QED
    BY <2>2, <2>3
<1>12. \A v \in Workers : JobDocs(v)'
  BY <1>4, OtherDocs DEF Stays
<1>13. QED
  BY <1>5, <1>7, <1>8, <1>10, <1>11, <1>12 DEF DocsInv

LEMMA MadeIs ==
  ASSUME Contacted, NEW w \in Workers, NEW n,
         job' = [job EXCEPT ![w].at = "save", ![w].made = n]
  PROVE  /\ job'[w].at = "save" /\ job'[w].made = n /\ SameJob(w) /\ Stays(w)
<1> DEFINE new == [job[w] EXCEPT !.at = "save", !.made = n]
<1>1. job[w] \in JobState /\ job \in [Workers -> JobState]
  BY JobTyped
<1>2. /\ new.at = "save" /\ new.made = n
      /\ new.shows = job[w].shows /\ new.updates = job[w].updates
      /\ new.order = job[w].order /\ new.kind = job[w].kind
  BY <1>1 DEF JobState
<1>3. job' = [job EXCEPT ![w] = new]
  BY <1>1
<1> HIDE DEF new
<1>4. QED
  BY <1>2, <1>3, OneMoves DEF Stays, SameJob

LEMMA PostDocumentDocs ==
  ASSUME Contacted, DocsInv, NEW w \in Workers, PostDocument(w)
  PROVE  DocsInv'
<1> DEFINE Posted == documents' = Append(documents, NewDocument(w))
           n == Len(documents) + 1
<1>1. At(w, "post") /\ UNCHANGED <<manual, order, late, contacts, raced>>
  BY DEF PostDocument, rowVars
<1>2. ~job[w].updates
  BY <1>1, OnlyUpdatesTagged DEF At, ContactSteps
<1>3. CASE /\ Posted /\ NoFault /\ UNCHANGED lock
           /\ job' = [job EXCEPT ![w].at = "save", ![w].made = n]
  <2>1. /\ job'[w].at = "save" /\ job'[w].made = n /\ SameJob(w) /\ Stays(w)
    <3> HIDE DEF n
    <3>1. QED
      BY <1>3, MadeIs
  <2>2. /\ n \in DOMAIN documents' /\ documents'[n].order = job[w].order
        /\ documents'[n].kind = job[w].kind /\ documents'[n].void = FALSE
        /\ documents'[n].shows = job[w].shows
    <3>1. n \in DOMAIN documents' /\ documents'[n] = NewDocument(w)
      BY <1>3, PostedIs
    <3>2. QED
      BY <3>1, NewDocumentIs
  <2> HIDE DEF n
  <2>3. JobDocs(w)'
    <3>1. JobPath(w) /\ JobLocks(w)
      BY DEF DocsInv, JobDocs
    <3>2. JobPath(w)'
      BY <1>1, <1>2, <2>1, <3>1 DEF JobPath, SameJob, ContactSteps, At
    <3>3. JobLocks(w)'
      BY <1>1, <1>2, <1>3, <2>1, <3>1
      DEF JobLocks, SameJob, MakeSteps, At, Holds, Linked, Cancelled
    <3>4. JobMade(w)'
      BY <2>1, <2>2 DEF JobMade, SameJob
    <3>5. QED
      BY <3>2, <3>3, <3>4 DEF JobDocs
  <2>4. \A p \in Orders : Making(w, p, "commerce")' => Making(w, p, "commerce")
    BY <1>1, <2>1 DEF Making, Busy, SameJob, At
  <2>5. faults' = faults
    BY <1>3 DEF NoFault
  <2>6. ~job'[w].updates
    BY <1>2, <2>1 DEF SameJob
  <2>7. QED
    BY <1>1, <1>3, <2>1, <2>3, <2>4, <2>5, <2>6, PostedDocs
<1>4. CASE Fault /\ Abandon(w) /\ Posted
  <2>1. /\ JobDocs(w)' /\ Stays(w) /\ ~job'[w].updates
        /\ \A p \in Orders : ~Making(w, p, "commerce")'
    BY <1>4, EndDocs DEF Abandon
  <2>2. faults' = faults + 1 /\ Release(w)
    BY <1>4 DEF Fault, Abandon
  <2>3. QED
    BY <1>1, <1>4, <2>1, <2>2, PostedDocs
<1>5. CASE Fault /\ Abandon(w) /\ UNCHANGED documents
  BY <1>1, <1>5, FaultEnds DEF Abandon
<1>6. \/ /\ Posted /\ NoFault /\ UNCHANGED lock
         /\ job' = [job EXCEPT ![w].at = "save", ![w].made = n]
      \/ Fault /\ Abandon(w) /\ Posted
      \/ Fault /\ Abandon(w) /\ UNCHANGED documents
  BY DEF PostDocument
<1>7. QED
  BY <1>3, <1>4, <1>5, <1>6

LEMMA SavedIs ==
  ASSUME Contacted, NEW w \in Workers, NEW o \in Orders, NEW kind \in Kinds, NEW d,
         SaveDocument(w), o = job[w].order, kind = job[w].kind, d = job[w].made
  PROVE  /\ \A p \in Orders : /\ p # o => order'[p] = order[p]
                              /\ order'[p].edits = order[p].edits
                              /\ order'[p].status = order[p].status
         /\ \A p \in Orders, k \in Kinds :
              order'[p].link[k] = IF p = o /\ k = kind THEN d ELSE order[p].link[k]
<1>e. order' = [order EXCEPT ![o].link[kind] = d]
  BY DEF SaveDocument
<1>1. order \in [Orders -> OrderRow] /\ order[o] \in OrderRow
  BY DEF Contacted, OrdersFit
<1> DEFINE link == [order[o].link EXCEPT ![kind] = d]
           new == [order[o] EXCEPT !.link = link]
<1>2. order' = [order EXCEPT ![o] = new]
  BY <1>1, <1>e
<1>3. order[o].link \in [Kinds -> Nat]
  BY <1>1 DEF OrderRow
<1>4. \A k \in Kinds : link[k] = IF k = kind THEN d ELSE order[o].link[k]
  BY <1>3
<1> HIDE DEF link
<1>5. new.link = link /\ new.edits = order[o].edits /\ new.status = order[o].status
  BY <1>1 DEF OrderRow
<1> HIDE DEF new
<1>6. order'[o] = new /\ \A p \in Orders : p # o => order'[p] = order[p]
  BY <1>1, <1>2
<1>7. \A p \in Orders : /\ p # o => order'[p] = order[p]
                        /\ order'[p].edits = order[p].edits
                        /\ order'[p].status = order[p].status
  BY <1>5, <1>6
<1>8. ASSUME NEW p \in Orders, NEW k \in Kinds
      PROVE  order'[p].link[k] = IF p = o /\ k = kind THEN d ELSE order[p].link[k]
  <2>1. CASE p = o
    <3>1. order'[p].link[k] = link[k]
      BY <1>5, <1>6, <2>1
    <3>2. QED
      BY <1>4, <2>1, <3>1
  <2>2. CASE p # o
    BY <1>6, <2>2
  <2>3. QED
    BY <2>1, <2>2
<1>9. QED
  BY <1>7, <1>8

LEMMA SaveDocumentDocs ==
  ASSUME Contacted, DocsInv, NEW w \in Workers, SaveDocument(w)
  PROVE  DocsInv'
<1> DEFINE o == job[w].order
           kind == job[w].kind
           d == job[w].made
<1>1. /\ At(w, "save") /\ End(w) /\ Release(w)
      /\ order' = [order EXCEPT ![o].link[kind] = d]
      /\ UNCHANGED <<manual, contacts, documents, faults, raced, late>>
  BY DEF SaveDocument, Abandon, zohoVars
<1>2. o \in Orders /\ kind \in Kinds /\ ~job[w].updates
  BY <1>1, OnlyUpdatesTagged, JobTyped DEF At, ContactSteps
<1>3. /\ \A p \in Orders : /\ p # o => order'[p] = order[p]
                           /\ order'[p].edits = order[p].edits
                           /\ order'[p].status = order[p].status
      /\ \A p \in Orders, k \in Kinds :
           order'[p].link[k] = IF p = o /\ k = kind THEN d ELSE order[p].link[k]
  <2>1. PICK oo \in Orders, k \in Kinds, dd \in {d} : oo = o /\ k = kind
    BY <1>2
  <2>2. oo = job[w].order /\ k = job[w].kind /\ dd = job[w].made
    BY <2>1
  <2> HIDE DEF o, kind, d
  <2>3. /\ \A p \in Orders : /\ p # oo => order'[p] = order[p]
                             /\ order'[p].edits = order[p].edits
                             /\ order'[p].status = order[p].status
        /\ \A p \in Orders, j \in Kinds :
             order'[p].link[j] = IF p = oo /\ j = k THEN dd ELSE order[p].link[j]
    BY <2>2, SavedIs
  <2>4. QED
    BY <2>1, <2>3
<1>4. /\ JobDocs(w)' /\ Stays(w) /\ ~job'[w].updates /\ job'[w].at = "idle"
      /\ \A p \in Orders : ~Making(w, p, "commerce")'
  BY <1>1, EndDocs
<1>5. /\ d \in DOMAIN documents /\ documents[d].order = o /\ documents[d].kind = kind
      /\ kind \in InBooks => /\ ~documents[d].void /\ documents[d].shows = order[o].edits
                             /\ Cancelled(o) => o \in late
  BY <1>1, <1>2 DEF DocsInv, JobDocs, JobMade, JobLocks, At, MakeSteps
<1>6. d # 0
  BY <1>5 DEF Contacted, DocumentsFit
<1>7. kind = "salesorder" => manual
  BY <1>1 DEF DocsInv, JobDocs, JobPath, At
<1>f. faults \in Nat
  BY FaultsTyped
<1>8. Leaves(w)
  <2>1. LocksLast(w)
    BY <1>1, LocksMove DEF LocksLast
  <2>2. OthersLast(w) /\ DocumentsLast(w)
    BY <1>1, <1>4 DEF OthersLast, DocumentsLast, Stays, ContactsOf
  <2>3. OrdersLast(w)
    <3>1. Saving(w, o, kind)
      BY <1>1 DEF Saving, Busy, At
    <3> HIDE DEF o, kind, d
    <3>2. QED
      BY <1>3, <1>6, <3>1 DEF OrdersLast, Cancelled
  <2>4. QED
    BY <2>1, <2>2, <2>3 DEF Leaves
<1>9. Crossing'
  BY <1>4, <1>8, CrossingKept
<1> HIDE DEF o, kind, d
<1>10. LinksFit'
  <2>1. ASSUME NEW p \in Orders, NEW k \in Kinds, order'[p].link[k] # 0
        PROVE  /\ documents[order'[p].link[k]].order = p
               /\ documents[order'[p].link[k]].kind = k
    BY <1>3, <1>5, <2>1 DEF DocsInv, LinksFit
  <2>2. ASSUME ~manual, NEW p \in Orders
        PROVE  order'[p].link["salesorder"] = 0
    <3>1. "salesorder" \in Kinds /\ order[p].link["salesorder"] = 0 /\ kind # "salesorder"
      BY <1>7, <2>2 DEF DocsInv, LinksFit, Kinds
    <3>2. QED
      BY <1>3, <3>1
  <2>3. QED
    BY <1>1, <2>1, <2>2 DEF LinksFit
<1>s. "salesorder" \in Kinds /\ (kind = "salesorder" => kind \in InBooks)
  BY DEF Kinds, InBooks
<1>11. VoidInv'
  <2> SUFFICES ASSUME NEW p \in Orders \ late, faults = 0, order'[p].link["salesorder"] # 0
               PROVE  documents[order'[p].link["salesorder"]].void
                        = (order[p].status = "cancelled")
    BY <1>1, <1>3 DEF VoidInv, Cancelled
  <2>1. CASE p = o /\ kind = "salesorder"
    <3>1. order'[p].link["salesorder"] = d
      BY <1>3, <1>s, <2>1
    <3>2. documents[d].void \in BOOLEAN
      <4>1. documents[d] \in Document
        BY <1>5 DEF Contacted, DocumentsFit
      <4>2. QED
        BY <4>1 DEF Document
    <3>3. order[p].status # "cancelled"
      BY <1>5, <1>s, <2>1 DEF Cancelled
    <3>4. QED
      BY <1>5, <1>s, <2>1, <3>1, <3>2, <3>3
  <2>2. CASE ~(p = o /\ kind = "salesorder")
    <3>1. order'[p].link["salesorder"] = order[p].link["salesorder"]
      BY <1>3, <1>s, <2>2
    <3>2. QED
      BY <3>1 DEF DocsInv, VoidInv, Cancelled
  <2>3. QED
    BY <2>1, <2>2
<1>12. CountInv'
  <2>1. \A p \in Orders, k \in Kinds : DocumentsOf(p, k)' = DocumentsOf(p, k)
    BY <1>1 DEF DocumentsOf
  <2>2. ASSUME NEW p \in Orders, NEW k \in Kinds, Made(p, k)
        PROVE  Made(p, k)'
    <3>1. CASE p = o /\ k = kind
      BY <1>3, <1>6, <3>1 DEF Made
    <3>2. CASE ~(p = o /\ k = kind)
      <4>1. order'[p].link[k] = order[p].link[k]
        BY <1>3, <3>2
      <4>2. ASSUME NEW v \in Workers, Saving(v, p, k)
            PROVE  Saving(v, p, k)'
        <5>1. v # w
          BY <3>2, <4>2 DEF Saving, Busy, o, kind
        <5>2. QED
          BY <1>4, <4>2, <5>1 DEF Saving, Busy, Stays
      <4>3. QED
        BY <2>2, <4>1, <4>2 DEF Made
    <3>3. QED
      BY <3>1, <3>2
  <2>3. QED
    BY <1>1, <1>8, <1>f, <2>1, <2>2, CountKept
<1>13. CurrentInv'
  <2> SUFFICES ASSUME NEW p \in Orders \ raced, faults = 0, manual,
                      order[p].status \notin {"synced", "cancelled"}
               PROVE  /\ \A v \in Workers :
                           Updating(v, p)' => job'[v].shows = order[p].edits \/ Found(p)'
                      /\ order'[p].link["salesorder"] # 0 =>
                           \/ documents[order'[p].link["salesorder"]].shows = order[p].edits
                           \/ Found(p)' \/ \E v \in Workers : Updating(v, p)'
    BY <1>1, <1>3 DEF CurrentInv
  <2>1. /\ \A v \in Workers : Updating(v, p) => job[v].shows = order[p].edits \/ Found(p)
        /\ order[p].link["salesorder"] # 0 =>
             \/ documents[order[p].link["salesorder"]].shows = order[p].edits
             \/ Found(p) \/ \E v \in Workers : Updating(v, p)
    BY DEF DocsInv, CurrentInv
  <2>2. Found(p) => Found(p)'
    <3>1. \A v \in Workers : Finding(v, p) => Finding(v, p)'
      BY <1>1, <1>4 DEF Finding, Stays, At
    <3>2. QED
      BY <3>1 DEF Found
  <2>3. \A v \in Workers : /\ Updating(v, p)' <=> Updating(v, p)
                           /\ Updating(v, p) => job'[v].shows = job[v].shows
    BY <1>2, <1>4 DEF Updating, Stays
  <2>4. CASE p = o /\ kind = "salesorder"
    <3>1. order'[p].link["salesorder"] = d /\ documents[d].shows = order[p].edits
      BY <1>3, <1>5, <1>s, <2>4
    <3>2. QED
      BY <2>1, <2>2, <2>3, <3>1
  <2>5. CASE ~(p = o /\ kind = "salesorder")
    <3>1. order'[p].link["salesorder"] = order[p].link["salesorder"]
      BY <1>3, <1>s, <2>5
    <3>2. QED
      BY <2>1, <2>2, <2>3, <3>1
  <2>6. QED
    BY <2>4, <2>5
<1>14. \A v \in Workers : JobDocs(v)'
  BY <1>4, <1>8, OtherDocs
<1>15. QED
  BY <1>9, <1>10, <1>11, <1>12, <1>13, <1>14 DEF DocsInv

LEMMA UpdatedIs ==
  ASSUME Contacted, NEW d, NEW shows, documents' = [documents EXCEPT ![d].shows = shows]
  PROVE  /\ DocumentsStay
         /\ \A c \in DOMAIN documents : /\ documents'[c].void = documents[c].void
                                        /\ c # d => documents'[c] = documents[c]
                                        /\ c = d => documents'[c].shows = shows
<1>1. documents \in Seq(Document)
  BY DEF Contacted, DocumentsFit
<1>2. DOMAIN documents' = DOMAIN documents
  BY <1>1
<1>3. \A c \in DOMAIN documents : c # d => documents'[c] = documents[c]
  BY <1>1
<1>4. ASSUME d \in DOMAIN documents
      PROVE  /\ documents'[d].shows = shows /\ documents'[d].void = documents[d].void
             /\ documents'[d].order = documents[d].order /\ documents'[d].kind = documents[d].kind
  <2>1. documents[d] \in Document
    BY <1>1, <1>4
  <2>2. documents'[d] = [documents[d] EXCEPT !.shows = shows]
    BY <1>1, <1>4
  <2>3. QED
    BY <2>1, <2>2 DEF Document
<1>5. QED
  BY <1>2, <1>3, <1>4 DEF DocumentsStay

LEMMA UpdateDocumentDocs ==
  ASSUME Contacted, DocsInv, NEW w \in Workers, UpdateDocument(w)
  PROVE  DocsInv'
<1> DEFINE o == job[w].order
           kind == job[w].kind
           d == order[o].link[kind]
           s == job[w].shows
           Updated == documents' = [documents EXCEPT ![d].shows = s]
<1>1. /\ At(w, "put") /\ End(w)
      /\ UNCHANGED <<manual, order, late, lock, contacts, raced>>
      /\ (Updated /\ (Fault \/ NoFault)) \/ (Fault /\ UNCHANGED documents)
  BY DEF UpdateDocument, rowVars
<1> HIDE DEF Updated
<1>2. o \in Orders /\ kind \in Kinds /\ kind = SalesOrderKind /\ d # 0 /\ job[w].updates
  BY <1>1, JobTyped DEF DocsInv, JobDocs, JobPath, At, Linked
<1>3. CASE Fault /\ UNCHANGED documents
  BY <1>1, <1>3, FaultEnds
<1>4. CASE Updated /\ (Fault \/ NoFault)
  <2>1. /\ DocumentsStay
        /\ \A c \in DOMAIN documents : /\ documents'[c].void = documents[c].void
                                       /\ c # d => documents'[c] = documents[c]
                                       /\ c = d => documents'[c].shows = s
    <3> HIDE DEF d, s
    <3>1. QED
      BY <1>4, UpdatedIs DEF Updated
  <2>2. /\ JobDocs(w)' /\ Stays(w) /\ ~job'[w].updates /\ job'[w].at = "idle"
        /\ \A p \in Orders : ~Making(w, p, "commerce")'
    BY <1>1, EndDocs
  <2>3. d \in DOMAIN documents /\ documents[d].order = o /\ documents[d].kind = kind
    BY <1>2, LinkTyped DEF DocsInv, LinksFit
  <2>4. Leaves(w)
    <3>1. LocksLast(w) /\ OrdersLast(w)
      BY <1>1 DEF LocksLast, OrdersLast, Cancelled
    <3>2. OthersLast(w)
      BY <1>1, <2>2 DEF OthersLast, Stays, ContactsOf
    <3>3. DocumentsLast(w)
      BY <1>1, <2>1 DEF DocumentsLast, DocumentsStay
    <3>4. QED
      BY <3>1, <3>2, <3>3 DEF Leaves
  <2>5. FaultsGrow /\ MakingKept(w) /\ LinksStay
    BY <1>1, <1>4, NoFaultGrows DEF MakingKept, LinksStay, At
  <2>6. LinksFit' /\ CountInv'
    BY <2>1, <2>4, <2>5, LinksKept, CountSame
  <2>7. VoidInv'
    BY <1>1, <2>1, <2>5, VoidKept
  <2>8. Crossing'
    BY <2>2, <2>4, CrossingKept
  <2>9. CurrentInv'
    <3>1. CASE Fault
      BY <3>1, FaultsTyped DEF Fault, CurrentInv
    <3>2. CASE NoFault
      <4> SUFFICES ASSUME NEW p \in Orders \ raced, faults = 0, manual,
                          order[p].status \notin {"synced", "cancelled"}
                   PROVE  /\ \A v \in Workers :
                               Updating(v, p)' => job'[v].shows = order[p].edits \/ Found(p)'
                          /\ order[p].link["salesorder"] # 0 =>
                               \/ documents'[order[p].link["salesorder"]].shows = order[p].edits
                               \/ Found(p)' \/ \E v \in Workers : Updating(v, p)'
        BY <1>1, <3>2 DEF CurrentInv, NoFault
      <4>1. /\ \A v \in Workers : Updating(v, p) => job[v].shows = order[p].edits \/ Found(p)
            /\ order[p].link["salesorder"] # 0 =>
                 \/ documents[order[p].link["salesorder"]].shows = order[p].edits
                 \/ Found(p) \/ \E v \in Workers : Updating(v, p)
        BY DEF DocsInv, CurrentInv
      <4>2. Found(p) => Found(p)'
        <5>1. \A v \in Workers : Finding(v, p) => Finding(v, p)'
          BY <1>1, <2>2 DEF Finding, Stays, At
        <5>2. QED
          BY <5>1 DEF Found
      <4>3. \A v \in Workers : v # w => (Updating(v, p)' <=> Updating(v, p))
        BY <2>2 DEF Updating, Stays
      <4>4. \A v \in Workers : Updating(v, p)' => job'[v].shows = order[p].edits \/ Found(p)'
        BY <2>2, <4>1, <4>2 DEF Updating, Stays
      <4>5. kind = "salesorder"
        BY <1>2 DEF SalesOrderKind
      <4>6. ASSUME order[p].link["salesorder"] # 0
            PROVE  \/ documents'[order[p].link["salesorder"]].shows = order[p].edits
                   \/ Found(p)' \/ \E v \in Workers : Updating(v, p)'
        <5> DEFINE c == order[p].link["salesorder"]
        <5>1. CASE p = o
          <6>1. Updating(w, p) /\ c = d
            BY <1>2, <4>5, <5>1 DEF Updating
          <6>2. s = order[p].edits \/ Found(p)
            BY <4>1, <6>1
          <6>3. documents'[c].shows = s
            <7> HIDE DEF c, d, s
            <7>1. QED
              BY <2>1, <2>3, <6>1
          <6>4. QED
            BY <4>2, <6>2, <6>3
        <5>2. CASE p # o
          <6>1. c \in DOMAIN documents /\ documents[c].order = p
            BY <4>6, LinkTyped DEF DocsInv, LinksFit, Kinds
          <6>2. documents'[c] = documents[c]
            <7> HIDE DEF c, d
            <7>1. QED
              BY <2>1, <2>3, <5>2, <6>1
          <6>3. \/ documents[c].shows = order[p].edits
                \/ Found(p) \/ \E v \in Workers : Updating(v, p)
            BY <4>1, <4>6
          <6>4. \A v \in Workers : Updating(v, p) => v # w
            BY <5>2 DEF Updating
          <6>5. QED
            BY <4>2, <4>3, <6>2, <6>3, <6>4
        <5>3. QED
          BY <5>1, <5>2
      <4>7. QED
        BY <4>4, <4>6
    <3>3. QED
      BY <1>4, <3>1, <3>2
  <2>10. \A v \in Workers : JobDocs(v)'
    BY <2>2, <2>4, OtherDocs
  <2>11. QED
    BY <2>6, <2>7, <2>8, <2>9, <2>10 DEF DocsInv
<1>5. QED
  BY <1>1, <1>3, <1>4

-----------------------------------------------------------------------------
LEMMA InitDocs == Init => DocsInv
<1> SUFFICES ASSUME Init PROVE DocsInv
  OBVIOUS
<1>1. \A w \in Workers : job[w] = Idle
  BY DEF Init
<1>2. \A o \in Orders, kind \in Kinds : order[o].link[kind] = 0
  BY DEF Init
<1>3. Idle.at = "idle" /\ ~Idle.updates
  BY DEF Idle
<1>4. \A w \in Workers : JobDocs(w)
  BY <1>1, <1>3 DEF JobDocs, JobPath, JobLocks, JobMade, ContactSteps, MakeSteps, Idle
<1>5. Crossing
  BY <1>1, <1>3 DEF Crossing, Making, Busy
<1>6. LinksFit /\ VoidInv
  BY <1>2 DEF LinksFit, VoidInv, Kinds
<1>7. CurrentInv
  BY <1>1, <1>2, <1>3 DEF CurrentInv, Updating, Kinds
<1>8. CountInv
  <2>1. \A o \in Orders, kind \in Kinds : DocumentsOf(o, kind) = {}
    BY DEF Init, DocumentsOf
  <2>2. Cardinality({}) = 0 /\ faults = 0
    BY FS_EmptySet DEF Init
  <2>3. QED
    BY <2>1, <2>2 DEF CountInv
<1>9. QED
  BY <1>4, <1>5, <1>6, <1>7, <1>8 DEF DocsInv

LEMMA NextDocs == Contacted /\ DocsInv /\ [Next]_vars => DocsInv'
<1> SUFFICES ASSUME Contacted, DocsInv, [Next]_vars PROVE DocsInv'
  OBVIOUS
<1>1. CASE UNCHANGED vars
  BY <1>1 DEF vars, DocsInv, JobDocs, JobPath, JobLocks, JobMade, Crossing, LinksFit, VoidInv,
     CountInv, CurrentInv, Making, Saving, Busy, Made, Found, Finding, Updating, Holds, Linked,
     Cancelled, SalesOrderKind, ContactsOf, User, DocumentsOf
<1>2. ASSUME NEW w \in Workers, NEW o \in Orders, Request(w, o)
      PROVE  DocsInv'
  BY <1>2, PlaceOrderDocs, RetryDocs, EditOrderDocs, ConfirmOrderDocs, StaffInvoiceDocs,
     CancelOrderDocs DEF Request
<1>3. ASSUME NEW w \in Workers, Step(w)
      PROVE  DocsInv'
  BY <1>3, SaveConfirmedDocs, LockToCancelDocs, VoidSalesOrderDocs, FindSalesOrderDocs,
     ReadOrderDocs, LockOrderDocs, CheckStoredDocs, SearchContactDocs, CreateContactDocs,
     PostDocumentDocs, SaveDocumentDocs, UpdateDocumentDocs DEF Step
<1>4. ASSUME NEW w \in Workers, Die(w)
      PROVE  DocsInv'
  BY <1>4, DieDocs
<1>5. QED
  BY <1>1, <1>2, <1>3, <1>4 DEF Next

LEMMA AlwaysDocs == Spec => []DocsInv
<1>1. Init => DocsInv
  BY InitDocs
<1>2. Contacted /\ DocsInv /\ [Next]_vars => DocsInv'
  BY NextDocs
<1>3. QED
  BY <1>1, <1>2, AlwaysContacted, PTL DEF Spec

\* An order gets a document of each kind once, and once more for every answer that was
\* lost and every thread that died: the link, looked at under the row lock, stands for
\* the document from its creation to the commit.
THEOREM DocumentsAreCounted == Spec => []OneDocumentPerFault
<1>1. ASSUME Contacted, DocsInv
      PROVE  OneDocumentPerFault
  <2> SUFFICES ASSUME NEW o \in Orders, NEW kind \in Kinds, kind \in InBooks \/ o \notin raced
               PROVE  Cardinality(DocumentsOf(o, kind)) <= 1 + faults
    BY DEF OneDocumentPerFault
  <2>1. Cardinality(DocumentsOf(o, kind)) <= faults + (IF Made(o, kind) THEN 1 ELSE 0)
    BY <1>1 DEF DocsInv, CountInv
  <2>2. faults \in Nat /\ Cardinality(DocumentsOf(o, kind)) \in Nat
    BY <1>1, FaultsTyped, CountTyped
  <2>3. QED
    BY <2>1, <2>2
<1>2. QED
  BY <1>1, AlwaysContacted, AlwaysDocs, PTL

\* The sales order an order names is void exactly when the order is cancelled, unless
\* a void call was not answered or a thread wrote after a cancellation it had not seen.
THEOREM VoidIsCancelled == Spec => []VoidMeansCancelled
<1>1. DocsInv => VoidMeansCancelled
  BY DEF DocsInv, VoidInv, VoidMeansCancelled
<1>2. QED
  BY <1>1, AlwaysDocs, PTL

\* Between edits the sales order in Books of a pending order shows the last of them:
\* a thread that finds it later than the edit brings it up to date, unless another
\* updates it at the same time.
THEOREM SalesOrdersAreCurrent == Spec => []SalesOrderIsCurrent
<1>1. ASSUME Contacted, DocsInv
      PROVE  SalesOrderIsCurrent
  <2> SUFFICES ASSUME NEW o \in Orders \ raced, faults = 0, order[o].status = "pending",
                      order[o].link["salesorder"] # 0,
                      \A w \in Workers : At(w, "idle") \/ job[w].order # o
               PROVE  documents[order[o].link["salesorder"]].shows = order[o].edits
    BY DEF SalesOrderIsCurrent
  <2>1. manual
    BY <1>1 DEF DocsInv, LinksFit
  <2>2. ~Found(o)
    BY DEF Found, Finding, At
  <2>3. ASSUME NEW w \in Workers, Updating(w, o)
        PROVE  FALSE
    <3>1. job[w].at = "idle" /\ job[w].updates
      BY <2>3 DEF Updating, At
    <3>2. QED
      BY <1>1, <3>1 DEF DocsInv, JobDocs, JobPath, ContactSteps
  <2>4. QED
    BY <1>1, <2>1, <2>2, <2>3 DEF DocsInv, CurrentInv
<1>2. QED
  BY <1>1, AlwaysContacted, AlwaysDocs, PTL
=============================================================================
