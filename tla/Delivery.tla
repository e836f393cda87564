------------------------------ MODULE Delivery ------------------------------
(***************************************************************************)
(* One order that is paid at the door, by cash or by card: the stages of   *)
(* its delivery, the link to its invoice in Zoho Books, the collection of  *)
(* the money, the payment and the journals booked for it.                  *)
(*                                                                         *)
(* A request is served by a thread as a plan, the sequence of the steps it *)
(* still has to take.  The code composes every endpoint from the same few  *)
(* services, and a step is what one of them does between two points where  *)
(* another thread may run.  A step that fails ends the request.  A step    *)
(* that writes the order row waits while a transaction has locked it.      *)
(***************************************************************************)
EXTENDS Integers, Sequences, FiniteSets

CONSTANTS Workers, None,
          Methods,       \* payment methods the order may have
          Requests,      \* for each method, the endpoints that are called
          MaxInvoices,   \* bound: invoices in Books, of this order or another
          MaxSessions,   \* bound: Geidea sessions of the order
          MaxFaults      \* bound: failed or unanswered calls, threads that die

ASSUME WorkersAssumption == IsFiniteSet(Workers)
ASSUME NoneAssumption == None \notin Workers

Cash == "cash_on_delivery"
Card == "card_on_delivery"

ASSUME MethodAssumption == Methods \subseteq {Cash, Card}

ASSUME BoundAssumption == {MaxInvoices, MaxSessions, MaxFaults} \subseteq Nat

VARIABLES
  order,     \* the row
  lock,      \* the thread whose transaction holds the row
  log,       \* ZohoBooksJournalLog: the outcome for each type of journal
  invoices,  \* in Books, in the order of their creation
  booked,    \* in Books: payments, journals of each type; a journal was retried by hand
  charged,   \* sessions in which the customer paid by card
  mails,     \* out for delivery mails sent
  faults,    \* what went wrong so far
  raced,     \* two threads posted the same journal at a time
  job        \* [Workers -> the request being served]

vars == <<order, lock, log, invoices, booked, charged, mails, faults, raced, job>>

\* Of the stages before "out_for_delivery" only the first is kept.
Stages == {"pending", "out_for_delivery", "delivered"}
JournalTypes == {"payment_charge", "vat_charge"}
Outcomes == {"none", "posted", "failed"}

OrderRow == [method: {Cash, Card}, status: {"pending_zoho_sync", "synced", "cancelled"},
             stage: Stages, paid: BOOLEAN, invoice: 0..MaxInvoices, payment: BOOLEAN,
             mailed: BOOLEAN, ref: 0..MaxSessions]

\* own: of this order's sales order.  Only a sent invoice has a balance due.
Invoice == [own: BOOLEAN, status: {"draft", "sent", "paid", "void"}]

Steps == {"write", "mail", "mailed", "ensure", "link", "ready", "invoiced", "deliver",
          "book", "record", "post", "save", "cash", "session", "charge", "given",
          "verify", "invoice", "mark", "mark_post", "mark_save", "charge_journal",
          "charge_log", "vat_journal", "vat_log", "charge_retry", "vat_retry"}

\* What a request keeps of the row it read.
Seen == [status |-> order.status, stage |-> order.stage, mailed |-> order.mailed,
         invoice |-> order.invoice]

SeenRow == [status: {"pending_zoho_sync", "synced", "cancelled"}, stage: Stages,
            mailed: BOOLEAN, invoice: 0..MaxInvoices]

JobState == [plan: Seq(Steps), seen: SeenRow, target: Stages, invoice: 0..MaxInvoices,
             outcome: Outcomes]

Idle == [plan |-> <<>>, target |-> "delivered", invoice |-> 0, outcome |-> "none",
         seen |-> [status |-> "synced", stage |-> "pending", mailed |-> FALSE, invoice |-> 0]]

Init ==
  /\ \E method \in Methods :
       order = [method |-> method, status |-> "pending_zoho_sync", stage |-> "pending",
                paid |-> FALSE, invoice |-> 0, payment |-> FALSE, mailed |-> FALSE, ref |-> 0]
  /\ lock = None
  /\ log = [t \in JournalTypes |-> "none"]
  /\ invoices = <<>>
  /\ booked = [payments |-> 0, journals |-> [t \in JournalTypes |-> 0], retried |-> FALSE]
  /\ charged = {} /\ mails = 0 /\ faults = 0 /\ raced = FALSE
  /\ job = [w \in Workers |-> Idle]

booksVars == <<invoices, booked, log, raced>>
doorVars == <<charged, mails>>

-----------------------------------------------------------------------------
Cancelled == order.status = "cancelled"
Unlocked == lock = None
At(w, step) == job[w].plan # <<>> /\ Head(job[w].plan) = step
Rest(w) == Tail(job[w].plan)
\* A request forgets what no step to come will read.
Needed(plan, steps, value, none) ==
  IF \E k \in DOMAIN plan : plan[k] \in steps THEN value ELSE none
Kept(state, plan) ==
  [plan |-> plan, outcome |-> state.outcome,
   seen |-> Needed(plan, {"write", "ensure", "link", "mark"}, state.seen, Idle.seen),
   target |-> Needed(plan, {"write"}, state.target, Idle.target),
   invoice |-> Needed(plan, {"post", "mark_post"}, state.invoice, 0)]
Proceed(w, plan) == job' = [job EXCEPT ![w] = Kept(@, plan)]
Continue(w) == Proceed(w, Rest(w))
\* The next step starts from the row as it is now.
Refresh(w, plan) == job' = [job EXCEPT ![w].plan = plan, ![w].seen = Seen]
End(w) == job' = [job EXCEPT ![w] = Idle]
Fault == faults < MaxFaults /\ faults' = faults + 1
NoFault == faults' = faults

Called(request) == request \in Requests[order.method]
Accept(w, request) == Called(request) /\ job[w].plan = <<>>
Start(w, plan) ==
  /\ job' = [job EXCEPT ![w] = [Idle EXCEPT !.plan = plan, !.seen = Seen]]
  /\ UNCHANGED <<order, lock, booksVars, doorVars, faults>>

Journals == <<"charge_journal", "charge_log", "vat_journal", "vat_log">>
Finalize == <<"deliver", "record", "post", "save">> \o Journals

-----------------------------------------------------------------------------
(***************************************************************************)
(* The stages of the delivery.                                             *)
(***************************************************************************)

\* Wrong: staff hand a card order over before the card has paid.
AnyCardDelivered == order.method = Card

\* Cash is collected through collect-cod, a card must have paid.
MayBeDelivered == order.method = Card /\ order.paid

PatchStatus(w, stage) ==
  /\ Accept(w, "patch")
  /\ stage = "delivered" => MayBeDelivered
  /\ job' = [job EXCEPT ![w] = [Idle EXCEPT !.plan = <<"write">>, !.target = stage,
                                            !.seen = Seen]]
  /\ UNCHANGED <<order, lock, booksVars, doorVars, faults>>

\* maybe_auto_mark_delivered_on_payment
Deliver(w) ==
  /\ At(w, "deliver")
  /\ IF Cancelled \/ order.stage = "delivered" THEN Continue(w)
     ELSE job' = [job EXCEPT ![w].plan = <<"write">> \o Rest(w), ![w].seen = Seen,
                             ![w].target = "delivered"]
  /\ UNCHANGED <<order, lock, booksVars, doorVars, faults>>

\* The stage is saved, and the status if the row that was read was not synced.
WriteStage(w) ==
  LET seen == job[w].seen  stage == job[w].target
  IN /\ At(w, "write")
     /\ Unlocked
     /\ order' = [order EXCEPT !.stage = stage,
                    !.status = IF seen.status = "pending_zoho_sync" THEN "synced" ELSE @]
     /\ IF stage = "out_for_delivery" /\ seen.stage # "out_for_delivery" /\ ~seen.mailed
        THEN Proceed(w, <<"mail", "mailed">> \o Rest(w)) ELSE Continue(w)
     /\ UNCHANGED <<lock, booksVars, doorVars, faults>>

SendMail(w) ==
  /\ At(w, "mail")
  /\ \/ mails' = mails + 1 /\ Continue(w) /\ NoFault
     \/ mails' = mails /\ Fault /\ Proceed(w, Tail(Rest(w)))
  /\ UNCHANGED <<order, lock, booksVars, charged>>

SaveMailed(w) ==
  /\ At(w, "mailed")
  /\ Unlocked
  /\ order' = [order EXCEPT !.mailed = TRUE]
  /\ Continue(w)
  /\ UNCHANGED <<lock, booksVars, doorVars, faults>>

\* cancel_order; its refund of a card is the subject of PrepaidOrders.
Cancel(customer) ==
  /\ Called("cancel")
  /\ Unlocked
  /\ ~Cancelled /\ order.invoice = 0
  /\ customer => order.stage = "pending"
  /\ order' = [order EXCEPT !.status = "cancelled"]
  /\ UNCHANGED <<lock, booksVars, doorVars, faults, job>>

-----------------------------------------------------------------------------
(***************************************************************************)
(* The invoice.                                                            *)
(***************************************************************************)
Own(i) == i # 0 /\ invoices[i].own

\* Staff work in Zoho Books itself.
StaffInvoiceInBooks(own, status) ==
  /\ Called("books")
  /\ Len(invoices) < MaxInvoices
  /\ invoices' = Append(invoices, [own |-> own, status |-> status])
  /\ UNCHANGED <<order, lock, booked, log, raced, doorVars, faults, job>>

StaffVoidInBooks(i) ==
  /\ Called("books")
  /\ invoices[i].status \in {"draft", "sent"}
  /\ invoices' = [invoices EXCEPT ![i].status = "void"]
  /\ UNCHANGED <<order, lock, booked, log, raced, doorVars, faults, job>>

\* create-invoice: the order must not be cancelled nor have an invoice, ...
CreateInvoice(w) ==
  /\ Accept(w, "invoice")
  /\ ~Cancelled /\ order.invoice = 0
  /\ Start(w, <<"invoice">>)

\* ... and under the lock only the latter is looked at again.  An invoice that
\* could not be marked sent stays a draft; if Books' answer is lost it stays unknown.
SaveInvoice(w) ==
  /\ At(w, "invoice")
  /\ Unlocked
  /\ IF order.invoice # 0 THEN UNCHANGED <<order, invoices, faults>>
     ELSE /\ Len(invoices) < MaxInvoices
          /\ \E known \in BOOLEAN, status \in {"draft", "sent"} :
               /\ invoices' = Append(invoices, [own |-> TRUE, status |-> status])
               /\ order' = [order EXCEPT !.invoice = IF known THEN Len(invoices) + 1 ELSE 0]
               /\ IF known /\ status = "sent" THEN NoFault ELSE Fault
  /\ End(w)
  /\ UNCHANGED <<lock, booked, log, raced, doorVars>>

\* Wrong: the link is cleared without a look at Books.
EnsureByClearing(w) ==
  /\ At(w, "ensure")
  /\ Unlocked
  /\ order' = [order EXCEPT !.invoice = 0]
  /\ Proceed(w, <<"link">> \o Rest(w))
  /\ UNCHANGED <<lock, booksVars, doorVars, faults>>

\* ensure_zoho_books_invoice_for_order: a link that cannot be confirmed is cleared.
EnsureInvoice(w) ==
  LET linked == job[w].seen.invoice
  IN /\ At(w, "ensure")
     /\ \/ /\ linked # 0 /\ Own(linked)
           /\ Continue(w)
           /\ NoFault /\ UNCHANGED order
        \/ /\ linked = 0
           /\ Proceed(w, <<"link">> \o Rest(w))
           /\ NoFault /\ UNCHANGED order
        \/ /\ linked # 0
           /\ IF Own(linked) THEN Fault ELSE NoFault
           /\ Unlocked
           /\ order' = [order EXCEPT !.invoice = 0]
           /\ Proceed(w, <<"link">> \o Rest(w))
     /\ UNCHANGED <<lock, booksVars, doorVars>>

Candidates == {i \in DOMAIN invoices : invoices[i].own /\ invoices[i].status # "void"}
Unpaid == {i \in Candidates : invoices[i].status = "sent"}

\* _pick_invoice_for_order
Pick == IF Unpaid # {} THEN Unpaid ELSE Candidates

\* Only collect-cod minds the result of the link, the others look at the row.
LinkFails(w) == IF Rest(w)[1] = "ready" THEN End(w) ELSE Continue(w)

\* sync_zoho_books_invoice_for_order_from_books
LinkInvoice(w) ==
  /\ At(w, "link")
  /\ \/ /\ job[w].seen.status # "cancelled"
        /\ Unlocked
        /\ \E i \in Pick : order' = [order EXCEPT !.invoice = i]
        /\ Continue(w) /\ NoFault
     \/ /\ \/ (job[w].seen.status = "cancelled" \/ Pick = {}) /\ NoFault
           \/ Fault
        /\ LinkFails(w) /\ UNCHANGED order
  /\ UNCHANGED <<lock, booksVars, doorVars>>

\* The checks after the link: order_ready_for_cod_collect, ..._card_on_delivery_collect
Ready(w) ==
  /\ At(w, "ready") \/ At(w, "invoiced")
  /\ IF order.invoice # 0 /\ (At(w, "ready") => ~order.payment)
     THEN Continue(w) ELSE End(w)
  /\ UNCHANGED <<order, lock, booksVars, doorVars, faults>>

-----------------------------------------------------------------------------
(***************************************************************************)
(* Booking the payment: staff_record_zoho_books_payment_for_order.         *)
(***************************************************************************)
Payable(i) == invoices[i].status = "sent"

\* Wrong: an order whose payment cannot be recorded goes on to the journals.
RecordOrSkip(w) ==
  /\ At(w, "record")
  /\ Unlocked
  /\ IF Cancelled \/ order.payment \/ ~Own(order.invoice) \/ ~Payable(order.invoice)
     THEN Proceed(w, Tail(Tail(Rest(w)))) /\ UNCHANGED lock
     ELSE lock' = w /\ job' = [job EXCEPT ![w].plan = Rest(w), ![w].invoice = order.invoice]
  /\ UNCHANGED <<order, booksVars, doorVars, faults>>

\* The order is locked and checked, the invoice is read from Books.
RecordPayment(w) ==
  /\ At(w, "record")
  /\ Unlocked
  /\ IF Cancelled \/ order.payment \/ ~Own(order.invoice) \/ ~Payable(order.invoice)
     THEN End(w) /\ NoFault /\ UNCHANGED lock
     ELSE \/ /\ lock' = w /\ NoFault
             /\ job' = [job EXCEPT ![w].plan = Rest(w), ![w].invoice = order.invoice]
          \/ End(w) /\ Fault /\ UNCHANGED lock
  /\ UNCHANGED <<order, booksVars, doorVars>>

\* Books takes a payment for an invoice with a balance.  Its answer may be lost.
Pay(i) ==
  /\ invoices' = [invoices EXCEPT ![i].status = "paid"]
  /\ booked' = [booked EXCEPT !.payments = @ + 1]

PostPayment(w) ==
  LET i == job[w].invoice
  IN /\ At(w, "post")
     /\ \/ Payable(i) /\ Pay(i) /\ Continue(w) /\ NoFault /\ UNCHANGED lock
        \/ /\ End(w) /\ lock' = None
           /\ \/ ~Payable(i) /\ NoFault /\ UNCHANGED <<invoices, booked>>
              \/ Fault /\ UNCHANGED <<invoices, booked>>
              \/ Fault /\ Payable(i) /\ Pay(i)
     /\ UNCHANGED <<order, log, raced, doorVars>>

SavePayment(w) ==
  /\ At(w, "save")
  /\ order' = [order EXCEPT !.payment = TRUE]
  /\ lock' = None
  /\ Continue(w)
  /\ UNCHANGED <<booksVars, doorVars, faults>>

-----------------------------------------------------------------------------
(***************************************************************************)
(* Cash: collect-cod.                                                      *)
(***************************************************************************)
CollectCash(w) ==
  /\ Accept(w, "cash")
  /\ order.method = Cash /\ ~Cancelled
  /\ ~(order.stage = "delivered" /\ order.payment)
  /\ Start(w, <<"ensure", "ready", "deliver", "book">>)

\* Wrong: a payment that could not be booked does not end the collection of cash.
BookCashAnyway(w) ==
  /\ At(w, "book")
  /\ Refresh(w, <<"cash">>)
  /\ UNCHANGED <<order, lock, booksVars, doorVars, faults>>

\* maybe_auto_record_payment_on_delivered
BookCash(w) ==
  /\ At(w, "book")
  /\ Refresh(w, IF order.payment THEN <<"cash">>
                ELSE <<"ensure", "invoiced", "record", "post", "save", "cash">>)
  /\ UNCHANGED <<order, lock, booksVars, doorVars, faults>>

\* _mark_cod_payment_collected
MarkCashPaid(w) ==
  /\ At(w, "cash")
  /\ Unlocked
  /\ order' = [order EXCEPT !.paid = TRUE]
  /\ Continue(w)
  /\ UNCHANGED <<lock, booksVars, doorVars, faults>>

-----------------------------------------------------------------------------
(***************************************************************************)
(* Card: geidea-collect, the callback, geidea-reconcile, collect-card.     *)
(***************************************************************************)
AwaitsCard ==
  /\ order.method = Card /\ ~Cancelled /\ ~order.paid
  /\ order.stage = "out_for_delivery"

GeideaCollect(w) ==
  /\ Accept(w, "card")
  /\ AwaitsCard
  /\ Start(w, <<"ensure", "invoiced", "session">>)

OpenSession(w) ==
  /\ At(w, "session")
  /\ Unlocked
  /\ order.ref < MaxSessions
  /\ order' = [order EXCEPT !.ref = @ + 1]
  /\ Continue(w)
  /\ UNCHANGED <<lock, booksVars, doorVars, faults>>

CustomerTaps(ref) ==
  /\ charged' = charged \cup {ref}
  /\ UNCHANGED <<order, lock, booksVars, mails, faults, job>>

\* The callback of Geidea finds the order by the reference of its last session.
Callback(w) ==
  /\ Accept(w, "card")
  /\ order.ref \in charged /\ ~order.paid
  /\ Unlocked
  /\ order' = [order EXCEPT !.paid = TRUE]
  /\ job' = [job EXCEPT ![w] = [Idle EXCEPT !.plan = Finalize, !.seen = Seen]]
  /\ UNCHANGED <<lock, booksVars, doorVars, faults>>

\* reconcile_missed_geidea_callback reads the order and asks Geidea ...
Reconcile(w) ==
  /\ Accept(w, "card")
  /\ order.method = Card
  /\ order.ref \in charged /\ ~order.paid
  /\ Start(w, <<"charge">> \o Finalize)

\* ... and under the lock leaves an order that was paid meanwhile alone.
RecordCharge(w) ==
  /\ At(w, "charge")
  /\ Unlocked
  /\ IF order.paid THEN End(w) /\ UNCHANGED order
     ELSE order' = [order EXCEPT !.paid = TRUE] /\ Continue(w)
  /\ UNCHANGED <<lock, booksVars, doorVars, faults>>

\* submit_card_on_delivery_collection, of a payment already recorded or not.
CollectCard(w) ==
  /\ Accept(w, "card")
  /\ order.method = Card /\ ~Cancelled
  /\ \/ AwaitsCard /\ Start(w, <<"ensure", "invoiced", "given", "verify">> \o Finalize)
     \/ order.paid /\ ~order.payment /\ Start(w, <<"given", "verify">> \o Finalize)

\* _validate_and_link_invoice
LinkGiven(w) ==
  /\ At(w, "given")
  /\ Unlocked
  /\ \/ order.invoice = 0
        /\ \E i \in DOMAIN invoices : Own(i) /\ order' = [order EXCEPT !.invoice = i]
        /\ Continue(w)
     \/ Own(order.invoice) /\ Continue(w) /\ UNCHANGED order
     \/ End(w) /\ UNCHANGED order
  /\ UNCHANGED <<lock, booksVars, doorVars, faults>>

VerifyCharge(w) ==
  /\ At(w, "verify")
  /\ Unlocked
  /\ IF order.ref \in charged THEN order' = [order EXCEPT !.paid = TRUE] /\ Continue(w)
     ELSE End(w) /\ UNCHANGED order
  /\ UNCHANGED <<lock, booksVars, doorVars, faults>>

\* verify-payment of a card order: pending payments are refused.
VerifyPayment(w) ==
  /\ Accept(w, "verify")
  /\ order.method = Card /\ order.paid
  /\ order.invoice # 0 /\ ~order.payment
  /\ Start(w, <<"record", "post", "save", "deliver">>)

-----------------------------------------------------------------------------
(***************************************************************************)
(* mark-cod-paid books the payment by itself and takes no lock.            *)
(***************************************************************************)
MarkCodPaid(w) ==
  /\ Accept(w, "mark")
  /\ ~order.payment
  /\ Start(w, <<"mark", "mark_post", "mark_save">> \o Journals)

\* The invoice is the first of the sales order, marked sent if it is a draft, or
\* any invoice the request names.
MarkFindInvoice(w) ==
  /\ At(w, "mark")
  /\ \E i \in DOMAIN invoices, named \in BOOLEAN :
       /\ named \/ (Own(i) /\ \A k \in 1..(i - 1) : ~Own(k))
       /\ named \/ invoices[i].status \in {"draft", "sent"}
       /\ invoices' = IF named THEN invoices ELSE [invoices EXCEPT ![i].status = "sent"]
       /\ IF job[w].seen.invoice # 0 THEN UNCHANGED order
          ELSE Unlocked /\ order' = [order EXCEPT !.invoice = i]
       /\ job' = [job EXCEPT ![w].plan = Rest(w), ![w].invoice = i]
  /\ UNCHANGED <<lock, booked, log, raced, doorVars, faults>>

MarkNotFound(w) ==
  /\ At(w, "mark")
  /\ End(w)
  /\ UNCHANGED <<order, lock, booksVars, doorVars, faults>>

MarkPost(w) ==
  LET i == job[w].invoice
  IN /\ At(w, "mark_post")
     /\ \/ Payable(i) /\ Pay(i) /\ Continue(w) /\ NoFault
        \/ /\ End(w)
           /\ \/ ~Payable(i) /\ NoFault /\ UNCHANGED <<invoices, booked>>
              \/ Fault /\ UNCHANGED <<invoices, booked>>
              \/ Fault /\ Payable(i) /\ Pay(i)
     /\ UNCHANGED <<order, lock, log, raced, doorVars>>

MarkSave(w) ==
  /\ At(w, "mark_save")
  /\ Unlocked
  /\ order' = [order EXCEPT !.payment = TRUE, !.paid = TRUE]
  /\ Continue(w)
  /\ UNCHANGED <<lock, booksVars, doorVars, faults>>

-----------------------------------------------------------------------------
(***************************************************************************)
(* create_payment_journals_for_order: an attempt is logged, whatever came  *)
(* of it, and a logged journal is not attempted again.                     *)
(***************************************************************************)
Posting(w, t) ==
  At(w, IF t = "payment_charge" THEN "charge_journal" ELSE "vat_journal")
Logging(w, t) ==
  At(w, IF t = "payment_charge" THEN "charge_log" ELSE "vat_log")

Retrying(w, t) ==
  At(w, IF t = "payment_charge" THEN "charge_retry" ELSE "vat_retry")

\* The journal is made or not, and its answer arrives or not.
Attempt(w, t) ==
  \E made, answered \in BOOLEAN :
    /\ answered => made
    /\ IF answered THEN NoFault ELSE Fault
    /\ booked' = [booked EXCEPT !.journals[t] = IF made THEN @ + 1 ELSE @,
                                !.retried = @ \/ Retrying(w, t)]
    /\ raced' = (raced \/ \E v \in Workers \ {w} : Logging(v, t))
    /\ job' = [job EXCEPT ![w].plan = Rest(w),
                          ![w].outcome = IF answered THEN "posted" ELSE "failed"]

\* Wrong: the log is not looked at.
PostJournalAgain(w, t) ==
  /\ Posting(w, t)
  /\ Attempt(w, t)
  /\ UNCHANGED <<order, lock, invoices, log, doorVars>>

PostJournal(w, t) ==
  /\ Posting(w, t)
  /\ IF log[t] # "none"
     THEN Proceed(w, Tail(Rest(w))) /\ NoFault /\ UNCHANGED <<booked, raced>>
     ELSE Attempt(w, t)
  /\ UNCHANGED <<order, lock, invoices, log, doorVars>>

\* Staff retry a journal whose log has no number; Books is not asked first.
RetryJournal(w, t) ==
  /\ Accept(w, "retry")
  /\ log[t] = "failed"
  /\ Start(w, IF t = "payment_charge" THEN <<"charge_retry", "charge_log">>
              ELSE <<"vat_retry", "vat_log">>)

PostRetry(w, t) ==
  /\ Retrying(w, t)
  /\ Attempt(w, t)
  /\ UNCHANGED <<order, lock, invoices, log, doorVars>>

LogJournal(w, t) ==
  /\ Logging(w, t)
  /\ log' = [log EXCEPT ![t] = job[w].outcome]
  /\ job' = [job EXCEPT ![w] = [Kept(@, Rest(w)) EXCEPT !.outcome = "none"]]
  /\ UNCHANGED <<order, lock, invoices, booked, raced, doorVars, faults>>

\* A thread dies; its transaction is rolled back.
Die(w) ==
  /\ job[w].plan # <<>>
  /\ Fault
  /\ End(w)
  /\ lock' = IF lock = w THEN None ELSE lock
  /\ UNCHANGED <<order, booksVars, doorVars>>

-----------------------------------------------------------------------------
Request(w) ==
  \/ \E stage \in Stages : PatchStatus(w, stage)
  \/ CreateInvoice(w) \/ CollectCash(w) \/ GeideaCollect(w) \/ Callback(w) \/ Reconcile(w)
  \/ CollectCard(w) \/ VerifyPayment(w) \/ MarkCodPaid(w)
  \/ \E t \in JournalTypes : RetryJournal(w, t)

Step(w) ==
  \/ Deliver(w) \/ WriteStage(w) \/ SendMail(w) \/ SaveMailed(w) \/ SaveInvoice(w)
  \/ EnsureInvoice(w) \/ LinkInvoice(w) \/ Ready(w) \/ RecordPayment(w) \/ PostPayment(w)
  \/ SavePayment(w) \/ BookCash(w) \/ MarkCashPaid(w) \/ OpenSession(w) \/ RecordCharge(w)
  \/ LinkGiven(w) \/ VerifyCharge(w) \/ MarkFindInvoice(w) \/ MarkNotFound(w) \/ MarkPost(w)
  \/ MarkSave(w) \/ \E t \in JournalTypes : PostJournal(w, t) \/ PostRetry(w, t) \/ LogJournal(w, t)

Next ==
  \/ \E w \in Workers : Request(w) \/ Step(w) \/ Die(w)
  \/ \E customer \in BOOLEAN : Cancel(customer)
  \/ \E own \in BOOLEAN, status \in {"draft", "sent"} : StaffInvoiceInBooks(own, status)
  \/ \E i \in DOMAIN invoices : StaffVoidInBooks(i)
  \/ \E ref \in 1..order.ref : CustomerTaps(ref)

Spec == Init /\ [][Next]_vars

-----------------------------------------------------------------------------
TypeOK ==
  /\ order \in OrderRow /\ lock \in Workers \cup {None}
  /\ log \in [JournalTypes -> Outcomes]
  /\ invoices \in Seq(Invoice) /\ Len(invoices) <= MaxInvoices
  /\ booked \in [payments : Nat, journals : [JournalTypes -> Nat], retried : BOOLEAN]
  /\ charged \subseteq 1..MaxSessions /\ mails \in Nat
  /\ faults \in 0..MaxFaults /\ raced \in BOOLEAN
  /\ job \in [Workers -> JobState]

\* A card order is handed over only when it is paid: whichever of callback,
\* reconciliation, driver and staff moves it to "delivered", and whatever they
\* had read before.
CardDeliveredIsPaid ==
  order.method = Card /\ order.stage = "delivered" => order.paid

\* A cash order is paid only when its payment is in Zoho Books.
CashPaidIsBooked ==
  order.method = Cash /\ order.paid => booked.payments > 0

\* Payment charge and VAT are booked once for a payment that was made.  Until staff
\* retry a journal by hand there are no more journals of a type than payments, though
\* answers are lost and threads die; and while every call is answered, a journal is
\* posted twice only by two threads that both found no log of it.
JournalsMatchPayments ==
  \A t \in JournalTypes :
    /\ ~booked.retried => booked.journals[t] <= booked.payments
    /\ faults = 0 /\ ~raced => booked.journals[t] <= 1

\* While every call is answered and staff name no invoice of another order, an order
\* whose payment is booked keeps a link to an invoice of its own.
BookedKeepsInvoice ==
  faults = 0 /\ order.payment /\ (\A i \in DOMAIN invoices : invoices[i].own)
    => Own(order.invoice)
=============================================================================
