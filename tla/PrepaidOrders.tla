---------------------------- MODULE PrepaidOrders ----------------------------
(***************************************************************************)
(* The life of an order that is paid online (payment gateway or pay by     *)
(* link), from the checkout to its invoice or its cancellation: the order  *)
(* row, the account credit of its customer, the Geidea gateway, the Zoho   *)
(* Books documents, and the requests and the scheduled job that work on    *)
(* them.                                                                   *)
(*                                                                         *)
(* One database transaction that holds the row locks is one step.  What    *)
(* the code does outside a transaction is a step of its own: an unlocked   *)
(* read, a call to Geidea or Zoho, the write of an object that was read    *)
(* before.  A request in flight is a thread with a local record; a thread  *)
(* may die between any two of its steps.                                   *)
(***************************************************************************)
EXTENDS CreditLedger, Geidea, OrderSyncState, FiniteSets, Functions

CONSTANTS
  Orders,
  Owner,     \* [Orders -> Users]
  Method,    \* [Orders -> {"payment_gateway", "pay_by_link"}]
  Amounts,   \* order totals, in AED
  Workers,   \* request threads of the web processes
  Sweeper,   \* the thread of the APScheduler job
  Refunded,  \* a Geidea refund transaction id
  Requests   \* the endpoints that are called

ASSUME OrdersAssumption == IsFiniteSet(Orders)
ASSUME OwnerAssumption == Owner \in [Orders -> Users]
ASSUME MethodAssumption ==
  Method \in [Orders -> {"payment_gateway", "pay_by_link"}]
ASSUME AmountsAssumption == Amounts \subseteq Nat \ {0}
ASSUME ThreadAssumption ==
  /\ Sweeper \notin Workers
  /\ None \notin Workers /\ Refunded \notin Workers /\ None # Refunded
  /\ None \notin Charges /\ None \notin Refs

VARIABLES
  db,     \* [Orders -> order row]
  zoho,   \* [Orders -> Nat]  customer payments recorded in Zoho Books
  job,    \* [Threads -> the local state of the request being served]
  sweep   \* stale orders the scheduled job read and has not handled yet

vars == <<db, balance, ledger, sessions, charges, zoho, job, sweep>>

Threads == Workers \cup {Sweeper}

(***************************************************************************)
(* Rows of the table Order, the columns the payment code reads.            *)
(*   stage       customer_tracking_stage: still pending, or beyond         *)
(*   refund      geidea_refund_id: empty, the claim token of the thread    *)
(*               that asks for the refund ('processing:<uuid>'), or an id  *)
(*   salesorder  zoho_books_salesorder_id, and the state of that document  *)
(*   old         created more than two hours ago                           *)
(***************************************************************************)
OrderRow ==
  [status: Statuses, stage: {"pending", "packed"}, total: Amounts,
   payment: {"pending", "paid"}, ref: Refs \cup {None},
   gatewayRef: Charges \cup {None}, prepaid: Nat, applied: Nat,
   refund: Workers \cup {None, Refunded},
   salesorder: {"none", "open", "void"}, invoice: BOOLEAN,
   booksPayment: BOOLEAN, old: BOOLEAN]

\* A row after the checkout, whose sales order may have been created or not.
NewOrder(total, salesorder) ==
  [status |-> "pending_zoho_sync", stage |-> "pending", total |-> total,
   payment |-> "pending", ref |-> None, gatewayRef |-> None, prepaid |-> 0,
   applied |-> 0, refund |-> None, salesorder |-> salesorder, invoice |-> FALSE,
   booksPayment |-> FALSE, old |-> FALSE]

(***************************************************************************)
(* A thread: the step it is at, the object it works on, and what it read   *)
(* of it before.                                                           *)
(***************************************************************************)
Steps == {"idle", "initiate", "advance_read", "advance_post", "advance_save",
          "cancel_issue", "cancel_finalize", "cancel_release", "cancel_commit",
          "invoice", "sync", "confirm", "restage", "edit", "profile", "reconcile",
          "sweep_cancel"}

RefundSteps == {"cancel_issue", "cancel_finalize", "cancel_release"}

JobState ==
  [pc: Steps, target: Orders \cup Users \cup {None}, customer: BOOLEAN,
   seen: Statuses \cup {None}, ref: Refs \cup {None}, amount: Nat,
   charge: Charges \cup {None}]

Idle == [pc |-> "idle", target |-> None, customer |-> FALSE, seen |-> None,
         ref |-> None, amount |-> 0, charge |-> None]

Serve(pc, x) == [Idle EXCEPT !.pc = pc, !.target = x]

At(t, pc) == job[t].pc = pc
Begin(t, j) == job[t] = Idle /\ job' = [job EXCEPT ![t] = j]
Goto(t, pc) == job' = [job EXCEPT ![t].pc = pc]
Finish(t) == job' = [job EXCEPT ![t] = Idle]

Snapshot == [order: Orders, seen: Statuses, ref: Refs \cup {None}]

\* What a step at pc holds in the local record of its thread.
OrderSteps == Steps \ {"idle", "profile"}

JobOK(j) ==
  /\ j.pc \in OrderSteps => j.target \in Orders
  /\ j.pc = "profile" => j.target \in Users
  /\ j.pc \in {"initiate", "edit"} => j.amount \in Amounts
  /\ j.pc = "reconcile" => j.charge \in Charges

\* The typing of the state; the balance of a user is never negative.
DbOK == db \in [Orders -> OrderRow]
WalletOK ==
  /\ balance \in [Users -> Nat]
  /\ ledger \in [Users -> Seq(LedgerRow(Orders))]
GatewayOK ==
  /\ sessions \subseteq [ref: Refs, amount: Amounts]
  /\ charges \in [Charges -> Charge(Amounts)]
JobsOK == job \in [Threads -> JobState] /\ \A t \in Threads : JobOK(job[t])

TypeOK ==
  /\ DbOK
  /\ WalletOK
  /\ GatewayOK
  /\ JobsOK
  /\ zoho \in [Orders -> Nat]
  /\ sweep \subseteq Snapshot

Init ==
  /\ db \in [Orders -> {NewOrder(a, d) : a \in Amounts, d \in {"none", "open"}}]
  /\ LedgerInit
  /\ GeideaInit
  /\ zoho = [o \in Orders |-> 0]
  /\ job = [t \in Threads |-> Idle]
  /\ sweep = {}

-----------------------------------------------------------------------------
(***************************************************************************)
(* Documents and time.                                                     *)
(***************************************************************************)

\* The Zoho Books sales order is created after the checkout, by the checkout
\* worker or by a payment initiation: the status is checked before the lock is
\* taken, only the missing document under it.
SyncCheck(w, o) ==
  /\ "sync" \in Requests
  /\ db[o].status # "cancelled"
  /\ db[o].salesorder = "none"
  /\ Begin(w, Serve("sync", o))
  /\ UNCHANGED <<db, walletVars, geideaVars, zoho, sweep>>

SyncCommit(w) ==
  /\ At(w, "sync")
  /\ db[job[w].target].salesorder = "none"
  /\ db' = [db EXCEPT ![job[w].target].salesorder = "open"]
  /\ Finish(w)
  /\ UNCHANGED <<walletVars, geideaVars, zoho, sweep>>

\* Somebody else created it, or Zoho fails.
SyncFails(w) ==
  /\ At(w, "sync")
  /\ Finish(w)
  /\ UNCHANGED <<db, walletVars, geideaVars, zoho, sweep>>

\* Two hours pass since the order was placed.
Age(o) ==
  /\ "sweep" \in Requests
  /\ ~db[o].old
  /\ db' = [db EXCEPT ![o].old = TRUE]
  /\ UNCHANGED <<walletVars, geideaVars, zoho, job, sweep>>

-----------------------------------------------------------------------------
(***************************************************************************)
(* Starting a payment: POST geidea/initiate and POST paybylink/initiate.   *)
(* The order is read and checked without a lock.                           *)
(***************************************************************************)
InitiateRead(w, o) ==
  /\ "initiate" \in Requests
  /\ db[o].payment # "paid"
  /\ db[o].status # "cancelled"
  /\ Begin(w, [Serve("initiate", o) EXCEPT !.ref = db[o].ref,
                                           !.amount = db[o].total])
  /\ UNCHANGED <<db, walletVars, geideaVars, zoho, sweep>>

FreshRefs ==
  Refs \ ({db[o].ref : o \in Orders} \cup {s.ref : s \in sessions}
          \cup {charges[c].ref : c \in Charges} \cup {job[t].ref : t \in Threads}
          \cup {s.ref : s \in sweep})

\* create_geidea_session on the object the request read: a reference is
\* generated and saved when that object had none; Geidea may refuse.
InitiateSession(w) ==
  /\ At(w, "initiate")
  /\ Method[job[w].target] = "payment_gateway"
  /\ LET o == job[w].target IN
       /\ db[o].salesorder # "none"
       /\ \E r \in (IF job[w].ref # None THEN {job[w].ref} ELSE FreshRefs) :
            /\ db' = [db EXCEPT ![o].ref = IF job[w].ref = None THEN r ELSE @]
            /\ \/ OpenSession(r, job[w].amount)
               \/ UNCHANGED sessions
  /\ Finish(w)
  /\ UNCHANGED <<walletVars, charges, zoho, sweep>>

\* create_geidea_payment_link under the row lock: an order that has a link
\* returns it; if Geidea refuses, the transaction rolls back.
InitiateLink(w) ==
  /\ At(w, "initiate")
  /\ Method[job[w].target] = "pay_by_link"
  /\ LET o == job[w].target IN
       \E r \in FreshRefs :
         /\ db[o].ref = None
         /\ db' = [db EXCEPT ![o].ref = r]
         /\ OpenSession(r, db[o].total)
  /\ Finish(w)
  /\ UNCHANGED <<walletVars, charges, zoho, sweep>>

\* Geidea or Zoho refuses, or the stored link is returned.
InitiateEnds(w) ==
  /\ At(w, "initiate")
  /\ Finish(w)
  /\ UNCHANGED <<db, walletVars, geideaVars, zoho, sweep>>

CustomerPays(c, s) ==
  /\ Capture(c, s)
  /\ UNCHANGED <<db, walletVars, zoho, job, sweep>>

-----------------------------------------------------------------------------
(***************************************************************************)
(* Recording a payment.                                                    *)
(***************************************************************************)
\* Mutants: the amount is not compared; a paid order is credited again.
AnyAmountMatches(o, amount) == amount > 0
PaidAgain(o) == db[o].total > 0

AmountMatches(o, amount) == amount = db[o].total
NotYetPaid(o) == db[o].payment # "paid"

PaymentKind(o) ==
  IF Method[o] = "pay_by_link" THEN "paylink_payment" ELSE "gateway_payment"

\* credit_user_for_prepaid_order, in the caller's transaction.
CreditPrepaid(o, amount, gw) ==
  /\ AmountMatches(o, amount)
  /\ NotYetPaid(o)
  /\ PostEntry(Owner[o], o, PaymentKind(o), amount)
  /\ db' = [db EXCEPT ![o].payment = "paid", ![o].prepaid = amount,
                      ![o].gatewayRef = IF gw # None THEN gw ELSE @]

\* A verified callback of Geidea, at any time after the charge and any number
\* of times; it finds the order by its merchant reference.  (A callback that
\* finds no order, a paid order or another amount changes nothing.)
Callback(w, c) ==
  /\ job[w] = Idle
  /\ charges[c].state # "none"
  /\ \E o \in Orders :
       /\ db[o].ref = charges[c].ref
       /\ CreditPrepaid(o, charges[c].amount, c)
       /\ job' = [job EXCEPT ![w] = Serve("advance_read", o)]
  /\ UNCHANGED <<geideaVars, zoho, sweep>>

\* The status poll of the customer: Geidea is asked without a lock ...
ReconcileRead(w, o) ==
  /\ "status" \in Requests
  /\ NotYetPaid(o)
  /\ \E c \in PaidCharges(db[o].ref) :
       /\ AmountMatches(o, charges[c].amount)
       /\ Begin(w, [Serve("reconcile", o) EXCEPT !.charge = c])
  /\ UNCHANGED <<db, walletVars, geideaVars, zoho, sweep>>

\* ... and its answer is recorded under the lock.
ReconcileWrite(w) ==
  /\ At(w, "reconcile")
  /\ LET o == job[w].target
         c == job[w].charge IN
       \/ /\ CreditPrepaid(o, charges[c].amount, c)
          /\ job' = [job EXCEPT ![w] = Serve("advance_read", o)]
       \/ /\ ~(NotYetPaid(o) /\ AmountMatches(o, charges[c].amount))
          /\ Finish(w)
          /\ UNCHANGED <<db, walletVars>>
  /\ UNCHANGED <<geideaVars, zoho, sweep>>

\* record_prepaid_payment_success: a member of staff records a payment of the
\* order's total, with or without the Geidea order id.
RecordPaymentSuccess(o, gw) ==
  /\ "staff_success" \in Requests
  /\ gw # None => gw \in PaidCharges(db[o].ref) /\ AmountMatches(o, charges[gw].amount)
  /\ db[o].status # "cancelled"
  /\ CreditPrepaid(o, db[o].total, gw)
  /\ UNCHANGED <<geideaVars, zoho, job, sweep>>

(***************************************************************************)
(* create_zoho_books_advance_payment_for_order, after the payment was      *)
(* committed and outside any lock: read the order, POST the customer       *)
(* payment, save its id.                                                   *)
(***************************************************************************)
AdvanceRead(t) ==
  /\ At(t, "advance_read")
  /\ LET o == job[t].target IN
       IF ~db[o].booksPayment /\ db[o].salesorder # "none"
       THEN Goto(t, "advance_post") ELSE Finish(t)
  /\ UNCHANGED <<db, walletVars, geideaVars, zoho, sweep>>

AdvancePost(t) ==
  /\ At(t, "advance_post")
  /\ zoho' = [zoho EXCEPT ![job[t].target] = @ + 1]
  /\ Goto(t, "advance_save")
  /\ UNCHANGED <<db, walletVars, geideaVars, sweep>>

AdvanceFails(t) ==
  /\ At(t, "advance_post")
  /\ Finish(t)
  /\ UNCHANGED <<db, walletVars, geideaVars, zoho, sweep>>

AdvanceSave(t) ==
  /\ At(t, "advance_save")
  /\ db' = [db EXCEPT ![job[t].target].booksPayment = TRUE]
  /\ Finish(t)
  /\ UNCHANGED <<walletVars, geideaVars, zoho, sweep>>

-----------------------------------------------------------------------------
(***************************************************************************)
(* The stale order job: the queryset is read once, then each order is      *)
(* reconciled with Geidea or cancelled, from the object that was read.     *)
(***************************************************************************)
\* A mutant: the job leaves out the orders it cancelled itself.
StaleAndOpen(o) ==
  db[o].old /\ db[o].payment = "pending" /\ db[o].status # "cancelled"

Stale(o) == db[o].old /\ db[o].payment = "pending"

SweepStart ==
  /\ job[Sweeper] = Idle
  /\ sweep = {}
  /\ sweep' = {[order |-> o, seen |-> db[o].status, ref |-> db[o].ref] :
                 o \in {x \in Orders : Stale(x)}}
  /\ sweep' # {}
  /\ UNCHANGED <<db, walletVars, geideaVars, zoho, job>>

Sweeping(s) == job[Sweeper] = Idle /\ s \in sweep /\ sweep' = sweep \ {s}

\* Geidea lists a paid entry for the reference that was read: it is recorded
\* unless the order was paid meanwhile; a wrong amount is only logged.
SweepReconcile(s) ==
  /\ Sweeping(s)
  /\ \E c \in PaidCharges(s.ref) :
       \/ /\ CreditPrepaid(s.order, charges[c].amount, c)
          /\ job' = [job EXCEPT ![Sweeper] = Serve("advance_read", s.order)]
       \/ /\ ~NotYetPaid(s.order)
          /\ job' = [job EXCEPT ![Sweeper] = Serve("advance_read", s.order)]
          /\ UNCHANGED <<db, walletVars>>
       \/ /\ NotYetPaid(s.order) /\ ~AmountMatches(s.order, charges[c].amount)
          /\ UNCHANGED <<db, walletVars, job>>
  /\ UNCHANGED <<geideaVars, zoho>>

StartSweepCancel(s) ==
  job' = [job EXCEPT ![Sweeper] =
            [Serve("sweep_cancel", s.order) EXCEPT !.seen = s.seen,
                                                   !.ref = s.ref]]

\* No reference yet, or Geidea lists no successful payment for it.
SweepFindsNothing(s) ==
  /\ Sweeping(s)
  /\ PaidCharges(s.ref) = {}
  /\ StartSweepCancel(s)
  /\ UNCHANGED <<db, walletVars, geideaVars, zoho>>

\* A fetch that times out returns the empty list.
SweepFetchFails(s) ==
  /\ Sweeping(s)
  /\ s.ref # None
  /\ StartSweepCancel(s)
  /\ UNCHANGED <<db, walletVars, geideaVars, zoho>>

\* An entry that is Success but not (yet) Paid: the order is left alone.
SweepUndecided(s) ==
  /\ Sweeping(s)
  /\ s.ref # None
  /\ PaidCharges(s.ref) = {}
  /\ UNCHANGED <<db, walletVars, geideaVars, zoho, job>>

VoidIf(yes, o) == IF yes /\ db[o].salesorder = "open" THEN "void" ELSE db[o].salesorder

\* _cancel_stale_order: the transition is checked against the status that was
\* read; closing the link and voiding the sales order are best effort.
SweepCancel ==
  /\ At(Sweeper, "sweep_cancel")
  /\ LET o == job[Sweeper].target IN
       /\ \/ Method[o] = "pay_by_link" /\ CloseLink(job[Sweeper].ref)
          \/ UNCHANGED sessions
       /\ IF "cancelled" \in AllowedTransitions(job[Sweeper].seen)
          THEN \E voided \in BOOLEAN :
                 db' = [db EXCEPT ![o].status = "cancelled",
                                  ![o].salesorder = VoidIf(voided, o)]
          ELSE UNCHANGED db
  /\ Finish(Sweeper)
  /\ UNCHANGED <<walletVars, charges, zoho, sweep>>

-----------------------------------------------------------------------------
(***************************************************************************)
(* cancel_order: claim the refund under the lock, call Geidea outside it,  *)
(* save or release the claim, then cancel under the lock again.            *)
(***************************************************************************)
CancelBlocked(o, customer) ==
  \/ db[o].status = "cancelled"
  \/ db[o].invoice
  \/ customer /\ db[o].stage # "pending"

RefundAmount(o) == IF db[o].prepaid > 0 THEN db[o].prepaid ELSE db[o].total

\* _order_needs_geidea_cancel_refund; a claim of another request counts as
\* needing one, and is refused by claim_order_geidea_refund.
RefundNeeded(o) ==
  /\ db[o].payment = "paid"
  /\ db[o].gatewayRef # None
  /\ db[o].refund # Refunded
  /\ RefundAmount(o) > 0

\* A mutant: a claim of another request is overwritten.
ClaimNotFinished(o) == db[o].refund # Refunded

ClaimFree(o) == db[o].refund = None

CancelClaim(w, o, customer) ==
  /\ "cancel" \in Requests
  /\ ~CancelBlocked(o, customer)
  /\ RefundNeeded(o)
  /\ ClaimFree(o)
  /\ db' = [db EXCEPT ![o].refund = w]
  /\ Begin(w, [Serve("cancel_issue", o) EXCEPT !.customer = customer,
                                               !.amount = RefundAmount(o)])
  /\ UNCHANGED <<walletVars, geideaVars, zoho, sweep>>

CancelWithoutRefund(w, o, customer) ==
  /\ "cancel" \in Requests
  /\ ~CancelBlocked(o, customer)
  /\ ~RefundNeeded(o)
  /\ Begin(w, [Serve("cancel_commit", o) EXCEPT !.customer = customer])
  /\ UNCHANGED <<db, walletVars, geideaVars, zoho, sweep>>

\* issue_geidea_card_refund answers with a transaction id.
CancelIssue(w) ==
  /\ At(w, "cancel_issue")
  /\ LET c == db[job[w].target].gatewayRef IN Refundable(c) /\ GiveBack(c)
  /\ Goto(w, "cancel_finalize")
  /\ UNCHANGED <<db, walletVars, sessions, zoho, sweep>>

\* Mutants: a failed call is taken for a refund; the order is cancelled anyway.
CancelIssueFailsFinalizes(w) ==
  /\ At(w, "cancel_issue")
  /\ LET c == db[job[w].target].gatewayRef IN
       \/ Refundable(c) /\ GiveBack(c)
       \/ UNCHANGED charges
  /\ Goto(w, "cancel_finalize")
  /\ UNCHANGED <<db, walletVars, sessions, zoho, sweep>>

CancelIssueFailsCommits(w) ==
  /\ At(w, "cancel_issue")
  /\ LET c == db[job[w].target].gatewayRef IN
       \/ Refundable(c) /\ GiveBack(c)
       \/ UNCHANGED charges
  /\ Goto(w, "cancel_commit")
  /\ UNCHANGED <<db, walletVars, sessions, zoho, sweep>>

\* It fails: Geidea refuses, or gives the money back and the answer is lost.
CancelIssueFails(w) ==
  /\ At(w, "cancel_issue")
  /\ LET c == db[job[w].target].gatewayRef IN
       \/ Refundable(c) /\ GiveBack(c)
       \/ UNCHANGED charges
  /\ Goto(w, "cancel_release")
  /\ UNCHANGED <<db, walletVars, sessions, zoho, sweep>>

\* finalize_order_geidea_refund; a lost claim is an error.
CancelFinalize(w) ==
  /\ At(w, "cancel_finalize")
  /\ LET o == job[w].target
         held == db[o].refund = w IN
       /\ db' = [db EXCEPT ![o].refund = IF held THEN Refunded ELSE @]
       /\ Goto(w, IF held THEN "cancel_commit" ELSE "cancel_release")
  /\ UNCHANGED <<walletVars, geideaVars, zoho, sweep>>

CancelRelease(w) ==
  /\ At(w, "cancel_release")
  /\ db' = [db EXCEPT ![job[w].target].refund = IF @ = w THEN None ELSE @]
  /\ Finish(w)
  /\ UNCHANGED <<walletVars, geideaVars, zoho, sweep>>

\* _reverse_prepaid_credit_after_card_refund and _record_prepaid_cancel_ledger.
Smaller(x, y) == IF x < y THEN x ELSE y

ReversedCredit(o, amount) ==
  Smaller(db[o].prepaid, Smaller(balance[Owner[o]], amount))

SettleCredit(o, amount) ==
  LET paid == db[o].payment = "paid" /\ db[o].prepaid > 0
      refunded == amount > 0 /\ db[o].refund # None IN
  IF refunded /\ paid /\ ReversedCredit(o, amount) > 0
  THEN PostEntry(Owner[o], o, "order_cancel", - ReversedCredit(o, amount))
  ELSE IF ~refunded /\ paid /\ db[o].applied = 0
       THEN PostEntry(Owner[o], o, "order_cancel", 0)
       ELSE UNCHANGED walletVars

\* The transaction that cancels; the link is closed best effort.
CancelCommit(w) ==
  /\ At(w, "cancel_commit")
  /\ LET o == job[w].target IN
       /\ ~CancelBlocked(o, job[w].customer)
       /\ db' = [db EXCEPT ![o].status = "cancelled",
                           ![o].salesorder = VoidIf(TRUE, o)]
       /\ SettleCredit(o, job[w].amount)
       /\ \/ /\ Method[o] = "pay_by_link" /\ NotYetPaid(o)
             /\ CloseLink(db[o].ref)
          \/ UNCHANGED sessions
  /\ Finish(w)
  /\ UNCHANGED <<charges, zoho, sweep>>

\* The transaction is blocked, or Zoho fails to void the sales order (or voids
\* it and the answer is lost): nothing is saved.
CancelRefused(w) ==
  /\ At(w, "cancel_commit")
  /\ LET o == job[w].target IN
       \/ CancelBlocked(o, job[w].customer) /\ UNCHANGED db
       \/ /\ ~CancelBlocked(o, job[w].customer)
          /\ db[o].salesorder # "none"
          /\ \E voided \in BOOLEAN :
               db' = [db EXCEPT ![o].salesorder = VoidIf(voided, o)]
  /\ Finish(w)
  /\ UNCHANGED <<walletVars, geideaVars, zoho, sweep>>

-----------------------------------------------------------------------------
(***************************************************************************)
(* Staff: invoice and payment in Zoho Books, confirmation, tracking stage, *)
(* edit of the order.                                                      *)
(***************************************************************************)

\* A mutant: an unpaid order can be invoiced.
InvoiceCheckUnpaid(w, o) ==
  /\ "invoice" \in Requests
  /\ db[o].status # "cancelled"
  /\ db[o].salesorder # "none"
  /\ ~db[o].invoice
  /\ Begin(w, Serve("invoice", o))
  /\ UNCHANGED <<db, walletVars, geideaVars, zoho, sweep>>

\* staff_create_zoho_books_invoice_for_order: checked without a lock ...
InvoiceCheck(w, o) ==
  /\ "invoice" \in Requests
  /\ db[o].status # "cancelled"
  /\ db[o].salesorder # "none"
  /\ ~db[o].invoice
  /\ db[o].payment = "paid"
  /\ Begin(w, Serve("invoice", o))
  /\ UNCHANGED <<db, walletVars, geideaVars, zoho, sweep>>

\* Mutants: the balance, or what the order costs, is not a limit.
CreditWithoutBalance(o) ==
  IF db[o].applied > 0 THEN 0 ELSE db[o].total

CreditWholeBalance(o) ==
  IF db[o].applied > 0 THEN 0 ELSE balance[Owner[o]]

CreditForInvoice(o) ==
  IF db[o].applied > 0 THEN 0
  ELSE Smaller(db[o].total, Smaller(db[o].prepaid, balance[Owner[o]]))

\* ... then made from the sales order (Zoho refuses a voided one) under the
\* lock, which settles it from the account credit of the customer and records
\* the payment in Zoho if none is known.
InvoiceCommit(w) ==
  /\ At(w, "invoice")
  /\ LET o == job[w].target
         credit == CreditForInvoice(o)
         pays == credit > 0 /\ ~db[o].booksPayment IN
       /\ ~db[o].invoice
       /\ db[o].salesorder = "open"
       /\ pays => db[o].status # "cancelled"
       /\ db' = [db EXCEPT ![o].invoice = TRUE,
                           ![o].applied = @ + credit,
                           ![o].booksPayment = IF pays THEN TRUE ELSE @]
       /\ zoho' = [zoho EXCEPT ![o] = IF pays THEN @ + 1 ELSE @]
       /\ IF credit > 0
          THEN PostEntry(Owner[o], o, "invoice_application", - credit)
          ELSE UNCHANGED walletVars
  /\ Finish(w)
  /\ UNCHANGED <<geideaVars, sweep>>

\* The order has an invoice by now, or a call to Zoho fails: rolled back.
InvoiceFails(w) ==
  /\ At(w, "invoice")
  /\ Finish(w)
  /\ UNCHANGED <<db, walletVars, geideaVars, zoho, sweep>>

\* staff_record_zoho_books_payment_for_order, in one transaction.
RecordBooksPayment(o) ==
  /\ "books_payment" \in Requests
  /\ db[o].status # "cancelled"
  /\ db[o].invoice
  /\ ~db[o].booksPayment
  /\ db' = [db EXCEPT ![o].booksPayment = TRUE]
  /\ zoho' = [zoho EXCEPT ![o] = @ + 1]
  /\ UNCHANGED <<walletVars, geideaVars, job, sweep>>

\* POST orders/confirm: read, check the transition, save.
ConfirmRead(w, o) ==
  /\ "confirm" \in Requests
  /\ "synced" \in AllowedTransitions(db[o].status)
  /\ Begin(w, [Serve("confirm", o) EXCEPT !.seen = db[o].status])
  /\ UNCHANGED <<db, walletVars, geideaVars, zoho, sweep>>

ConfirmWrite(w) ==
  /\ At(w, "confirm")
  /\ db' = [db EXCEPT ![job[w].target].status = "synced"]
  /\ Finish(w)
  /\ UNCHANGED <<walletVars, geideaVars, zoho, sweep>>

\* PATCH admin/orders/status to a later tracking stage: an order that was
\* still pending when it was read becomes synced as well.
RestageRead(w, o) ==
  /\ "restage" \in Requests
  /\ Begin(w, [Serve("restage", o) EXCEPT !.seen = db[o].status])
  /\ UNCHANGED <<db, walletVars, geideaVars, zoho, sweep>>

RestageWrite(w) ==
  /\ At(w, "restage")
  /\ db' = [db EXCEPT ![job[w].target].stage = "packed",
                      ![job[w].target].status =
                        IF job[w].seen \in EditableStatuses THEN "synced" ELSE @]
  /\ Finish(w)
  /\ UNCHANGED <<walletVars, geideaVars, zoho, sweep>>

\* PATCH orders by staff with another shipping amount: the total changes,
\* whatever the payment status.
EditRead(w, o, total) ==
  /\ "edit" \in Requests
  /\ db[o].status \in EditableStatuses
  /\ Begin(w, [Serve("edit", o) EXCEPT !.amount = total])
  /\ UNCHANGED <<db, walletVars, geideaVars, zoho, sweep>>

EditWrite(w) ==
  /\ At(w, "edit")
  /\ db' = [db EXCEPT ![job[w].target].total = job[w].amount]
  /\ Finish(w)
  /\ UNCHANGED <<walletVars, geideaVars, zoho, sweep>>

-----------------------------------------------------------------------------
(***************************************************************************)
(* The customer edits the profile: the user row is read with the request   *)
(* and saved whole.                                                        *)
(***************************************************************************)
ProfileRead(w, u) ==
  /\ "profile" \in Requests
  /\ Begin(w, [Serve("profile", u) EXCEPT !.amount = balance[u]])
  /\ UNCHANGED <<db, walletVars, geideaVars, zoho, sweep>>

ProfileSave(w) ==
  /\ At(w, "profile")
  /\ OverwriteBalance(job[w].target, job[w].amount)
  /\ Finish(w)
  /\ UNCHANGED <<db, geideaVars, zoho, sweep>>

\* A worker process, or the process that runs the scheduler, dies.
Crash(w) ==
  /\ "crash" \in Requests
  /\ job[w] # Idle
  /\ Finish(w)
  /\ UNCHANGED <<db, walletVars, geideaVars, zoho, sweep>>

SweeperCrash ==
  /\ "crash" \in Requests
  /\ sweep # {} \/ job[Sweeper] # Idle
  /\ Finish(Sweeper)
  /\ sweep' = {}
  /\ UNCHANGED <<db, walletVars, geideaVars, zoho>>

-----------------------------------------------------------------------------
Payment ==
  \/ \E c \in Charges, s \in sessions : CustomerPays(c, s)
  \/ \E o \in Orders, gw \in Charges \cup {None} : RecordPaymentSuccess(o, gw)
  \/ \E w \in Workers :
       \/ InitiateSession(w) \/ InitiateLink(w) \/ InitiateEnds(w)
       \/ ReconcileWrite(w)
       \/ \E o \in Orders : InitiateRead(w, o) \/ ReconcileRead(w, o)
       \/ \E c \in Charges : Callback(w, c)

Advance(t) == AdvanceRead(t) \/ AdvancePost(t) \/ AdvanceFails(t) \/ AdvanceSave(t)

Sweep ==
  \/ SweepStart \/ SweepCancel \/ SweeperCrash
  \/ \E s \in sweep : \/ SweepReconcile(s) \/ SweepFindsNothing(s)
                      \/ SweepFetchFails(s) \/ SweepUndecided(s)

Cancel(w) ==
  \/ \E o \in Orders, customer \in BOOLEAN :
       CancelClaim(w, o, customer) \/ CancelWithoutRefund(w, o, customer)
  \/ CancelIssue(w) \/ CancelIssueFails(w) \/ CancelFinalize(w)
  \/ CancelRelease(w) \/ CancelCommit(w) \/ CancelRefused(w)

Staff(w) ==
  \/ InvoiceCommit(w) \/ InvoiceFails(w) \/ ConfirmWrite(w) \/ RestageWrite(w)
  \/ EditWrite(w)
  \/ \E o \in Orders : \/ InvoiceCheck(w, o) \/ ConfirmRead(w, o)
                       \/ RestageRead(w, o)
                       \/ \E a \in Amounts : EditRead(w, o, a)

Next ==
  \/ Payment \/ Sweep
  \/ \E o \in Orders : Age(o) \/ RecordBooksPayment(o)
  \/ \E t \in Threads : Advance(t)
  \/ \E w \in Workers :
       \/ Cancel(w) \/ Staff(w) \/ Crash(w) \/ ProfileSave(w)
       \/ SyncCommit(w) \/ SyncFails(w)
       \/ \E o \in Orders : SyncCheck(w, o)
       \/ \E u \in Users : ProfileRead(w, u)

Spec == Init /\ [][Next]_vars

\* APScheduler runs the job again and again and the job handles what it read;
\* Geidea does not fail every fetch for ever.
SweepFairness ==
  /\ \A o \in Orders : WF_vars(Age(o))
  /\ WF_vars(SweepStart)
  /\ WF_vars(SweepCancel)
  /\ WF_vars(Advance(Sweeper))
  /\ WF_vars(\E s \in sweep : \/ SweepReconcile(s) \/ SweepFindsNothing(s)
                              \/ SweepFetchFails(s) \/ SweepUndecided(s))
  /\ SF_vars(\E s \in sweep : SweepReconcile(s))

FairSpec == Spec /\ SweepFairness
-----------------------------------------------------------------------------
(***************************************************************************)
(* Safety.                                                                 *)
(***************************************************************************)
Rows(o, kinds) ==
  LET L == ledger[Owner[o]] IN
  {i \in 1..Len(L) : L[i].order = o /\ L[i].kind \in kinds}

Reversals(o) ==
  {i \in Rows(o, {"order_cancel"}) : ledger[Owner[o]][i].amount < 0}

\* However many callbacks, polls, job runs and staff calls report a payment,
\* an order is credited exactly when it is paid, once, with the amount its row
\* says, and its invoice takes credit once.  (account_credit.py)
PaymentPostedOnce ==
  \A o \in Orders :
    LET L == ledger[Owner[o]] IN
    /\ Cardinality(Rows(o, PaymentKinds)) = IF db[o].payment = "paid" THEN 1 ELSE 0
    /\ \A i \in Rows(o, PaymentKinds) : L[i].amount = db[o].prepaid
    /\ \A i \in Rows(o, {"invoice_application"}) : L[i].amount = - db[o].applied
    /\ Cardinality(Rows(o, {"invoice_application"})) <= 1

\* Every credit that names a Geidea payment is covered by one the customer
\* made, of that amount, and no payment credits two orders.
CreditedOnlyIfCaptured ==
  \A o \in Orders :
    LET c == db[o].gatewayRef IN
    c # None =>
      /\ charges[c].state # "none"
      /\ charges[c].amount = db[o].prepaid
      /\ \A p \in Orders : db[p].gatewayRef = c => p = o

Refunding(o) == {w \in Workers : job[w].pc \in RefundSteps /\ job[w].target = o}

\* The refund claim is a mutual exclusion around the call of the Geidea refund
\* API, which runs outside any transaction.  (claim_order_geidea_refund)
RefundExclusive ==
  \A o \in Orders : \A w \in Refunding(o) : db[o].refund = w

\* A refund id on the row is a refund Geidea made of the order's own payment,
\* in full.  (finalize_order_geidea_refund)
RefundRecordedIsReal ==
  \A o \in Orders :
    db[o].refund = Refunded =>
      /\ db[o].gatewayRef # None
      /\ charges[db[o].gatewayRef].state = "refunded"
      /\ charges[db[o].gatewayRef].amount = RefundAmount(o)

\* Account credit is taken back for a cancellation at most once, and only when
\* the card was refunded.  (_reverse_prepaid_credit_after_card_refund)
ReversedOnlyIfRefunded ==
  \A o \in Orders :
    /\ Reversals(o) # {} => db[o].refund = Refunded
    /\ Cardinality(Reversals(o)) <= 1

\* The credit of a user covers what was paid for each of the orders that took
\* no credit yet: no invoice and no cancellation spends the money of another
\* order of the same customer.
Uncommitted(u) ==
  {o \in Orders : Owner[o] = u /\ db[o].applied = 0 /\ Reversals(o) = {}}

FundsCover ==
  \A u \in Users :
    balance[u] >= SumFunctionOnSet([o \in Orders |-> db[o].prepaid], Uncommitted(u))

\* An invoice is made only of a paid order, and it is settled from the credit
\* of the customer: with the order's total, or with all that was paid for it.
InvoiceSettled ==
  \A o \in Orders :
    db[o].invoice =>
      /\ db[o].payment = "paid"
      /\ db[o].applied > 0 /\ db[o].applied <= db[o].prepaid

(***************************************************************************)
(* The claim on the row implements the abstract claim.                     *)
(***************************************************************************)
Claim(o) == INSTANCE RefundClaim
              WITH Claimants <- Workers, Free <- None, Done <- Refunded,
                   claim <- db[o].refund, active <- Refunding(o)

\* A finished refund is final, a dead request never frees the row, and nobody
\* but the holder writes it.
RefundClaimed ==
  /\ \A o \in Orders : Claim(o)!Init
  /\ [][\A o \in Orders : [Claim(o)!Next]_(Claim(o)!vars)]_vars

(***************************************************************************)
(* Liveness: a payment Geidea captured for the order as it is ends up on    *)
(* the order, even if every callback is lost and whatever fetches time out. *)
(***************************************************************************)
Recordable(o, c) == charges[c].ref = db[o].ref /\ AmountMatches(o, charges[c].amount)

CapturedIsRecorded ==
  \A o \in Orders, c \in Charges :
    (charges[c].state = "paid" /\ Recordable(o, c))
      ~> (~NotYetPaid(o) \/ ~Recordable(o, c))

=============================================================================
