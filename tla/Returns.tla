------------------------------- MODULE Returns -------------------------------
(***************************************************************************)
(* Returns of paid orders: the customer asks, staff approve or reject, the *)
(* return is pushed to Zoho, and it is refunded to the card (Geidea) or to *)
(* the account credit, while staff may cancel the order and refund what is *)
(* left of it.                                                             *)
(*                                                                         *)
(* An order is one line of Ordered units of price 1.  A transaction that   *)
(* holds the row lock of the return is one step, with the calls to Zoho it *)
(* makes; Geidea is called outside any transaction.                        *)
(***************************************************************************)
EXTENDS Integers, FiniteSets, Functions

CONSTANTS
  Orders, Returns, Workers,
  CardOrders,   \* paid by card, with a gateway reference
  Ordered,      \* units of an order
  None, Refunded,
  Faults,       \* subset of {"lost", "crash"}
  MaxCredit     \* bound: no refund of a return credited more than this

ASSUME OrderedAssumption == Ordered \in Nat \ {0}
ASSUME CardAssumption == CardOrders \subseteq Orders
ASSUME BoundAssumption == MaxCredit \in Nat
ASSUME ReturnsAssumption == IsFiniteSet(Returns)
ASSUME ValueAssumption ==
  /\ None \notin Workers /\ Refunded \notin Workers /\ None # Refunded
  /\ None \notin Orders /\ Orders \cap Returns = {}

VARIABLES
  order,     \* [Orders -> order row]
  ret,       \* [Returns -> return row]
  back,      \* [Returns \cup Orders -> Nat] money Geidea gave back to the card
  credited,  \* [Returns -> Nat] account credit posted for a return
  documents, \* [Returns -> Nat] sales returns and credit notes made in Zoho
  job        \* [Workers -> the request a thread serves]

vars == <<order, ret, back, credited, documents, job>>

Statuses == {"pending_zoho", "synced", "completed", "rejected", "failed"}
Claims == Workers \cup {None, Refunded}

\* zoho_salesreturn_id: non-empty or not.  A row not created yet is "absent".
ReturnRow ==
  [status: Statuses \cup {"absent"}, order: Orders \cup {None}, qty: 0..Ordered,
   refund: Claims, salesreturn: BOOLEAN]

NoReturn == [status |-> "absent", order |-> None, qty |-> 0, refund |-> None,
             salesreturn |-> FALSE]

NewReturn(o, q) == [NoReturn EXCEPT !.status = "pending_zoho", !.order = o, !.qty = q]

Steps == {"idle", "create", "push", "push_failed", "resync", "refund_claim",
          "refund_issue", "refund_finalize", "refund_release", "refund_complete",
          "credit", "cancel_issue", "cancel_finalize", "cancel_release",
          "cancel_commit"}

ReturnSteps == {"push", "push_failed", "resync", "refund_claim", "refund_issue",
                "refund_finalize", "refund_release", "refund_complete", "credit"}
RefundSteps == {"refund_issue", "refund_finalize", "refund_release"}
CancelSteps == {"cancel_issue", "cancel_finalize", "cancel_release"}

Job == [pc: Steps, target: Orders \cup Returns \cup {None}, amount: 0..Ordered]
Idle == [pc |-> "idle", target |-> None, amount |-> 0]
Serve(pc, x, a) == [pc |-> pc, target |-> x, amount |-> a]

At(w, pc) == job[w].pc = pc
Begin(w, pc, x, a) == job[w] = Idle /\ job' = [job EXCEPT ![w] = Serve(pc, x, a)]
Goto(w, pc) == job' = [job EXCEPT ![w].pc = pc]
Finish(w) == job' = [job EXCEPT ![w] = Idle]

Exists(r) == ret[r].status # "absent"
ByCard(r) == ret[r].order \in CardOrders

Init ==
  /\ order = [o \in Orders |-> [cancelled |-> FALSE, refund |-> None]]
  /\ ret = [r \in Returns |-> NoReturn]
  /\ back = [x \in Returns \cup Orders |-> 0]
  /\ credited = [r \in Returns |-> 0]
  /\ documents = [r \in Returns |-> 0]
  /\ job = [w \in Workers |-> Idle]

-----------------------------------------------------------------------------
(***************************************************************************)
(* The customer asks for a return: validated without a lock, then created. *)
(***************************************************************************)
ActiveStatuses == {"pending_zoho", "synced", "completed"}

Quantities == [r \in Returns |-> ret[r].qty]

\* OrderItem.quantity_in_active_returns
ActiveQuantity(o) ==
  SumFunctionOnSet(Quantities,
                   {r \in Returns : ret[r].order = o /\ ret[r].status \in ActiveStatuses})

CreateCheck(w, o, q) ==
  /\ ~order[o].cancelled
  /\ q <= Ordered - ActiveQuantity(o)
  /\ Begin(w, "create", o, q)
  /\ UNCHANGED <<order, ret, back, credited, documents>>

\* The request then calls the push, which does nothing unless staff approved
\* the return meanwhile.
CreateCommit(w, r) ==
  /\ At(w, "create")
  /\ ~Exists(r)
  /\ ret' = [ret EXCEPT ![r] = NewReturn(job[w].target, job[w].amount)]
  /\ job' = [job EXCEPT ![w] = Serve("push", r, 0)]
  /\ UNCHANGED <<order, back, credited, documents>>

-----------------------------------------------------------------------------
(***************************************************************************)
(* Staff approve or reject; an approved return is pushed to Zoho.          *)
(***************************************************************************)
ApprovableStatuses == {"pending_zoho", "failed"}
RejectableStatuses == {"pending_zoho", "synced", "failed"}

Approve(w, r) ==
  /\ ret[r].status \in ApprovableStatuses
  /\ ret' = [ret EXCEPT ![r].status = "synced"]
  /\ Begin(w, "push", r, 0)
  /\ UNCHANGED <<order, back, credited, documents>>

Reject(r) ==
  /\ ret[r].status \in RejectableStatuses
  /\ ret' = [ret EXCEPT ![r].status = "rejected"]
  /\ UNCHANGED <<order, back, credited, documents, job>>

\* The retry reads the return without a lock and saves a failed one as synced.
Resync(w, r) ==
  /\ ~ret[r].salesreturn
  /\ ret[r].status \in {"synced", "failed"}
  /\ Begin(w, IF ret[r].status = "failed" THEN "resync" ELSE "push", r, 0)
  /\ UNCHANGED <<order, ret, back, credited, documents>>

ResyncSave(w) ==
  /\ At(w, "resync")
  /\ ret' = [ret EXCEPT ![job[w].target].status = "synced"]
  /\ Goto(w, "push")
  /\ UNCHANGED <<order, back, credited, documents>>

\* A mutant: a return that is in Zoho already is pushed again.
AnyApproved(r) == ret[r].status = "synced"

\* maybe_push_return_to_zoho under the lock of the return.
Pushable(r) == ~ret[r].salesreturn /\ ret[r].status = "synced"

Push(w) ==
  /\ At(w, "push")
  /\ LET r == job[w].target IN
       IF Pushable(r)
       THEN /\ ret' = [ret EXCEPT ![r].salesreturn = TRUE]
            /\ documents' = [documents EXCEPT ![r] = @ + 1]
       ELSE UNCHANGED <<ret, documents>>
  /\ Finish(w)
  /\ UNCHANGED <<order, back, credited>>

\* Zoho refuses, or makes the document and the answer is lost: the transaction
\* rolls back ...
PushFails(w) ==
  /\ At(w, "push")
  /\ Pushable(job[w].target)
  /\ \/ UNCHANGED documents
     \/ "lost" \in Faults /\ documents' = [documents EXCEPT ![job[w].target] = @ + 1]
  /\ Goto(w, "push_failed")
  /\ UNCHANGED <<order, ret, back, credited>>

\* ... and the failure is written to the row, without the lock.
PushRecordFailure(w) ==
  /\ At(w, "push_failed")
  /\ ret' = [ret EXCEPT ![job[w].target].status = "failed"]
  /\ Finish(w)
  /\ UNCHANGED <<order, back, credited, documents>>

-----------------------------------------------------------------------------
(***************************************************************************)
(* Geidea gives money back on a card as long as the payment covers it.     *)
(***************************************************************************)
GivenBack(o) ==
  back[o] + SumFunctionOnSet(back, {r \in Returns : ret[r].order = o})

GiveBack(o, x, amount) ==
  /\ GivenBack(o) + amount <= Ordered
  /\ back' = [back EXCEPT ![x] = @ + amount]

\* The call fails: refused, or done with the answer lost.
GiveBackFails(o, x, amount) ==
  \/ UNCHANGED back
  \/ "lost" \in Faults /\ GiveBack(o, x, amount)

-----------------------------------------------------------------------------
(***************************************************************************)
(* Staff refund an approved return, in whole or in part.  The status is    *)
(* checked in a first transaction only.                                    *)
(***************************************************************************)
\* Mutants: the amount has no upper limit; the status is not checked.
AnyRefundAmount(r) == 1..Ordered
PendingToo(r) == ret[r].status \in {"pending_zoho", "synced"}

RefundAmounts(r) == 1..ret[r].qty
Refundable(r) == ret[r].status = "synced"

RefundCheck(w, r) ==
  /\ Refundable(r)
  /\ credited[r] <= MaxCredit
  /\ \E a \in RefundAmounts(r) :
       Begin(w, IF ByCard(r) THEN "refund_claim" ELSE "credit", r, a)
  /\ UNCHANGED <<order, ret, back, credited, documents>>

\* A mutant: a claim of another request is overwritten.
ReturnNotRefunded(r) == ret[r].refund # Refunded

ReturnClaimFree(r) == ret[r].refund = None

\* A mutant: a request that finds a claim takes the return for refunded.
RefundClaimOrComplete(w) ==
  /\ At(w, "refund_claim")
  /\ LET r == job[w].target IN
       IF ReturnClaimFree(r)
       THEN /\ ret' = [ret EXCEPT ![r].refund = w]
            /\ Goto(w, "refund_issue")
       ELSE Finish(w) /\ ret' = [ret EXCEPT ![r].status = "completed"]
  /\ UNCHANGED <<order, back, credited, documents>>

\* claim_return_geidea_refund; a claim of another request is an error.
RefundClaim(w) ==
  /\ At(w, "refund_claim")
  /\ LET r == job[w].target IN
       IF ReturnClaimFree(r)
       THEN /\ ret' = [ret EXCEPT ![r].refund = w]
            /\ Goto(w, "refund_issue")
       ELSE Finish(w) /\ UNCHANGED ret
  /\ UNCHANGED <<order, back, credited, documents>>

RefundIssue(w) ==
  /\ At(w, "refund_issue")
  /\ LET r == job[w].target IN GiveBack(ret[r].order, r, job[w].amount)
  /\ Goto(w, "refund_finalize")
  /\ UNCHANGED <<order, ret, credited, documents>>

\* A mutant: a failed call is taken for a refund.
RefundIssueFailsFinalizes(w) ==
  /\ At(w, "refund_issue")
  /\ LET r == job[w].target IN GiveBackFails(ret[r].order, r, job[w].amount)
  /\ Goto(w, "refund_finalize")
  /\ UNCHANGED <<order, ret, credited, documents>>

RefundIssueFails(w) ==
  /\ At(w, "refund_issue")
  /\ LET r == job[w].target IN GiveBackFails(ret[r].order, r, job[w].amount)
  /\ Goto(w, "refund_release")
  /\ UNCHANGED <<order, ret, credited, documents>>

RefundFinalize(w) ==
  /\ At(w, "refund_finalize")
  /\ LET r == job[w].target
         held == ret[r].refund = w IN
       /\ ret' = [ret EXCEPT ![r].refund = IF held THEN Refunded ELSE @]
       /\ Goto(w, IF held THEN "refund_complete" ELSE "refund_release")
  /\ UNCHANGED <<order, back, credited, documents>>

RefundRelease(w) ==
  /\ At(w, "refund_release")
  /\ ret' = [ret EXCEPT ![job[w].target].refund = IF @ = w THEN None ELSE @]
  /\ Finish(w)
  /\ UNCHANGED <<order, back, credited, documents>>

\* The transaction that should complete the return first looks for a refund id
\* on the row, and leaves if there is one.
RefundComplete(w) ==
  /\ At(w, "refund_complete")
  /\ LET r == job[w].target IN
       ret' = [ret EXCEPT ![r].status =
                 IF ret[r].refund = Refunded THEN @ ELSE "completed"]
  /\ Finish(w)
  /\ UNCHANGED <<order, back, credited, documents>>

\* Not paid by card: the amount is credited to the account, and the return is
\* completed, whatever its status is by now.
Credit(w) ==
  /\ At(w, "credit")
  /\ LET r == job[w].target IN
       /\ credited' = [credited EXCEPT ![r] = @ + job[w].amount]
       /\ ret' = [ret EXCEPT ![r].status = "completed"]
  /\ Finish(w)
  /\ UNCHANGED <<order, back, documents>>

-----------------------------------------------------------------------------
(***************************************************************************)
(* Staff cancel the order (cancel_order): what the returns left of the     *)
(* card payment is refunded first.                                         *)
(***************************************************************************)
RefundedReturns(o) ==
  {r \in Returns : ret[r].order = o /\ ret[r].refund = Refunded}

Remaining(o) ==
  LET taken == SumFunctionOnSet(Quantities, RefundedReturns(o)) IN
  IF taken < Ordered THEN Ordered - taken ELSE 0

CancelNeedsRefund(o) ==
  o \in CardOrders /\ order[o].refund # Refunded /\ Remaining(o) > 0

CancelCheck(w, o) ==
  /\ ~order[o].cancelled
  /\ \/ /\ CancelNeedsRefund(o)
        /\ order[o].refund = None
        /\ order' = [order EXCEPT ![o].refund = w]
        /\ Begin(w, "cancel_issue", o, Remaining(o))
     \/ /\ ~CancelNeedsRefund(o)
        /\ Begin(w, "cancel_commit", o, 0)
        /\ UNCHANGED order
  /\ UNCHANGED <<ret, back, credited, documents>>

CancelIssue(w) ==
  /\ At(w, "cancel_issue")
  /\ GiveBack(job[w].target, job[w].target, job[w].amount)
  /\ Goto(w, "cancel_finalize")
  /\ UNCHANGED <<order, ret, credited, documents>>

CancelIssueFails(w) ==
  /\ At(w, "cancel_issue")
  /\ GiveBackFails(job[w].target, job[w].target, job[w].amount)
  /\ Goto(w, "cancel_release")
  /\ UNCHANGED <<order, ret, credited, documents>>

CancelFinalize(w) ==
  /\ At(w, "cancel_finalize")
  /\ LET o == job[w].target
         held == order[o].refund = w IN
       /\ order' = [order EXCEPT ![o].refund = IF held THEN Refunded ELSE @]
       /\ Goto(w, IF held THEN "cancel_commit" ELSE "cancel_release")
  /\ UNCHANGED <<ret, back, credited, documents>>

CancelRelease(w) ==
  /\ At(w, "cancel_release")
  /\ order' = [order EXCEPT ![job[w].target].refund = IF @ = w THEN None ELSE @]
  /\ Finish(w)
  /\ UNCHANGED <<ret, back, credited, documents>>

\* Nothing is saved if the order is cancelled already, or Zoho fails.
CancelCommit(w) ==
  /\ At(w, "cancel_commit")
  /\ \/ order' = [order EXCEPT ![job[w].target].cancelled = TRUE]
     \/ UNCHANGED order
  /\ Finish(w)
  /\ UNCHANGED <<ret, back, credited, documents>>

Crash(w) ==
  /\ "crash" \in Faults
  /\ job[w] # Idle
  /\ Finish(w)
  /\ UNCHANGED <<order, ret, back, credited, documents>>

-----------------------------------------------------------------------------
Request(w) ==
  \/ \E o \in Orders, q \in 1..Ordered : CreateCheck(w, o, q)
  \/ \E r \in Returns : \/ CreateCommit(w, r) \/ Approve(w, r) \/ Resync(w, r)
                        \/ RefundCheck(w, r)
  \/ ResyncSave(w) \/ Push(w) \/ PushFails(w) \/ PushRecordFailure(w)

Refund(w) ==
  \/ RefundClaim(w) \/ RefundIssue(w) \/ RefundIssueFails(w) \/ RefundFinalize(w)
  \/ RefundRelease(w) \/ RefundComplete(w) \/ Credit(w)

Cancel(w) ==
  \/ \E o \in Orders : CancelCheck(w, o)
  \/ CancelIssue(w) \/ CancelIssueFails(w) \/ CancelFinalize(w)
  \/ CancelRelease(w) \/ CancelCommit(w)

Next ==
  \/ \E w \in Workers : Request(w) \/ Refund(w) \/ Cancel(w) \/ Crash(w)
  \/ \E r \in Returns : Reject(r)

Spec == Init /\ [][Next]_vars
-----------------------------------------------------------------------------
(***************************************************************************)
(* Safety.                                                                 *)
(***************************************************************************)
\* What a step holds in the local record of its thread: a refund in flight is
\* of a return that exists, for a positive amount no larger than its lines.
JobOK(j) ==
  /\ j.pc = "create" => j.target \in Orders /\ j.amount > 0
  /\ j.pc \in ReturnSteps => j.target \in Returns /\ Exists(j.target)
  /\ j.pc \in RefundSteps \cup {"refund_claim", "refund_complete", "credit"} =>
       j.amount \in 1..ret[j.target].qty
  /\ j.pc \in CancelSteps \cup {"cancel_commit"} => j.target \in Orders
  /\ j.pc \in CancelSteps => j.amount > 0

RowOK(r) ==
  ret[r].status # "absent" => ret[r].order \in Orders /\ ret[r].qty > 0

TypeOK ==
  /\ order \in [Orders -> [cancelled: BOOLEAN, refund: Claims]]
  /\ ret \in [Returns -> ReturnRow] /\ \A r \in Returns : RowOK(r)
  /\ back \in [Returns \cup Orders -> Nat]
  /\ credited \in [Returns -> Nat]
  /\ documents \in [Returns -> Nat]
  /\ job \in [Workers -> Job] /\ \A w \in Workers : JobOK(job[w])

\* As long as no answer of Geidea is lost, a return is refunded to the card
\* once, for no more than the lines that come back; a refund id on the row says
\* that it was, and an empty column that it was not.
\* (the 'idempotency guard to prevent double refunds', geidea_paybylink.py)
CardRefundedOnce ==
  \A r \in Returns :
    /\ back[r] <= ret[r].qty
    /\ ret[r].refund = Refunded => back[r] > 0
    /\ ret[r].refund = None => back[r] = 0

\* Zoho has a document for a return exactly if the row names one, and one only,
\* whoever approves, retries or pushes at the same time.
\* (maybe_push_return_to_zoho)
OneDocument ==
  \A r \in Returns : documents[r] = IF ret[r].salesreturn THEN 1 ELSE 0

\* Whatever requests are in flight, a return that nobody approved was neither
\* refunded, nor credited, nor sent to Zoho.
NothingBeforeApproval ==
  \A r \in Returns :
    ret[r].status \in {"absent", "pending_zoho"} =>
      /\ back[r] = 0 /\ credited[r] = 0 /\ documents[r] = 0
      /\ ret[r].refund = None

\* A return is completed only when the money is on its way, by card or as
\* credit, whatever requests overtake each other.
CompletedIsPaid ==
  \A r \in Returns : ret[r].status = "completed" => credited[r] + back[r] > 0

Refunding(r) == {w \in Workers : job[w].pc \in RefundSteps /\ job[w].target = r}

(***************************************************************************)
(* The claim on the return implements the abstract claim.                  *)
(***************************************************************************)
Claim(r) == INSTANCE RefundClaim
              WITH Claimants <- Workers, Free <- None, Done <- Refunded,
                   claim <- ret[r].refund, active <- Refunding(r)

\* One request at a time asks Geidea for the refund of a return; a finished
\* refund is final and a dead request never frees the row.
ReturnClaimed ==
  /\ \A r \in Returns : Claim(r)!Init
  /\ [][\A r \in Returns : [Claim(r)!Next]_(Claim(r)!vars)]_vars

(***************************************************************************)
(* What comments and messages of the code say and the code does not keep.  *)
(***************************************************************************)
\* 'Return already refunded.': a return is credited once, for its own amount.
\* (admin_dashboard/returns.py)
CreditedOnce == \A r \in Returns : credited[r] <= ret[r].qty
=============================================================================
