------------------------ MODULE PrepaidOrders_proofs ------------------------
(***************************************************************************)
(* Theorems about PrepaidOrders, for every value of its constants: its     *)
(* type invariant, the exclusion and the refinement of the refund claim,   *)
(* and what the wallet, the payments, the refunds and the invoice tell     *)
(* about each other.                                                       *)
(***************************************************************************)
EXTENDS PrepaidOrders, Sums, TLAPS

(***************************************************************************)
(* Lemmas about threads and postings.                                      *)
(***************************************************************************)

\* A thread that is neither idle nor editing a profile works on an order.
LEMMA TargetTyped ==
  ASSUME JobsOK, NEW t \in Threads, job[t].pc \notin {"idle", "profile"}
  PROVE  job[t].target \in Orders
  BY DEF JobsOK, JobOK, OrderSteps, JobState

\* A thread may take any well-formed local state ...
LEMMA StartOK ==
  ASSUME JobsOK, NEW t \in Threads, NEW j \in JobState, JobOK(j),
         job' = [job EXCEPT ![t] = j]
  PROVE  JobsOK'
  BY DEF JobsOK

\* ... such as the idle one ...
LEMMA IdleOK == Idle \in JobState /\ JobOK(Idle)
  BY DEF Idle, JobState, JobOK, Steps, OrderSteps

LEMMA FinishOK ==
  ASSUME JobsOK, NEW t \in Threads, Finish(t)
  PROVE  JobsOK'
  BY IdleOK, StartOK DEF Finish

\* ... the one that starts serving a request on an order ...
LEMMA ServeOK ==
  ASSUME NEW pc \in Steps \ {"profile", "initiate", "edit", "reconcile"},
         NEW o \in Orders
  PROVE  Serve(pc, o) \in JobState /\ JobOK(Serve(pc, o))
  BY DEF Serve, Idle, JobState, JobOK, Steps, OrderSteps

\* ... and the next step of the request.
LEMMA GotoOK ==
  ASSUME JobsOK, NEW t \in Threads, job[t].pc \notin {"idle", "profile"},
         NEW pc \in Steps \ {"profile", "initiate", "edit", "reconcile"},
         Goto(t, pc)
  PROVE  JobsOK'
<1>1. job[t].target \in Orders
  BY TargetTyped
<1>2. JobOK([job[t] EXCEPT !.pc = pc]) /\ [job[t] EXCEPT !.pc = pc] \in JobState
  BY <1>1 DEF JobsOK, JobOK, JobState
<1>3. job' = [job EXCEPT ![t] = [job[t] EXCEPT !.pc = pc]]
  BY DEF Goto
<1>4. QED
  BY <1>2, <1>3, StartOK

\* A posting that leaves the balance non-negative keeps the wallet typed.
LEMMA PostOK ==
  ASSUME WalletOK, NEW u \in Users, NEW o \in Orders, NEW kind \in EntryKinds,
         NEW amount \in Int, balance[u] + amount \in Nat,
         PostEntry(u, o, kind, amount)
  PROVE  WalletOK'
<1> DEFINE e == Entry(o, kind, amount, balance[u] + amount)
<1>1. e \in LedgerRow(Orders)
  BY DEF WalletOK, Entry, LedgerRow
<1>2. Append(ledger[u], e) \in Seq(LedgerRow(Orders))
  BY <1>1 DEF WalletOK
<1>3. balance' \in [Users -> Nat]
  BY DEF WalletOK, PostEntry
<1>4. ledger' = [ledger EXCEPT ![u] = Append(ledger[u], e)]
  BY DEF PostEntry
<1>5. QED
  BY <1>2, <1>3, <1>4 DEF WalletOK

\* What is known of the row of an order and of its owner.
LEMMA RowTyped ==
  ASSUME TypeOK, NEW o \in Orders
  PROVE  /\ db[o] \in OrderRow
         /\ Owner[o] \in Users
         /\ balance[Owner[o]] \in Nat
         /\ db[o].prepaid \in Nat /\ db[o].applied \in Nat
         /\ db[o].total \in Nat \ {0}
  BY OwnerAssumption, AmountsAssumption DEF TypeOK, DbOK, WalletOK, OrderRow

\* The rows stay typed when one of them becomes another row.
LEMMA RowOK ==
  ASSUME DbOK, NEW o \in Orders, NEW row \in OrderRow,
         db' = [db EXCEPT ![o] = row]
  PROVE  DbOK'
  BY DEF DbOK

\* Voiding, or not voiding, leaves a sales order in one of its states.
LEMMA VoidTyped ==
  ASSUME TypeOK, NEW o \in Orders, NEW yes \in BOOLEAN
  PROVE  VoidIf(yes, o) \in {"none", "open", "void"}
<1>1. db[o].salesorder \in {"none", "open", "void"}
  BY RowTyped DEF OrderRow
<1>2. QED
  BY <1>1 DEF VoidIf

\* The amount of a charge is a natural number.
LEMMA ChargeTyped ==
  ASSUME TypeOK, NEW c \in Charges
  PROVE  charges[c].amount \in Nat
<1>1. charges[c] \in Charge(Amounts)
  BY DEF TypeOK, GatewayOK
<1>2. charges[c].amount \in Amounts \cup {0}
  BY <1>1 DEF Charge
<1>3. Amounts \cup {0} \subseteq Nat
  BY AmountsAssumption
<1>4. QED
  BY <1>2, <1>3

\* Recording a payment keeps the order row and the wallet typed.
LEMMA CreditOK ==
  ASSUME TypeOK, NEW o \in Orders, NEW amount \in Nat,
         NEW gw \in Charges \cup {None}, CreditPrepaid(o, amount, gw)
  PROVE  DbOK' /\ WalletOK'
<1> DEFINE row == [db[o] EXCEPT !.payment = "paid", !.prepaid = amount,
                               !.gatewayRef = IF gw # None THEN gw ELSE @]
<1>a. row \in OrderRow
  BY RowTyped, ZenonT(60) DEF OrderRow
<1>b. db' = [db EXCEPT ![o] = row]
  BY DEF CreditPrepaid, TypeOK, DbOK
<1>1. DbOK'
  BY <1>a, <1>b DEF TypeOK, DbOK
<1>2. PaymentKind(o) \in EntryKinds
  BY DEF PaymentKind, EntryKinds
<1>3. balance[Owner[o]] + amount \in Nat
  BY RowTyped
<1>4. WalletOK'
  BY <1>2, <1>3, RowTyped, PostOK DEF CreditPrepaid, TypeOK
<1>5. QED
  BY <1>1, <1>4

(***************************************************************************)
(* Every action preserves the type invariant.                              *)
(***************************************************************************)
LEMMA PaymentTyped == TypeOK /\ Payment => TypeOK'
<1> SUFFICES ASSUME TypeOK, Payment PROVE TypeOK'
  OBVIOUS
<1> USE DEF TypeOK
<1>1. ASSUME NEW c \in Charges, NEW s \in sessions, CustomerPays(c, s)
      PROVE  TypeOK'
  <2>1. s.ref \in Refs /\ s.amount \in Amounts
    BY DEF GatewayOK
  <2>2. GatewayOK'
    BY <1>1, <2>1 DEF GatewayOK, CustomerPays, Capture, Charge
  <2>3. QED
    BY <1>1, <2>2 DEF CustomerPays, DbOK, WalletOK, walletVars, JobsOK
<1>2. ASSUME NEW o \in Orders, NEW gw \in Charges \cup {None},
             RecordPaymentSuccess(o, gw)
      PROVE  TypeOK'
  BY <1>2, CreditOK, RowTyped
     DEF RecordPaymentSuccess, GatewayOK, geideaVars, JobsOK
<1>3. ASSUME NEW w \in Workers, InitiateSession(w)
      PROVE  TypeOK'
  <2> DEFINE o == job[w].target
  <2>1. w \in Threads /\ o \in Orders
    BY <1>3, TargetTyped DEF InitiateSession, At, Threads
  <2>2. job[w].amount \in Amounts /\ job[w].ref \in Refs \cup {None}
    BY <1>3, <2>1 DEF InitiateSession, At, JobsOK, JobOK, JobState
  <2>3. PICK r \in (IF job[w].ref # None THEN {job[w].ref} ELSE FreshRefs) :
             /\ db' = [db EXCEPT ![o].ref = IF job[w].ref = None THEN r ELSE @]
             /\ \/ OpenSession(r, job[w].amount)
                \/ UNCHANGED sessions
    BY <1>3 DEF InitiateSession
  <2>4. r \in Refs
    BY <2>2 DEF FreshRefs
  <2>5. DbOK'
    BY <2>1, <2>3, <2>4 DEF DbOK, OrderRow
  <2>6. GatewayOK'
    BY <1>3, <2>2, <2>3, <2>4 DEF GatewayOK, OpenSession, InitiateSession
  <2>7. JobsOK'
    BY <1>3, <2>1, FinishOK DEF InitiateSession
  <2>8. QED
    BY <1>3, <2>5, <2>6, <2>7 DEF InitiateSession, WalletOK, walletVars
<1>4. ASSUME NEW w \in Workers, InitiateLink(w)
      PROVE  TypeOK'
  <2> DEFINE o == job[w].target
  <2>1. w \in Threads /\ o \in Orders
    BY <1>4, TargetTyped DEF InitiateLink, At, Threads
  <2>2. PICK r \in FreshRefs : /\ db' = [db EXCEPT ![o].ref = r]
                               /\ OpenSession(r, db[o].total)
    BY <1>4 DEF InitiateLink
  <2>3. r \in Refs
    BY DEF FreshRefs
  <2>4. DbOK'
    BY <2>1, <2>2, <2>3 DEF DbOK, OrderRow
  <2>5. db[o].total \in Amounts
    BY <2>1 DEF DbOK, OrderRow
  <2>6. GatewayOK'
    BY <1>4, <2>2, <2>3, <2>5 DEF GatewayOK, OpenSession, InitiateLink
  <2>7. JobsOK'
    BY <1>4, <2>1, FinishOK DEF InitiateLink
  <2>8. QED
    BY <1>4, <2>4, <2>6, <2>7 DEF InitiateLink, WalletOK, walletVars
<1>5. ASSUME NEW w \in Workers, InitiateEnds(w)
      PROVE  TypeOK'
  BY <1>5, FinishOK
     DEF InitiateEnds, Threads, DbOK, WalletOK, walletVars, GatewayOK, geideaVars
<1>6. ASSUME NEW w \in Workers, ReconcileWrite(w)
      PROVE  TypeOK'
  <2> DEFINE o == job[w].target
             c == job[w].charge
  <2>1. w \in Threads /\ o \in Orders
    BY <1>6, TargetTyped DEF ReconcileWrite, At, Threads
  <2>2. c \in Charges
    BY <1>6, <2>1 DEF ReconcileWrite, At, JobsOK, JobOK
  <2>3. UNCHANGED <<geideaVars, zoho, sweep>>
    BY <1>6 DEF ReconcileWrite
  <2>4. CASE /\ CreditPrepaid(o, charges[c].amount, c)
             /\ job' = [job EXCEPT ![w] = Serve("advance_read", o)]
    <3>1. JobsOK'
      BY <2>1, <2>4, ServeOK, StartOK DEF Steps
    <3>2. DbOK' /\ WalletOK'
      BY <2>1, <2>2, <2>4, CreditOK, ChargeTyped
    <3>3. QED
      BY <2>3, <3>1, <3>2 DEF GatewayOK, geideaVars
  <2>5. CASE Finish(w) /\ UNCHANGED <<db, walletVars>>
    BY <2>1, <2>3, <2>5, FinishOK
       DEF DbOK, WalletOK, walletVars, GatewayOK, geideaVars
  <2>6. QED
    BY <1>6, <2>4, <2>5 DEF ReconcileWrite
<1>7. ASSUME NEW w \in Workers, NEW o \in Orders, InitiateRead(w, o)
      PROVE  TypeOK'
  <2> DEFINE j == [Serve("initiate", o) EXCEPT !.ref = db[o].ref,
                                               !.amount = db[o].total]
  <2>1. db[o].ref \in Refs \cup {None} /\ db[o].total \in Amounts
    BY DEF DbOK, OrderRow
  <2>2. j \in JobState /\ JobOK(j)
    BY <2>1, AmountsAssumption
       DEF Serve, Idle, JobState, JobOK, Steps, OrderSteps
  <2>3. JobsOK'
    BY <1>7, <2>2, StartOK DEF InitiateRead, Begin, Threads
  <2>4. QED
    BY <1>7, <2>3 DEF InitiateRead, DbOK, WalletOK, walletVars, GatewayOK, geideaVars
<1>8. ASSUME NEW w \in Workers, NEW o \in Orders, ReconcileRead(w, o)
      PROVE  TypeOK'
  <2>1. PICK c \in PaidCharges(db[o].ref) :
               Begin(w, [Serve("reconcile", o) EXCEPT !.charge = c])
    BY <1>8 DEF ReconcileRead
  <2> DEFINE j == [Serve("reconcile", o) EXCEPT !.charge = c]
  <2>2. j \in JobState /\ JobOK(j)
    BY DEF PaidCharges, Serve, Idle, JobState, JobOK, Steps, OrderSteps
  <2>3. JobsOK'
    BY <2>1, <2>2, StartOK DEF Begin, Threads
  <2>4. QED
    BY <1>8, <2>3 DEF ReconcileRead, DbOK, WalletOK, walletVars, GatewayOK, geideaVars
<1>9. ASSUME NEW w \in Workers, NEW c \in Charges, Callback(w, c)
      PROVE  TypeOK'
  <2>1. PICK o \in Orders :
               /\ CreditPrepaid(o, charges[c].amount, c)
               /\ job' = [job EXCEPT ![w] = Serve("advance_read", o)]
    BY <1>9 DEF Callback
  <2>2. JobsOK'
    BY <2>1, ServeOK, StartOK DEF Steps, Threads
  <2>3. DbOK' /\ WalletOK'
    BY <2>1, CreditOK, ChargeTyped
  <2>4. QED
    BY <1>9, <2>2, <2>3 DEF Callback, GatewayOK, geideaVars
<1>10. QED
  BY <1>1, <1>2, <1>3, <1>4, <1>5, <1>6, <1>7, <1>8, <1>9 DEF Payment

LEMMA AdvanceTyped ==
  ASSUME TypeOK, NEW t \in Threads, Advance(t)
  PROVE  TypeOK'
<1> USE DEF TypeOK
<1>1. CASE AdvanceRead(t)
  <2>1. JobsOK'
    BY <1>1, GotoOK, FinishOK DEF AdvanceRead, At, Steps
  <2>2. QED
    BY <1>1, <2>1 DEF AdvanceRead, DbOK, WalletOK, walletVars, GatewayOK, geideaVars
<1>2. CASE AdvancePost(t)
  <2>1. JobsOK'
    BY <1>2, GotoOK DEF AdvancePost, At, Steps
  <2>2. zoho' \in [Orders -> Nat]
    BY <1>2, TargetTyped DEF AdvancePost, At
  <2>3. QED
    BY <1>2, <2>1, <2>2 DEF AdvancePost, DbOK, WalletOK, walletVars, GatewayOK, geideaVars
<1>3. CASE AdvanceFails(t)
  BY <1>3, FinishOK
     DEF AdvanceFails, DbOK, WalletOK, walletVars, GatewayOK, geideaVars
<1>4. CASE AdvanceSave(t)
  <2>1. job[t].target \in Orders
    BY <1>4, TargetTyped DEF AdvanceSave, At
  <2>2. DbOK'
    <3> DEFINE row == [db[job[t].target] EXCEPT !.booksPayment = TRUE]
    <3>1. row \in OrderRow
      BY <2>1, RowTyped, ZenonT(60) DEF OrderRow
    <3>2. QED
      BY <1>4, <2>1, <3>1, RowOK DEF AdvanceSave
  <2>3. QED
    BY <1>4, <2>2, FinishOK DEF AdvanceSave, WalletOK, walletVars, GatewayOK, geideaVars
<1>5. QED
  BY <1>1, <1>2, <1>3, <1>4 DEF Advance

\* An order the job read is typed, and so is the cancellation it starts.
LEMMA SweepCancelOK ==
  ASSUME TypeOK, NEW s \in sweep, StartSweepCancel(s)
  PROVE  JobsOK'
<1> DEFINE j == [Serve("sweep_cancel", s.order) EXCEPT !.seen = s.seen, !.ref = s.ref]
<1>1. s.order \in Orders /\ s.seen \in Statuses /\ s.ref \in Refs \cup {None}
  BY DEF TypeOK, Snapshot
<1>2. j \in JobState /\ JobOK(j)
  BY <1>1 DEF Serve, Idle, JobState, JobOK, Steps, OrderSteps
<1>3. QED
  BY <1>2, StartOK DEF TypeOK, StartSweepCancel, Threads

LEMMA SweepTyped == TypeOK /\ Sweep => TypeOK'
<1> SUFFICES ASSUME TypeOK, Sweep PROVE TypeOK'
  OBVIOUS
<1> USE DEF TypeOK
<1>1. CASE SweepStart
  <2>1. \A o \in Orders : db[o].status \in Statuses /\ db[o].ref \in Refs \cup {None}
    BY DEF DbOK, OrderRow
  <2>2. sweep' \subseteq Snapshot
    BY <1>1, <2>1 DEF SweepStart, Snapshot
  <2>3. QED
    BY <1>1, <2>2
       DEF SweepStart, DbOK, WalletOK, walletVars, GatewayOK, geideaVars, JobsOK
<1>2. CASE SweepCancel
  <2> DEFINE o == job[Sweeper].target
  <2>1. o \in Orders
    BY <1>2, TargetTyped DEF SweepCancel, At, Threads
  <2>2. DbOK'
    <3>1. ASSUME NEW voided \in BOOLEAN,
                 db' = [db EXCEPT ![o].status = "cancelled",
                                  ![o].salesorder = VoidIf(voided, o)]
          PROVE  DbOK'
      <4> DEFINE row == [db[o] EXCEPT !.status = "cancelled",
                                      !.salesorder = VoidIf(voided, o)]
      <4>1. row \in OrderRow
        BY <2>1, RowTyped, VoidTyped, ZenonT(60) DEF OrderRow, Statuses
      <4>2. db' = [db EXCEPT ![o] = row]
        BY <2>1, <3>1 DEF DbOK
      <4>3. QED
        BY <2>1, <4>1, <4>2, RowOK
    <3>2. CASE UNCHANGED db
      BY <3>2 DEF DbOK
    <3>3. QED
      BY <1>2, <3>1, <3>2 DEF SweepCancel
  <2>3. GatewayOK'
    BY <1>2 DEF SweepCancel, GatewayOK, CloseLink
  <2>4. QED
    BY <1>2, <2>2, <2>3, FinishOK DEF SweepCancel, Threads, WalletOK, walletVars
<1>3. CASE SweeperCrash
  BY <1>3, FinishOK
     DEF SweeperCrash, Threads, DbOK, WalletOK, walletVars, GatewayOK, geideaVars
<1>4. ASSUME NEW s \in sweep, SweepReconcile(s)
      PROVE  TypeOK'
  <2>1. PICK c \in PaidCharges(s.ref) :
       \/ /\ CreditPrepaid(s.order, charges[c].amount, c)
          /\ job' = [job EXCEPT ![Sweeper] = Serve("advance_read", s.order)]
       \/ /\ job' = [job EXCEPT ![Sweeper] = Serve("advance_read", s.order)]
          /\ UNCHANGED <<db, walletVars>>
       \/ UNCHANGED <<db, walletVars, job>>
    BY <1>4 DEF SweepReconcile
  <2>2. s.order \in Orders /\ c \in Charges
    BY DEF Snapshot, PaidCharges
  <2>3. DbOK' /\ WalletOK'
    BY <2>1, <2>2, CreditOK, ChargeTyped DEF DbOK, WalletOK, walletVars
  <2>4. JobsOK'
    <3>1. CASE job' = [job EXCEPT ![Sweeper] = Serve("advance_read", s.order)]
      BY <2>2, <3>1, ServeOK, StartOK DEF Steps, Threads
    <3>2. CASE UNCHANGED job
      BY <3>2 DEF JobsOK
    <3>3. QED
      BY <2>1, <3>1, <3>2
  <2>5. QED
    BY <1>4, <2>3, <2>4 DEF SweepReconcile, Sweeping, GatewayOK, geideaVars
<1>5. ASSUME NEW s \in sweep,
             SweepFindsNothing(s) \/ SweepFetchFails(s)
      PROVE  TypeOK'
  BY <1>5, SweepCancelOK
     DEF SweepFindsNothing, SweepFetchFails, Sweeping,
         DbOK, WalletOK, walletVars, GatewayOK, geideaVars
<1>6. ASSUME NEW s \in sweep, SweepUndecided(s)
      PROVE  TypeOK'
  BY <1>6 DEF SweepUndecided, Sweeping, DbOK, WalletOK, walletVars,
              GatewayOK, geideaVars, JobsOK
<1>7. QED
  BY <1>1, <1>2, <1>3, <1>4, <1>5, <1>6 DEF Sweep

LEMMA CancelTyped ==
  ASSUME TypeOK, NEW w \in Workers, Cancel(w)
  PROVE  TypeOK'
<1> USE DEF TypeOK
<1>w. w \in Threads
  BY DEF Threads
<1>1. ASSUME NEW o \in Orders, NEW customer \in BOOLEAN, CancelClaim(w, o, customer)
      PROVE  TypeOK'
  <2> DEFINE j == [Serve("cancel_issue", o) EXCEPT !.customer = customer,
                                                   !.amount = RefundAmount(o)]
  <2>1. RefundAmount(o) \in Nat
    BY RowTyped DEF RefundAmount
  <2>2. j \in JobState /\ JobOK(j)
    BY <2>1 DEF Serve, Idle, JobState, JobOK, Steps, OrderSteps
  <2>3. JobsOK'
    BY <1>1, <1>w, <2>2, StartOK DEF CancelClaim, Begin
  <2>4. DbOK'
    BY <1>1 DEF CancelClaim, DbOK, OrderRow
  <2>5. QED
    BY <1>1, <2>3, <2>4 DEF CancelClaim, WalletOK, walletVars, GatewayOK, geideaVars
<1>2. ASSUME NEW o \in Orders, NEW customer \in BOOLEAN,
             CancelWithoutRefund(w, o, customer)
      PROVE  TypeOK'
  <2> DEFINE j == [Serve("cancel_commit", o) EXCEPT !.customer = customer]
  <2>1. j \in JobState /\ JobOK(j)
    BY DEF Serve, Idle, JobState, JobOK, Steps, OrderSteps
  <2>2. JobsOK'
    BY <1>2, <1>w, <2>1, StartOK DEF CancelWithoutRefund, Begin
  <2>3. QED
    BY <1>2, <2>2
       DEF CancelWithoutRefund, DbOK, WalletOK, walletVars, GatewayOK, geideaVars
<1>3. CASE CancelIssue(w) \/ CancelIssueFails(w)
  <2>1. JobsOK'
    BY <1>3, <1>w, GotoOK DEF CancelIssue, CancelIssueFails, At, Steps
  <2>2. \A c \in Charges : GiveBack(c) => charges' \in [Charges -> Charge(Amounts)]
    BY DEF GiveBack, GatewayOK, Charge
  <2>3. GatewayOK'
    BY <1>3, <2>2 DEF CancelIssue, CancelIssueFails, Refundable, GatewayOK
  <2>4. QED
    BY <1>3, <2>1, <2>3 DEF CancelIssue, CancelIssueFails, DbOK, WalletOK, walletVars
<1>4. CASE CancelFinalize(w)
  <2>1. job[w].target \in Orders
    BY <1>4, <1>w, TargetTyped DEF CancelFinalize, At
  <2>2. JobsOK'
    BY <1>4, <1>w, GotoOK DEF CancelFinalize, At, Steps
  <2>3. DbOK'
    BY <1>4, <2>1 DEF CancelFinalize, DbOK, OrderRow
  <2>4. QED
    BY <1>4, <2>2, <2>3 DEF CancelFinalize, WalletOK, walletVars, GatewayOK, geideaVars
<1>5. CASE CancelRelease(w)
  <2>1. job[w].target \in Orders
    BY <1>5, <1>w, TargetTyped DEF CancelRelease, At
  <2>2. DbOK'
    BY <1>5, <2>1 DEF CancelRelease, DbOK, OrderRow
  <2>3. QED
    BY <1>5, <1>w, <2>2, FinishOK
       DEF CancelRelease, WalletOK, walletVars, GatewayOK, geideaVars
<1>6. CASE CancelCommit(w)
  <2> DEFINE o == job[w].target
             reversed == ReversedCredit(o, job[w].amount)
  <2>1. o \in Orders /\ job[w].amount \in Nat
    BY <1>6, <1>w, TargetTyped DEF CancelCommit, At, JobsOK, JobState
  <2>2. DbOK'
    BY <1>6, <2>1 DEF DbOK, CancelCommit, OrderRow, VoidIf, Statuses
  <2>3. reversed \in 0..balance[Owner[o]]
    BY <2>1, RowTyped DEF ReversedCredit, Smaller
  <2>4. WalletOK'
    <3>1. CASE UNCHANGED walletVars
      BY <3>1 DEF walletVars, WalletOK
    <3>2. CASE PostEntry(Owner[o], o, "order_cancel", 0)
      BY <3>2, <2>1, RowTyped, PostOK DEF EntryKinds
    <3>3. CASE PostEntry(Owner[o], o, "order_cancel", - reversed)
      BY <3>3, <2>1, <2>3, RowTyped, PostOK DEF EntryKinds
    <3>4. QED
      BY <1>6, <3>1, <3>2, <3>3 DEF CancelCommit, SettleCredit
  <2>5. GatewayOK'
    BY <1>6 DEF GatewayOK, CancelCommit, CloseLink
  <2>6. QED
    BY <1>6, <1>w, <2>2, <2>4, <2>5, FinishOK DEF CancelCommit
<1>7. CASE CancelRefused(w)
  <2>1. job[w].target \in Orders
    BY <1>7, <1>w, TargetTyped DEF CancelRefused, At
  <2>2. DbOK'
    <3>1. ASSUME NEW voided \in BOOLEAN,
                 db' = [db EXCEPT ![job[w].target].salesorder =
                                    VoidIf(voided, job[w].target)]
          PROVE  DbOK'
      <4> DEFINE row == [db[job[w].target] EXCEPT
                           !.salesorder = VoidIf(voided, job[w].target)]
      <4>1. row \in OrderRow
        BY <2>1, RowTyped, VoidTyped DEF OrderRow
      <4>2. QED
        BY <2>1, <3>1, <4>1, RowOK
    <3>2. CASE UNCHANGED db
      BY <3>2 DEF DbOK
    <3>3. QED
      BY <1>7, <3>1, <3>2 DEF CancelRefused
  <2>3. QED
    BY <1>7, <1>w, <2>2, FinishOK
       DEF CancelRefused, WalletOK, walletVars, GatewayOK, geideaVars
<1>8. QED
  BY <1>1, <1>2, <1>3, <1>4, <1>5, <1>6, <1>7 DEF Cancel

LEMMA StaffTyped ==
  ASSUME TypeOK, NEW w \in Workers, Staff(w)
  PROVE  TypeOK'
<1> USE DEF TypeOK
<1>w. w \in Threads
  BY DEF Threads
<1>1. CASE InvoiceCommit(w)
  <2> DEFINE o == job[w].target
             credit == CreditForInvoice(o)
  <2>1. o \in Orders
    BY <1>1, <1>w, TargetTyped DEF InvoiceCommit, At
  <2>2. credit \in 0..balance[Owner[o]]
    BY <2>1, RowTyped DEF CreditForInvoice, Smaller
  <2>3. DbOK'
    <3> DEFINE pays == credit > 0 /\ ~db[o].booksPayment
               row == [db[o] EXCEPT !.invoice = TRUE, !.applied = @ + credit,
                                    !.booksPayment = IF pays THEN TRUE ELSE @]
    <3>1. db[o].applied + credit \in Nat
      BY <2>1, <2>2, RowTyped
    <3>2. (IF pays THEN TRUE ELSE db[o].booksPayment) \in BOOLEAN
      BY <2>1, RowTyped DEF OrderRow
    <3>3. row \in OrderRow
      <4> DEFINE a == db[o].applied + credit
                 b == IF pays THEN TRUE ELSE db[o].booksPayment
      <4>1. row = [db[o] EXCEPT !.invoice = TRUE, !.applied = a, !.booksPayment = b]
        OBVIOUS
      <4> HIDE DEF a, b
      <4>2. a \in Nat /\ b \in BOOLEAN
        BY <3>1, <3>2 DEF a, b
      <4> HIDE DEF row
      <4>3. QED
        BY <2>1, <4>1, <4>2, RowTyped, ZenonT(60) DEF OrderRow
    <3>4. db' = [db EXCEPT ![o] = row]
      BY <1>1, <2>1 DEF InvoiceCommit, DbOK
    <3>5. QED
      BY <2>1, <3>3, <3>4, RowOK
  <2>4. zoho' \in [Orders -> Nat]
    BY <1>1, <2>1 DEF InvoiceCommit
  <2>5. WalletOK'
    <3>1. CASE UNCHANGED walletVars
      BY <3>1 DEF walletVars, WalletOK
    <3>2. CASE PostEntry(Owner[o], o, "invoice_application", - credit)
      BY <3>2, <2>1, <2>2, RowTyped, PostOK DEF EntryKinds
    <3>3. QED
      BY <1>1, <3>1, <3>2 DEF InvoiceCommit
  <2>6. QED
    BY <1>1, <1>w, <2>3, <2>4, <2>5, FinishOK
       DEF InvoiceCommit, GatewayOK, geideaVars
<1>2. CASE InvoiceFails(w)
  BY <1>2, <1>w, FinishOK
     DEF InvoiceFails, DbOK, WalletOK, walletVars, GatewayOK, geideaVars
<1>3. CASE ConfirmWrite(w) \/ RestageWrite(w) \/ EditWrite(w)
  <2>1. job[w].target \in Orders
    BY <1>3, <1>w, TargetTyped DEF ConfirmWrite, RestageWrite, EditWrite, At
  <2>2. EditWrite(w) => job[w].amount \in Amounts
    BY <1>w DEF EditWrite, At, JobsOK, JobOK
  <2>3. DbOK'
    <3> DEFINE o == job[w].target
    <3>1. CASE ConfirmWrite(w)
      <4>1. [db[o] EXCEPT !.status = "synced"] \in OrderRow
        BY <2>1, RowTyped DEF OrderRow, Statuses
      <4>2. QED
        BY <2>1, <3>1, <4>1, RowOK DEF ConfirmWrite
    <3>2. CASE RestageWrite(w)
      <4> DEFINE row == [db[o] EXCEPT !.stage = "packed",
                           !.status = IF job[w].seen \in EditableStatuses
                                      THEN "synced" ELSE @]
      <4>1. row \in OrderRow
        BY <2>1, RowTyped, ZenonT(60) DEF OrderRow, Statuses
      <4>2. db' = [db EXCEPT ![o] = row]
        BY <2>1, <3>2 DEF RestageWrite, DbOK
      <4>3. QED
        BY <2>1, <4>1, <4>2, RowOK
    <3>3. CASE EditWrite(w)
      <4>1. [db[o] EXCEPT !.total = job[w].amount] \in OrderRow
        BY <2>1, <2>2, <3>3, RowTyped DEF OrderRow
      <4>2. QED
        BY <2>1, <3>3, <4>1, RowOK DEF EditWrite
    <3>4. QED
      BY <1>3, <3>1, <3>2, <3>3
  <2>4. QED
    BY <1>3, <1>w, <2>3, FinishOK
       DEF ConfirmWrite, RestageWrite, EditWrite,
           WalletOK, walletVars, GatewayOK, geideaVars
<1>4. ASSUME NEW o \in Orders, InvoiceCheck(w, o)
      PROVE  TypeOK'
  <2>1. JobsOK'
    BY <1>4, <1>w, ServeOK, StartOK DEF InvoiceCheck, Begin, Steps
  <2>2. QED
    BY <1>4, <2>1 DEF InvoiceCheck, DbOK, WalletOK, walletVars, GatewayOK, geideaVars
<1>5. ASSUME NEW o \in Orders, NEW pc \in {"confirm", "restage"},
             Begin(w, [Serve(pc, o) EXCEPT !.seen = db[o].status])
      PROVE  JobsOK'
  <2> DEFINE j == [Serve(pc, o) EXCEPT !.seen = db[o].status]
  <2>1. db[o].status \in Statuses
    BY DEF DbOK, OrderRow
  <2>2. j \in JobState /\ JobOK(j)
    BY <2>1 DEF Serve, Idle, JobState, JobOK, Steps, OrderSteps
  <2>3. QED
    BY <1>5, <1>w, <2>2, StartOK DEF Begin
<1>6. ASSUME NEW o \in Orders, ConfirmRead(w, o) \/ RestageRead(w, o)
      PROVE  TypeOK'
  <2>1. JobsOK'
    BY <1>5, <1>6 DEF ConfirmRead, RestageRead
  <2>2. QED
    BY <1>6, <2>1
       DEF ConfirmRead, RestageRead, DbOK, WalletOK, walletVars, GatewayOK, geideaVars
<1>7. ASSUME NEW o \in Orders, NEW a \in Amounts, EditRead(w, o, a)
      PROVE  TypeOK'
  <2> DEFINE j == [Serve("edit", o) EXCEPT !.amount = a]
  <2>1. j \in JobState /\ JobOK(j)
    BY AmountsAssumption DEF Serve, Idle, JobState, JobOK, Steps, OrderSteps
  <2>2. JobsOK'
    BY <1>7, <1>w, <2>1, StartOK DEF EditRead, Begin
  <2>3. QED
    BY <1>7, <2>2 DEF EditRead, DbOK, WalletOK, walletVars, GatewayOK, geideaVars
<1>8. QED
  BY <1>1, <1>2, <1>3, <1>4, <1>6, <1>7 DEF Staff

LEMMA OrderTyped ==
  ASSUME TypeOK, NEW o \in Orders, Age(o) \/ RecordBooksPayment(o)
  PROVE  TypeOK'
<1> USE DEF TypeOK
<1>1. /\ [db[o] EXCEPT !.old = TRUE] \in OrderRow
      /\ [db[o] EXCEPT !.booksPayment = TRUE] \in OrderRow
  BY RowTyped, ZenonT(60) DEF OrderRow
<1>2. DbOK'
  BY <1>1, RowOK DEF Age, RecordBooksPayment
<1>3. zoho' \in [Orders -> Nat]
  BY DEF Age, RecordBooksPayment
<1>4. QED
  BY <1>2, <1>3 DEF Age, RecordBooksPayment, WalletOK, walletVars,
                    GatewayOK, geideaVars, JobsOK

LEMMA WorkerTyped ==
  ASSUME TypeOK, NEW w \in Workers
  PROVE  /\ Crash(w) \/ SyncFails(w) \/ SyncCommit(w) => TypeOK'
         /\ \A o \in Orders : SyncCheck(w, o) => TypeOK'
         /\ ProfileSave(w) => TypeOK'
         /\ \A u \in Users : ProfileRead(w, u) => TypeOK'
<1> USE DEF TypeOK
<1>w. w \in Threads
  BY DEF Threads
<1>2. CASE Crash(w) \/ SyncFails(w)
  BY <1>2, <1>w, FinishOK
     DEF Crash, SyncFails, DbOK, WalletOK, walletVars, GatewayOK, geideaVars
<1>3. CASE SyncCommit(w)
  <2>1. job[w].target \in Orders
    BY <1>3, <1>w, TargetTyped DEF SyncCommit, At
  <2>2. [db[job[w].target] EXCEPT !.salesorder = "open"] \in OrderRow
    BY <2>1, RowTyped DEF OrderRow
  <2>3. QED
    BY <1>3, <1>w, <2>1, <2>2, RowOK, FinishOK
       DEF SyncCommit, WalletOK, walletVars, GatewayOK, geideaVars
<1>4. ASSUME NEW o \in Orders, SyncCheck(w, o)
      PROVE  TypeOK'
  <2>1. JobsOK'
    BY <1>4, <1>w, ServeOK, StartOK DEF SyncCheck, Begin, Steps
  <2>2. QED
    BY <1>4, <2>1 DEF SyncCheck, DbOK, WalletOK, walletVars, GatewayOK, geideaVars
<1>5. CASE ProfileSave(w)
  <2>1. job[w].target \in Users /\ job[w].amount \in Nat
    BY <1>5, <1>w DEF ProfileSave, At, JobsOK, JobOK, JobState
  <2>2. WalletOK'
    BY <1>5, <2>1 DEF ProfileSave, OverwriteBalance, WalletOK
  <2>3. QED
    BY <1>5, <1>w, <2>2, FinishOK DEF ProfileSave, DbOK, GatewayOK, geideaVars
<1>6. ASSUME NEW u \in Users, ProfileRead(w, u)
      PROVE  TypeOK'
  <2> DEFINE j == [Serve("profile", u) EXCEPT !.amount = balance[u]]
  <2>1. balance[u] \in Nat
    BY DEF WalletOK
  <2>2. j \in JobState /\ JobOK(j)
    BY <2>1 DEF Serve, Idle, JobState, JobOK, Steps, OrderSteps
  <2>3. JobsOK'
    BY <1>6, <1>w, <2>2, StartOK DEF ProfileRead, Begin
  <2>4. QED
    BY <1>6, <2>3 DEF ProfileRead, DbOK, WalletOK, walletVars, GatewayOK, geideaVars
<1>7. QED
  BY <1>2, <1>3, <1>4, <1>5, <1>6

LEMMA InitTyped == Init => TypeOK
<1> SUFFICES ASSUME Init PROVE TypeOK
  OBVIOUS
<1>1. DbOK
  <2>1. \A a \in Amounts, d \in {"none", "open"} : NewOrder(a, d) \in OrderRow
    BY DEF NewOrder, OrderRow, Statuses
  <2>2. {NewOrder(a, d) : a \in Amounts, d \in {"none", "open"}} \subseteq OrderRow
    BY <2>1
  <2>3. QED
    BY <2>2 DEF Init, DbOK
<1>2. WalletOK
  <2>1. <<>> \in Seq(LedgerRow(Orders))
    OBVIOUS
  <2>2. QED
    BY <2>1 DEF Init, LedgerInit, WalletOK
<1>3. GatewayOK
  BY DEF Init, GeideaInit, GatewayOK, NoCharge, Charge
<1>4. JobsOK
  BY IdleOK DEF Init, JobsOK
<1>5. QED
  BY <1>1, <1>2, <1>3, <1>4 DEF Init, TypeOK

LEMMA NextTyped == TypeOK /\ [Next]_vars => TypeOK'
<1> SUFFICES ASSUME TypeOK, [Next]_vars PROVE TypeOK'
  OBVIOUS
<1>1. CASE UNCHANGED vars
  BY <1>1 DEF vars, TypeOK, DbOK, WalletOK, GatewayOK, JobsOK
<1>2. CASE Payment \/ Sweep
  BY <1>2, PaymentTyped, SweepTyped
<1>3. ASSUME NEW o \in Orders, Age(o) \/ RecordBooksPayment(o)
      PROVE  TypeOK'
  BY <1>3, OrderTyped
<1>4. ASSUME NEW t \in Threads, Advance(t)
      PROVE  TypeOK'
  BY <1>4, AdvanceTyped
<1>5. ASSUME NEW w \in Workers,
             \/ Cancel(w) \/ Staff(w) \/ Crash(w) \/ ProfileSave(w)
             \/ SyncCommit(w) \/ SyncFails(w)
             \/ \E o \in Orders : SyncCheck(w, o)
             \/ \E u \in Users : ProfileRead(w, u)
      PROVE  TypeOK'
  BY <1>5, CancelTyped, StaffTyped, WorkerTyped
<1>6. QED
  BY <1>1, <1>2, <1>3, <1>4, <1>5 DEF Next

\* The state is always typed; in particular no posting, invoice or cancellation
\* ever makes the account credit of a customer negative.
THEOREM TypeCorrect == Spec => []TypeOK
<1>1. QED
  BY InitTyped, NextTyped, PTL DEF Spec

(***************************************************************************)
(* The refund claim is exclusive, and it implements RefundClaim.           *)
(***************************************************************************)

\* A step that writes no claim and lets no worker enter the refund ...
Untouched ==
  /\ \A o \in Orders : db'[o].refund = db[o].refund
  /\ \A w \in Workers : job'[w].pc \in RefundSteps =>
       job[w].pc \in RefundSteps /\ job'[w].target = job[w].target

\* ... which it does when the only thread that moves leaves the refund.
LEMMA MovesElsewhere ==
  ASSUME TypeOK, NEW t \in Threads, NEW j, j.pc \notin RefundSteps,
         job' = [job EXCEPT ![t] = j] \/ UNCHANGED job
  PROVE  \A w \in Workers : job'[w].pc \in RefundSteps =>
           job[w].pc \in RefundSteps /\ job'[w].target = job[w].target
  BY DEF TypeOK, JobsOK, Threads

\* ... keeps the claim exclusive.
LEMMA UntouchedKeeps ==
  ASSUME RefundExclusive, Untouched
  PROVE  RefundExclusive'
  BY DEF RefundExclusive, Refunding, Untouched

LEMMA IdleElsewhere == Idle.pc \notin RefundSteps
  BY DEF Idle, RefundSteps

LEMMA ServeElsewhere ==
  ASSUME NEW pc, NEW o, pc \notin RefundSteps
  PROVE  Serve(pc, o).pc \notin RefundSteps
  BY DEF Serve, Idle

\* Recording a payment leaves the claims alone.
LEMMA CreditUntouched ==
  ASSUME TypeOK, NEW o \in Orders, NEW amount, NEW gw, CreditPrepaid(o, amount, gw)
  PROVE  \A p \in Orders : db'[p].refund = db[p].refund
  BY DEF CreditPrepaid, TypeOK, DbOK, OrderRow

LEMMA PaymentUntouched == TypeOK /\ Payment => Untouched
<1> SUFFICES ASSUME TypeOK, Payment PROVE Untouched
  OBVIOUS
<1>t. Workers \subseteq Threads
  BY DEF Threads
<1>1. ASSUME NEW c \in Charges, NEW s \in sessions, CustomerPays(c, s)
      PROVE  Untouched
  BY <1>1 DEF CustomerPays, Untouched
<1>2. ASSUME NEW o \in Orders, NEW gw \in Charges \cup {None},
             RecordPaymentSuccess(o, gw)
      PROVE  Untouched
  BY <1>2, CreditUntouched DEF RecordPaymentSuccess, Untouched
<1>3. ASSUME NEW w \in Workers, InitiateSession(w) \/ InitiateLink(w) \/ InitiateEnds(w)
      PROVE  Untouched
  <2>1. \A o \in Orders : db'[o].refund = db[o].refund
    <3>1. CASE InitiateSession(w)
      BY <3>1 DEF InitiateSession, TypeOK, DbOK, OrderRow
    <3>2. CASE InitiateLink(w)
      BY <3>2 DEF InitiateLink, TypeOK, DbOK, OrderRow
    <3>3. CASE InitiateEnds(w)
      BY <3>3 DEF InitiateEnds
    <3>4. QED
      BY <1>3, <3>1, <3>2, <3>3
  <2>2. job' = [job EXCEPT ![w] = Idle]
    BY <1>3 DEF InitiateSession, InitiateLink, InitiateEnds, Finish
  <2>3. QED
    BY <1>t, <2>1, <2>2, MovesElsewhere, IdleElsewhere DEF Untouched
<1>4. ASSUME NEW w \in Workers, ReconcileWrite(w)
      PROVE  Untouched
  <2> DEFINE o == job[w].target
             c == job[w].charge
  <2>1. o \in Orders
    BY <1>4, <1>t, TargetTyped DEF ReconcileWrite, At, TypeOK
  <2>2. CASE /\ CreditPrepaid(o, charges[c].amount, c)
             /\ job' = [job EXCEPT ![w] = Serve("advance_read", o)]
    <3>1. Serve("advance_read", o).pc \notin RefundSteps
      BY ServeElsewhere DEF RefundSteps
    <3>2. QED
      BY <1>t, <2>1, <2>2, <3>1, CreditUntouched, MovesElsewhere DEF Untouched
  <2>3. CASE Finish(w) /\ UNCHANGED db
    BY <1>t, <2>3, MovesElsewhere, IdleElsewhere DEF Finish, Untouched
  <2>4. QED
    BY <1>4, <2>2, <2>3 DEF ReconcileWrite
<1>5. ASSUME NEW w \in Workers, NEW o \in Orders, InitiateRead(w, o) \/ ReconcileRead(w, o)
      PROVE  Untouched
  <2>1. PICK j : j.pc \notin RefundSteps /\ job' = [job EXCEPT ![w] = j]
    <3>1. CASE InitiateRead(w, o)
      <4> DEFINE k == [Serve("initiate", o) EXCEPT !.ref = db[o].ref,
                                                   !.amount = db[o].total]
      <4>1. k.pc \notin RefundSteps
        BY DEF Serve, Idle, RefundSteps
      <4>2. QED
        BY <3>1, <4>1 DEF InitiateRead, Begin
    <3>2. CASE ReconcileRead(w, o)
      <4>1. PICK c : Begin(w, [Serve("reconcile", o) EXCEPT !.charge = c])
        BY <3>2 DEF ReconcileRead
      <4>2. [Serve("reconcile", o) EXCEPT !.charge = c].pc \notin RefundSteps
        BY DEF Serve, Idle, RefundSteps
      <4>3. QED
        BY <4>1, <4>2 DEF Begin
    <3>3. QED
      BY <1>5, <3>1, <3>2
  <2>2. UNCHANGED db
    BY <1>5 DEF InitiateRead, ReconcileRead
  <2>3. QED
    BY <1>t, <2>1, <2>2, MovesElsewhere DEF Untouched
<1>6. ASSUME NEW w \in Workers, NEW c \in Charges, Callback(w, c)
      PROVE  Untouched
  <2>1. PICK o \in Orders :
               /\ CreditPrepaid(o, charges[c].amount, c)
               /\ job' = [job EXCEPT ![w] = Serve("advance_read", o)]
    BY <1>6 DEF Callback
  <2>2. Serve("advance_read", o).pc \notin RefundSteps
    BY ServeElsewhere DEF RefundSteps
  <2>3. QED
    BY <1>t, <2>1, <2>2, CreditUntouched, MovesElsewhere DEF Untouched
<1>7. QED
  BY <1>1, <1>2, <1>3, <1>4, <1>5, <1>6 DEF Payment

LEMMA AdvanceUntouched ==
  ASSUME TypeOK, NEW t \in Threads, Advance(t)
  PROVE  Untouched
<1>1. PICK j : j.pc \notin RefundSteps /\ job' = [job EXCEPT ![t] = j]
  <2>1. CASE AdvanceRead(t) \/ AdvancePost(t)
    <3>1. PICK pc \in {"advance_post", "advance_save"} :
                 job' = [job EXCEPT ![t].pc = pc] \/ job' = [job EXCEPT ![t] = Idle]
      BY <2>1 DEF AdvanceRead, AdvancePost, Goto, Finish
    <3>2. [job[t] EXCEPT !.pc = pc].pc \notin RefundSteps
      BY DEF RefundSteps, TypeOK, JobsOK, JobState
    <3>3. QED
      BY <3>1, <3>2, IdleElsewhere
  <2>2. CASE AdvanceFails(t) \/ AdvanceSave(t)
    BY <2>2, IdleElsewhere DEF AdvanceFails, AdvanceSave, Finish
  <2>3. QED
    BY <2>1, <2>2 DEF Advance
<1>2. \A o \in Orders : db'[o].refund = db[o].refund
  BY DEF Advance, AdvanceRead, AdvancePost, AdvanceFails, AdvanceSave,
         TypeOK, DbOK, OrderRow
<1>3. QED
  BY <1>1, <1>2, MovesElsewhere DEF Untouched

LEMMA SweepUntouched == TypeOK /\ Sweep => Untouched
<1> SUFFICES ASSUME TypeOK, Sweep PROVE Untouched
  OBVIOUS
<1>1. \A w \in Workers : job'[w] = job[w]
  BY ThreadAssumption
     DEF Sweep, SweepStart, SweepCancel, SweeperCrash, SweepReconcile,
         SweepFindsNothing, SweepFetchFails, SweepUndecided, StartSweepCancel,
         Finish, TypeOK, JobsOK, Threads
<1>2. ASSUME NEW s \in sweep, SweepReconcile(s)
      PROVE  \A o \in Orders : db'[o].refund = db[o].refund
  <2>1. s.order \in Orders
    BY DEF TypeOK, Snapshot
  <2>2. QED
    BY <1>2, <2>1, CreditUntouched DEF SweepReconcile
<1>3. CASE SweepCancel
  <2> DEFINE o == job[Sweeper].target
  <2>1. \/ UNCHANGED db
        \/ \E d : db' = [db EXCEPT ![o].status = "cancelled", ![o].salesorder = d]
    BY <1>3 DEF SweepCancel
  <2>2. \A p \in Orders : db'[p].refund = db[p].refund
    <3>1. CASE UNCHANGED db
      BY <3>1
    <3>2. ASSUME NEW d,
                 db' = [db EXCEPT ![o].status = "cancelled", ![o].salesorder = d]
          PROVE  \A p \in Orders : db'[p].refund = db[p].refund
      BY <3>2 DEF TypeOK, DbOK, OrderRow
    <3>3. QED
      BY <2>1, <3>1, <3>2
  <2>3. QED
    BY <1>1, <2>2 DEF Untouched
<1>4. ASSUME NEW s \in sweep,
             SweepFindsNothing(s) \/ SweepFetchFails(s) \/ SweepUndecided(s)
      PROVE  UNCHANGED db
  BY <1>4 DEF SweepFindsNothing, SweepFetchFails, SweepUndecided
<1>5. CASE SweepStart \/ SweeperCrash
  BY <1>1, <1>5 DEF SweepStart, SweeperCrash, Untouched
<1>6. QED
  BY <1>1, <1>2, <1>3, <1>4, <1>5 DEF Sweep, Untouched

LEMMA StaffUntouched ==
  ASSUME TypeOK, NEW w \in Workers, Staff(w)
  PROVE  Untouched
<1>t. w \in Threads
  BY DEF Threads
<1>1. ASSUME InvoiceCommit(w) \/ InvoiceFails(w) \/ ConfirmWrite(w)
               \/ RestageWrite(w) \/ EditWrite(w)
      PROVE  Untouched
  <2>1. job' = [job EXCEPT ![w] = Idle]
    BY <1>1, SMTT(60) DEF InvoiceCommit, InvoiceFails, ConfirmWrite, RestageWrite,
                EditWrite, Finish
  <2>2. \A o \in Orders : db'[o].refund = db[o].refund
    <3>1. CASE InvoiceCommit(w)
      BY <3>1 DEF InvoiceCommit, TypeOK, DbOK, OrderRow
    <3>2. CASE InvoiceFails(w) \/ EditWrite(w)
      BY <3>2 DEF InvoiceFails, EditWrite, TypeOK, DbOK, OrderRow
    <3>3. CASE ConfirmWrite(w) \/ RestageWrite(w)
      BY <3>3 DEF ConfirmWrite, RestageWrite, TypeOK, DbOK, OrderRow
    <3>4. QED
      BY <1>1, <3>1, <3>2, <3>3
  <2>3. QED
    BY <1>t, <2>1, <2>2, MovesElsewhere, IdleElsewhere, SMTT(60) DEF Untouched
<1>2. ASSUME NEW o \in Orders, InvoiceCheck(w, o)
      PROVE  Untouched
  <2>1. Serve("invoice", o).pc \notin RefundSteps
    BY ServeElsewhere DEF RefundSteps
  <2>2. QED
    BY <1>2, <1>t, <2>1, MovesElsewhere DEF InvoiceCheck, Begin, Untouched
<1>3. ASSUME NEW o \in Orders, ConfirmRead(w, o) \/ RestageRead(w, o)
      PROVE  Untouched
  <2>1. PICK pc \in {"confirm", "restage"} :
               job' = [job EXCEPT ![w] = [Serve(pc, o) EXCEPT !.seen = db[o].status]]
    BY <1>3 DEF ConfirmRead, RestageRead, Begin
  <2>2. [Serve(pc, o) EXCEPT !.seen = db[o].status].pc \notin RefundSteps
    BY DEF Serve, Idle, RefundSteps
  <2>3. UNCHANGED db
    BY <1>3 DEF ConfirmRead, RestageRead
  <2>4. QED
    BY <1>t, <2>1, <2>2, <2>3, MovesElsewhere DEF Untouched
<1>4. ASSUME NEW o \in Orders, NEW a \in Amounts, EditRead(w, o, a)
      PROVE  Untouched
  <2>1. [Serve("edit", o) EXCEPT !.amount = a].pc \notin RefundSteps
    BY DEF Serve, Idle, RefundSteps
  <2>2. QED
    BY <1>4, <1>t, <2>1, MovesElsewhere DEF EditRead, Begin, Untouched
<1>5. QED
  BY <1>1, <1>2, <1>3, <1>4 DEF Staff

\* Documents, time, the books payment and the profile.
LEMMA OthersUntouched ==
  ASSUME TypeOK
  PROVE  /\ \A o \in Orders : Age(o) \/ RecordBooksPayment(o) => Untouched
         /\ \A w \in Workers :
              /\ ProfileSave(w) \/ SyncCommit(w) \/ SyncFails(w) => Untouched
              /\ \A o \in Orders : SyncCheck(w, o) => Untouched
              /\ \A u \in Users : ProfileRead(w, u) => Untouched
<1>1. ASSUME NEW o \in Orders, Age(o) \/ RecordBooksPayment(o)
      PROVE  Untouched
  BY <1>1 DEF Age, RecordBooksPayment, Untouched, TypeOK, DbOK, OrderRow
<1>2. ASSUME NEW w \in Workers, ProfileSave(w) \/ SyncCommit(w) \/ SyncFails(w)
      PROVE  Untouched
  <2>1. job' = [job EXCEPT ![w] = Idle]
    BY <1>2 DEF ProfileSave, SyncCommit, SyncFails, Finish
  <2>2. \A o \in Orders : db'[o].refund = db[o].refund
    BY <1>2 DEF ProfileSave, SyncCommit, SyncFails, TypeOK, DbOK, OrderRow
  <2>3. QED
    BY <2>1, <2>2, MovesElsewhere, IdleElsewhere DEF Untouched, Threads
<1>3. ASSUME NEW w \in Workers, NEW o \in Orders, SyncCheck(w, o)
      PROVE  Untouched
  <2>1. Serve("sync", o).pc \notin RefundSteps
    BY ServeElsewhere DEF RefundSteps
  <2>2. QED
    BY <1>3, <2>1, MovesElsewhere DEF SyncCheck, Begin, Untouched, Threads
<1>4. ASSUME NEW w \in Workers, NEW u \in Users, ProfileRead(w, u)
      PROVE  Untouched
  <2>1. [Serve("profile", u) EXCEPT !.amount = balance[u]].pc \notin RefundSteps
    BY DEF Serve, Idle, RefundSteps
  <2>2. QED
    BY <1>4, <2>1, MovesElsewhere DEF ProfileRead, Begin, Untouched, Threads
<1>5. QED
  BY <1>1, <1>2, <1>3, <1>4

(***************************************************************************)
(* The three steps that write a claim, and all the others.                 *)
(***************************************************************************)
Claims(w) == \E o \in Orders, customer \in BOOLEAN : CancelClaim(w, o, customer)

LEMMA CancelUntouched ==
  ASSUME TypeOK, NEW w \in Workers, Cancel(w),
         ~Claims(w), ~CancelFinalize(w), ~CancelRelease(w)
  PROVE  Untouched
<1>t. w \in Threads
  BY DEF Threads
<1>1. ASSUME NEW o \in Orders, NEW customer \in BOOLEAN,
             CancelWithoutRefund(w, o, customer)
      PROVE  Untouched
  <2>1. [Serve("cancel_commit", o) EXCEPT !.customer = customer].pc \notin RefundSteps
    BY DEF Serve, Idle, RefundSteps
  <2>2. QED
    BY <1>1, <1>t, <2>1, MovesElsewhere DEF CancelWithoutRefund, Begin, Untouched
<1>2. CASE CancelIssue(w) \/ CancelIssueFails(w)
  <2>1. PICK pc : job' = [job EXCEPT ![w].pc = pc]
    BY <1>2 DEF CancelIssue, CancelIssueFails, Goto
  <2>2. job[w].pc \in RefundSteps
    BY <1>2 DEF CancelIssue, CancelIssueFails, At, RefundSteps
  <2>3. \A v \in Workers : job'[v].pc \in RefundSteps =>
          job[v].pc \in RefundSteps /\ job'[v].target = job[v].target
    BY <1>t, <2>1, <2>2 DEF TypeOK, JobsOK, JobState, Threads
  <2>4. QED
    BY <1>2, <2>3 DEF CancelIssue, CancelIssueFails, Untouched
<1>3. CASE CancelCommit(w) \/ CancelRefused(w)
  <2>1. job' = [job EXCEPT ![w] = Idle]
    BY <1>3 DEF CancelCommit, CancelRefused, Finish
  <2> DEFINE o == job[w].target
  <2>2. \A p \in Orders : db'[p].refund = db[p].refund
    <3>1. CASE CancelCommit(w)
      BY <3>1 DEF CancelCommit, TypeOK, DbOK, OrderRow
    <3>2. CASE CancelRefused(w)
      <4>1. UNCHANGED db \/ \E d : db' = [db EXCEPT ![o].salesorder = d]
        BY <3>2 DEF CancelRefused
      <4>2. ASSUME NEW d, db' = [db EXCEPT ![o].salesorder = d]
            PROVE  \A p \in Orders : db'[p].refund = db[p].refund
        BY <4>2 DEF TypeOK, DbOK, OrderRow
      <4>3. QED
        BY <4>1, <4>2
    <3>3. QED
      BY <1>3, <3>1, <3>2
  <2>3. QED
    BY <1>t, <2>1, <2>2, MovesElsewhere, IdleElsewhere DEF Untouched
<1>4. QED
  BY <1>1, <1>2, <1>3 DEF Cancel, Claims

LEMMA ClaimMoves ==
  TypeOK /\ [Next]_vars =>
    Untouched \/ \E w \in Workers : Claims(w) \/ CancelFinalize(w) \/ CancelRelease(w)
<1> SUFFICES ASSUME TypeOK, [Next]_vars,
                    ~\E w \in Workers :
                        Claims(w) \/ CancelFinalize(w) \/ CancelRelease(w)
             PROVE  Untouched
  OBVIOUS
<1>1. CASE UNCHANGED vars
  BY <1>1 DEF vars, Untouched
<1>2. CASE Payment \/ Sweep
  BY <1>2, PaymentUntouched, SweepUntouched
<1>3. ASSUME NEW o \in Orders, Age(o) \/ RecordBooksPayment(o)
      PROVE  Untouched
  BY <1>3, OthersUntouched
<1>4. ASSUME NEW t \in Threads, Advance(t)
      PROVE  Untouched
  BY <1>4, AdvanceUntouched
<1>5. ASSUME NEW w \in Workers, Cancel(w) \/ Staff(w)
      PROVE  Untouched
  BY <1>5, CancelUntouched, StaffUntouched
<1>6. ASSUME NEW w \in Workers, Crash(w)
      PROVE  Untouched
  BY <1>6, MovesElsewhere, IdleElsewhere DEF Crash, Finish, Untouched, Threads
<1>7. ASSUME NEW w \in Workers,
             \/ ProfileSave(w) \/ SyncCommit(w) \/ SyncFails(w)
             \/ \E o \in Orders : SyncCheck(w, o)
             \/ \E u \in Users : ProfileRead(w, u)
      PROVE  Untouched
  BY <1>7, OthersUntouched
<1>8. QED
  BY <1>1, <1>2, <1>3, <1>4, <1>5, <1>6, <1>7 DEF Next

(***************************************************************************)
(* The invariant: it needs no strengthening, because a worker that enters  *)
(* the refund finds the row free, so no other worker is inside, and the    *)
(* worker that writes the claim later leaves.                              *)
(***************************************************************************)
LEMMA ClaimFields ==
  ASSUME TypeOK, NEW w \in Workers, NEW o \in Orders, NEW customer,
         CancelClaim(w, o, customer)
  PROVE  /\ db[o].refund = None
         /\ job[w].pc = "idle"
         /\ \A p \in Orders : db'[p].refund = IF p = o THEN w ELSE db[p].refund
         /\ \A v \in Workers :
              /\ v # w => job'[v] = job[v]
              /\ job'[w].pc \in RefundSteps /\ job'[w].target = o
<1> DEFINE j == [Serve("cancel_issue", o) EXCEPT !.customer = customer,
                                                 !.amount = RefundAmount(o)]
<1>1. j.pc \in RefundSteps /\ j.target = o
  BY DEF Serve, Idle, RefundSteps
<1>2. job[w] = Idle /\ job' = [job EXCEPT ![w] = j]
  BY DEF CancelClaim, Begin
<1>3. \A v \in Workers : job'[v] = IF v = w THEN j ELSE job[v]
  BY <1>2 DEF TypeOK, JobsOK, Threads
<1> HIDE DEF j
<1>4. db[o].refund = None /\ job[w].pc = "idle"
  BY <1>2 DEF CancelClaim, ClaimFree, Idle
<1>5. \A p \in Orders : db'[p].refund = IF p = o THEN w ELSE db[p].refund
  BY DEF CancelClaim, TypeOK, DbOK, OrderRow
<1>6. QED
  BY <1>1, <1>3, <1>4, <1>5

\* The worker that finalizes or releases holds the row; it writes the claim of
\* that row and no other, and leaves the refund.
LEMMA FreeFields ==
  ASSUME TypeOK, RefundExclusive, NEW w \in Workers,
         CancelFinalize(w) \/ CancelRelease(w)
  PROVE  /\ job[w].target \in Orders /\ w \in Refunding(job[w].target)
         /\ db[job[w].target].refund = w
         /\ \A p \in Orders :
              p # job[w].target => db'[p].refund = db[p].refund
         /\ db'[job[w].target].refund = IF CancelFinalize(w) THEN Refunded ELSE None
         /\ \A v \in Workers : v # w => job'[v] = job[v]
         /\ job'[w].pc \notin RefundSteps
<1> DEFINE o == job[w].target
<1>t. w \in Threads
  BY DEF Threads
<1>1. o \in Orders /\ job[w].pc \in RefundSteps
  BY <1>t, TargetTyped DEF CancelFinalize, CancelRelease, At, RefundSteps, TypeOK
<1>2. w \in Refunding(o)
  BY <1>1 DEF Refunding
<1>3. db[o].refund = w
  BY <1>1, <1>2 DEF RefundExclusive
<1>4. \A p \in Orders : p # o => db'[p].refund = db[p].refund
  BY DEF CancelFinalize, CancelRelease, TypeOK, DbOK
<1>5. db'[o].refund = IF CancelFinalize(w) THEN Refunded ELSE None
  BY <1>1, <1>3 DEF CancelFinalize, CancelRelease, At, TypeOK, DbOK, OrderRow
<1>6. /\ \A v \in Workers : v # w => job'[v] = job[v]
      /\ job'[w].pc \notin RefundSteps
  <2>1. CASE CancelFinalize(w)
    <3>1. job' = [job EXCEPT ![w].pc = "cancel_commit"]
      BY <1>3, <2>1 DEF CancelFinalize, Goto
    <3>2. job'[w].pc = "cancel_commit"
      BY <1>t, <3>1 DEF TypeOK, JobsOK, JobState
    <3>3. QED
      BY <1>t, <3>1, <3>2 DEF TypeOK, JobsOK, RefundSteps
  <2>2. CASE CancelRelease(w)
    BY <1>t, <2>2, IdleElsewhere DEF CancelRelease, Finish, TypeOK, JobsOK
  <2>3. QED
    BY <2>1, <2>2
<1>7. QED
  BY <1>1, <1>2, <1>3, <1>4, <1>5, <1>6

LEMMA ExclusiveKept == TypeOK /\ RefundExclusive /\ [Next]_vars => RefundExclusive'
<1> SUFFICES ASSUME TypeOK, RefundExclusive, [Next]_vars
             PROVE  RefundExclusive'
  OBVIOUS
<1>1. CASE Untouched
  BY <1>1, UntouchedKeeps
<1>2. ASSUME NEW w \in Workers, NEW o \in Orders, NEW customer \in BOOLEAN,
             CancelClaim(w, o, customer)
      PROVE  RefundExclusive'
  <2>1. Refunding(o) = {}
    BY <1>2, ClaimFields, ThreadAssumption DEF RefundExclusive, Refunding
  <2>2. QED
    BY <1>2, <2>1, ClaimFields DEF RefundExclusive, Refunding
<1>3. ASSUME NEW w \in Workers, CancelFinalize(w) \/ CancelRelease(w)
      PROVE  RefundExclusive'
  BY <1>3, FreeFields DEF RefundExclusive, Refunding
<1>4. QED
  BY <1>1, <1>2, <1>3, ClaimMoves DEF Claims

\* Whatever the number of workers and orders, and whichever requests die: only
\* the worker whose token is on the row asks Geidea for the refund.
THEOREM RefundIsExclusive == Spec => []RefundExclusive
<1>1. Init => RefundExclusive
  BY DEF Init, RefundExclusive, Refunding, RefundSteps, Idle, Threads
<1>2. QED
  BY <1>1, ExclusiveKept, TypeCorrect, PTL DEF Spec

(***************************************************************************)
(* Refinement: seen from one order, every step is a step of RefundClaim or *)
(* a stutter.                                                              *)
(***************************************************************************)
LEMMA UntouchedClaims ==
  ASSUME RefundExclusive, Untouched, NEW o \in Orders
  PROVE  [Claim(o)!Next]_(Claim(o)!vars)
<1>1. db'[o].refund = db[o].refund /\ Refunding(o)' \subseteq Refunding(o)
  BY DEF Untouched, Refunding
<1>2. CASE Refunding(o)' = Refunding(o)
  BY <1>1, <1>2 DEF Claim!vars
<1>3. CASE Refunding(o)' # Refunding(o)
  <2>1. PICK w \in Refunding(o) : w \notin Refunding(o)'
    BY <1>1, <1>3
  <2>2. \A v \in Refunding(o) : v = w
    BY <2>1 DEF RefundExclusive
  <2>3. Refunding(o)' = Refunding(o) \ {w} /\ w \in Workers
    BY <1>1, <2>1, <2>2 DEF Refunding
  <2>4. Claim(o)!Die(w)
    BY <1>1, <2>1, <2>3 DEF Claim!Die
  <2>5. QED
    BY <2>3, <2>4 DEF Claim!Next
<1>4. QED
  BY <1>2, <1>3

LEMMA ClaimImplements ==
  ASSUME TypeOK, RefundExclusive, [Next]_vars, NEW o \in Orders
  PROVE  [Claim(o)!Next]_(Claim(o)!vars)
<1>1. CASE Untouched
  BY <1>1, UntouchedClaims
<1>2. ASSUME NEW w \in Workers, NEW p \in Orders, NEW customer \in BOOLEAN,
             CancelClaim(w, p, customer)
      PROVE  [Claim(o)!Next]_(Claim(o)!vars)
  <2>1. CASE p = o
    <3>1. db[o].refund = None /\ db'[o].refund = w
      BY <1>2, <2>1, ClaimFields
    <3>2. Refunding(o)' = Refunding(o) \cup {w}
      BY <1>2, <2>1, ClaimFields DEF Refunding
    <3>3. Claim(o)!Take(w)
      BY <3>1, <3>2 DEF Claim!Take
    <3>4. QED
      BY <3>3 DEF Claim!Next
  <2>2. CASE p # o
    <3>1. db'[o].refund = db[o].refund
      BY <1>2, <2>2, ClaimFields
    <3>2. Refunding(o)' = Refunding(o)
      BY <1>2, <2>2, ClaimFields DEF Refunding, RefundSteps
    <3>3. QED
      BY <3>1, <3>2 DEF Claim!vars
  <2>3. QED
    BY <2>1, <2>2
<1>3. ASSUME NEW w \in Workers, CancelFinalize(w) \/ CancelRelease(w)
      PROVE  [Claim(o)!Next]_(Claim(o)!vars)
  <2>1. CASE o = job[w].target
    <3>1. db[o].refund = w /\ w \in Refunding(o)
      BY <1>3, <2>1, FreeFields
    <3>2. Refunding(o)' = Refunding(o) \ {w}
      BY <1>3, FreeFields DEF Refunding
    <3>3. db'[o].refund = IF CancelFinalize(w) THEN Refunded ELSE None
      BY <1>3, <2>1, FreeFields
    <3>4. Claim(o)!Finalize(w) \/ Claim(o)!Release(w)
      BY <3>1, <3>2, <3>3 DEF Claim!Finalize, Claim!Release
    <3>5. QED
      BY <3>4 DEF Claim!Next
  <2>2. CASE o # job[w].target
    <3>1. db'[o].refund = db[o].refund
      BY <1>3, <2>2, FreeFields
    <3>2. Refunding(o)' = Refunding(o)
      BY <1>3, <2>2, FreeFields DEF Refunding
    <3>3. QED
      BY <3>1, <3>2 DEF Claim!vars
  <2>3. QED
    BY <2>1, <2>2
<1>4. QED
  BY <1>1, <1>2, <1>3, ClaimMoves DEF Claims

\* The claim on every order row implements RefundClaim: a finished refund is
\* final, only the holder writes the row, a dead request leaves it claimed.
THEOREM ClaimRefines == Spec => RefundClaimed
<1>1. Init => \A o \in Orders : Claim(o)!Init
  <2>1. ASSUME Init, NEW o \in Orders
        PROVE  db[o].refund = None /\ Refunding(o) = {}
    BY <2>1 DEF Init, NewOrder, Refunding, RefundSteps, Idle, Threads
  <2>2. QED
    BY <2>1 DEF Claim!Init
<1>2. TypeOK /\ RefundExclusive /\ [Next]_vars =>
        [\A o \in Orders : [Claim(o)!Next]_(Claim(o)!vars)]_vars
  BY ClaimImplements
<1>3. QED
  BY <1>1, <1>2, TypeCorrect, RefundIsExclusive, PTL DEF Spec, RefundClaimed

(***************************************************************************)
(* Where the charges, the references and the records of payments of the   *)
(* next state come from.                                                   *)
(***************************************************************************)
\* A charge stays as it is, is captured from a session, or is given back.
ChargeFrom(c) ==
  \/ charges'[c] = charges[c]
  \/ /\ charges[c].state = "none"
     /\ \E s \in sessions :
          charges'[c] = [state |-> "paid", ref |-> s.ref, amount |-> s.amount]
  \/ /\ charges[c].state = "paid"
     /\ charges'[c] = [charges[c] EXCEPT !.state = "refunded"]

LEMMA ChargesFrom ==
  ASSUME TypeOK, [Next]_vars, NEW c \in Charges
  PROVE  ChargeFrom(c)
<1>1. ASSUME UNCHANGED charges
      PROVE  ChargeFrom(c)
  BY <1>1 DEF ChargeFrom
<1>2. ASSUME NEW b \in Charges, NEW s \in sessions, CustomerPays(b, s)
      PROVE  ChargeFrom(c)
  <2>1. /\ charges[b].state = "none"
        /\ charges' = [charges EXCEPT
                 ![b] = [state |-> "paid", ref |-> s.ref, amount |-> s.amount]]
    BY <1>2 DEF CustomerPays, Capture
  <2>2. QED
    BY <2>1 DEF ChargeFrom, TypeOK, GatewayOK
<1>3. ASSUME NEW w \in Workers, CancelIssue(w) \/ CancelIssueFails(w)
      PROVE  ChargeFrom(c)
  <2>1. \/ UNCHANGED charges
        \/ LET b == db[job[w].target].gatewayRef IN Refundable(b) /\ GiveBack(b)
    BY <1>3 DEF CancelIssue, CancelIssueFails
  <2>2. ASSUME NEW b, Refundable(b), GiveBack(b)
        PROVE  ChargeFrom(c)
    BY <2>2 DEF Refundable, GiveBack, ChargeFrom, TypeOK, GatewayOK
  <2>3. QED
    BY <1>1, <2>1, <2>2
<1>4. CASE Payment
  <2>1. (\E b \in Charges, s \in sessions : CustomerPays(b, s)) \/ UNCHANGED charges
    BY <1>4 DEF Payment, RecordPaymentSuccess, InitiateSession, InitiateLink, InitiateEnds,
                ReconcileWrite, InitiateRead, ReconcileRead, Callback, geideaVars
  <2>2. QED
    BY <1>1, <1>2, <2>1
<1>5. CASE Sweep
  <2>1. UNCHANGED charges
    BY <1>5 DEF Sweep, SweepStart, SweepCancel, SweeperCrash, SweepReconcile,
                SweepFindsNothing, SweepFetchFails, SweepUndecided, geideaVars
  <2>2. QED
    BY <1>1, <2>1
<1>6. ASSUME NEW w \in Workers, Cancel(w)
      PROVE  ChargeFrom(c)
  <2>1. CancelIssue(w) \/ CancelIssueFails(w) \/ UNCHANGED charges
    BY <1>6 DEF Cancel, CancelClaim, CancelWithoutRefund, CancelFinalize, CancelRelease,
                CancelCommit, CancelRefused, geideaVars
  <2>2. QED
    BY <1>1, <1>3, <2>1
<1>7. ASSUME NEW w \in Workers, Staff(w)
      PROVE  UNCHANGED charges
  BY <1>7 DEF Staff, InvoiceCommit, InvoiceFails, ConfirmWrite, RestageWrite, EditWrite,
              InvoiceCheck, ConfirmRead, RestageRead, EditRead, geideaVars
<1>8. CASE UNCHANGED vars
  BY <1>1, <1>8 DEF vars, geideaVars
<1>9. ASSUME NEW t \in Threads, Advance(t)
      PROVE  UNCHANGED charges
  BY <1>9 DEF Advance, AdvanceRead, AdvancePost, AdvanceFails, AdvanceSave, geideaVars
<1>10. ASSUME NEW o \in Orders, Age(o) \/ RecordBooksPayment(o)
       PROVE  UNCHANGED charges
  BY <1>10 DEF Age, RecordBooksPayment, geideaVars
<1>11. ASSUME NEW w \in Workers,
              \/ Crash(w) \/ ProfileSave(w) \/ SyncCommit(w) \/ SyncFails(w)
              \/ \E o \in Orders : SyncCheck(w, o)
              \/ \E u \in Users : ProfileRead(w, u)
       PROVE  UNCHANGED charges
  BY <1>11 DEF Crash, ProfileSave, SyncCommit, SyncFails, SyncCheck, ProfileRead, geideaVars
<1>12. QED
  BY <1>1, <1>4, <1>5, <1>6, <1>7, <1>8, <1>9, <1>10, <1>11 DEF Next

\* The queryset of the job holds references the orders have, or had.
LEMMA SweptFrom ==
  ASSUME TypeOK, [Next]_vars, NEW s \in sweep'
  PROVE  s \in sweep \/ (s.order \in Orders /\ s.ref = db[s.order].ref)
<1>1. CASE Payment
  BY <1>1 DEF Payment, CustomerPays, RecordPaymentSuccess, InitiateSession, InitiateLink,
              InitiateEnds, ReconcileWrite, InitiateRead, ReconcileRead, Callback
<1>2. CASE SweepStart
  BY <1>2 DEF SweepStart
<1>3. CASE Sweep /\ ~SweepStart
  BY <1>3 DEF Sweep, SweepCancel, SweeperCrash, SweepReconcile,
              SweepFindsNothing, SweepFetchFails, SweepUndecided, Sweeping
<1>4. ASSUME NEW w \in Workers, Cancel(w) \/ Staff(w)
      PROVE  UNCHANGED sweep
  BY <1>4 DEF Cancel, CancelClaim, CancelWithoutRefund, CancelIssue, CancelIssueFails,
              CancelFinalize, CancelRelease, CancelCommit, CancelRefused,
              Staff, InvoiceCommit, InvoiceFails, ConfirmWrite, RestageWrite, EditWrite,
              InvoiceCheck, ConfirmRead, RestageRead, EditRead
<1>5. ASSUME NEW t \in Threads, Advance(t)
      PROVE  UNCHANGED sweep
  BY <1>5 DEF Advance, AdvanceRead, AdvancePost, AdvanceFails, AdvanceSave
<1>6. QED
  BY <1>1, <1>2, <1>3, <1>4, <1>5
     DEF Next, vars, Age, RecordBooksPayment, Crash, ProfileSave, SyncCommit, SyncFails,
         SyncCheck, ProfileRead

(***************************************************************************)
(* What a thread holds: nothing, what it held, or what it read just now;   *)
(* and how it got to the steps that matter for the money.                  *)
(***************************************************************************)
HoldsRef(t) ==
  \/ job'[t].ref = None
  \/ job'[t].target = job[t].target /\ job'[t].ref = job[t].ref
  \/ job'[t].target \in Orders /\ job'[t].ref = db[job'[t].target].ref
  \/ \E s \in sweep : job'[t].target = s.order /\ job'[t].ref = s.ref

Watched == {"reconcile", "cancel_finalize", "cancel_commit", "invoice",
            "confirm", "restage", "profile"}

Arrives(t) ==
  /\ job'[t].pc = "reconcile" =>
       /\ job'[t].target \in Orders
       /\ job'[t].charge \in PaidCharges(db[job'[t].target].ref)
  /\ job'[t].pc = "cancel_finalize" =>
       CancelIssue(t) /\ job'[t].target = job[t].target
  /\ job'[t].pc = "cancel_commit" =>
       \/ job'[t].amount = 0
       \/ /\ CancelFinalize(t) /\ job'[t].target = job[t].target
          /\ db[job[t].target].refund = t
  /\ job'[t].pc = "invoice" => InvoiceCheck(t, job'[t].target)
  /\ job'[t].pc \in {"confirm", "restage", "profile"} => job'[t].pc \in Requests

Holds == \A t \in Threads : HoldsRef(t) /\ (job'[t] = job[t] \/ Arrives(t))

LEMMA StillHolds ==
  ASSUME UNCHANGED job
  PROVE  Holds
  BY DEF Holds, HoldsRef

\* When one thread moves, it is enough that the moving one does.
LEMMA MovesHold ==
  ASSUME TypeOK, NEW t \in Threads, NEW j, job' = [job EXCEPT ![t] = j],
         job'[t] = j => HoldsRef(t) /\ Arrives(t)
  PROVE  Holds
<1>1. job'[t] = j /\ \A v \in Threads : v # t => job'[v] = job[v]
  BY DEF TypeOK, JobsOK
<1>2. HoldsRef(t) /\ Arrives(t)
  BY <1>1
<1>3. ASSUME NEW v \in Threads, v # t
      PROVE  HoldsRef(v) /\ job'[v] = job[v]
  BY <1>1, <1>3 DEF HoldsRef
<1>4. QED
  BY <1>2, <1>3 DEF Holds

\* A thread that gets to a step that is not watched brings at most the
\* reference of its order.
LEMMA ServeHolds ==
  ASSUME TypeOK, NEW t \in Threads, NEW j, job' = [job EXCEPT ![t] = j],
         \/ j.ref = None
         \/ j.target = job[t].target /\ j.ref = job[t].ref
         \/ j.target \in Orders /\ j.ref = db[j.target].ref
         \/ \E s \in sweep : j.target = s.order /\ j.ref = s.ref,
         j.pc \notin Watched
  PROVE  Holds
<1>1. ASSUME job'[t] = j
      PROVE  HoldsRef(t) /\ Arrives(t)
  BY <1>1 DEF HoldsRef, Arrives, Watched
<1>2. QED
  BY <1>1, MovesHold

LEMMA FinishHolds ==
  ASSUME TypeOK, NEW t \in Threads, Finish(t)
  PROVE  Holds
<1>1. Idle.ref = None /\ Idle.pc \notin Watched
  BY DEF Idle, Watched
<1>2. QED
  BY <1>1, ServeHolds DEF Finish

LEMMA GotoFields ==
  ASSUME TypeOK, NEW t \in Threads, NEW pc, Goto(t, pc)
  PROVE  /\ job'[t].pc = pc /\ job'[t].target = job[t].target
         /\ job'[t].ref = job[t].ref /\ job'[t].amount = job[t].amount
         /\ \A v \in Threads : v # t => job'[v] = job[v]
  BY DEF Goto, TypeOK, JobsOK, JobState

LEMMA GotoHolds ==
  ASSUME TypeOK, NEW t \in Threads, NEW pc, Goto(t, pc),
         job'[t].pc = pc => Arrives(t)
  PROVE  Holds
<1>1. HoldsRef(t) /\ Arrives(t)
  BY GotoFields DEF HoldsRef
<1>2. ASSUME NEW v \in Threads, v # t
      PROVE  HoldsRef(v) /\ job'[v] = job[v]
  BY <1>2, GotoFields DEF HoldsRef
<1>3. QED
  BY <1>1, <1>2 DEF Holds

LEMMA AdvanceReadServes ==
  ASSUME NEW o
  PROVE  /\ Serve("advance_read", o).ref = None
         /\ Serve("advance_read", o).pc \notin Watched
  BY DEF Serve, Idle, Watched

LEMMA PaymentHolds == TypeOK /\ Payment => Holds
<1> SUFFICES ASSUME TypeOK, Payment PROVE Holds
  OBVIOUS
<1>t. Workers \subseteq Threads
  BY DEF Threads
<1>1. ASSUME NEW w \in Workers, NEW o \in Orders, InitiateRead(w, o)
      PROVE  Holds
  <2> DEFINE j == [Serve("initiate", o) EXCEPT !.ref = db[o].ref, !.amount = db[o].total]
  <2>1. j.pc \notin Watched /\ j.target = o /\ j.ref = db[o].ref
    BY DEF Serve, Idle, Watched
  <2>2. job' = [job EXCEPT ![w] = j]
    BY <1>1 DEF InitiateRead, Begin
  <2>3. QED
    <3> HIDE DEF j
    <3> QED
      BY <1>t, <2>1, <2>2, ServeHolds
<1>2. ASSUME NEW w \in Workers, NEW o \in Orders, ReconcileRead(w, o)
      PROVE  Holds
  <2>1. PICK c \in PaidCharges(db[o].ref) :
               Begin(w, [Serve("reconcile", o) EXCEPT !.charge = c])
    BY <1>2 DEF ReconcileRead
  <2> DEFINE j == [Serve("reconcile", o) EXCEPT !.charge = c]
  <2>2. j.pc = "reconcile" /\ j.target = o /\ j.ref = None /\ j.charge = c
    BY DEF Serve, Idle
  <2>3. job' = [job EXCEPT ![w] = j]
    BY <2>1 DEF Begin
  <2> HIDE DEF j
  <2>4. ASSUME job'[w] = j
        PROVE  HoldsRef(w) /\ Arrives(w)
    BY <2>2, <2>4 DEF HoldsRef, Arrives
  <2>5. QED
    BY <1>t, <2>3, <2>4, MovesHold
<1>3. ASSUME NEW w \in Workers, NEW c \in Charges, Callback(w, c)
      PROVE  Holds
  <2>1. PICK o \in Orders : job' = [job EXCEPT ![w] = Serve("advance_read", o)]
    BY <1>3 DEF Callback
  <2>2. QED
    BY <1>t, <2>1, AdvanceReadServes, ServeHolds
<1>4. ASSUME NEW w \in Workers, ReconcileWrite(w)
      PROVE  Holds
  <2>1. Finish(w) \/ \E o : job' = [job EXCEPT ![w] = Serve("advance_read", o)]
    BY <1>4 DEF ReconcileWrite
  <2>2. QED
    BY <1>t, <2>1, AdvanceReadServes, ServeHolds, FinishHolds
<1>5. ASSUME NEW w \in Workers, InitiateSession(w) \/ InitiateLink(w) \/ InitiateEnds(w)
      PROVE  Holds
  BY <1>5, <1>t, FinishHolds DEF InitiateSession, InitiateLink, InitiateEnds
<1>6. ASSUME \/ \E c \in Charges, s \in sessions : CustomerPays(c, s)
             \/ \E o \in Orders, gw \in Charges \cup {None} : RecordPaymentSuccess(o, gw)
      PROVE  Holds
  BY <1>6, StillHolds DEF CustomerPays, RecordPaymentSuccess
<1>7. QED
  BY <1>1, <1>2, <1>3, <1>4, <1>5, <1>6 DEF Payment

LEMMA SweepHolds == TypeOK /\ Sweep => Holds
<1> SUFFICES ASSUME TypeOK, Sweep PROVE Holds
  OBVIOUS
<1>t. Sweeper \in Threads
  BY DEF Threads
<1>1. CASE SweepStart
  BY <1>1, StillHolds DEF SweepStart
<1>2. CASE SweepCancel \/ SweeperCrash
  BY <1>2, <1>t, FinishHolds DEF SweepCancel, SweeperCrash
<1>3. ASSUME NEW s \in sweep, SweepReconcile(s)
      PROVE  Holds
  <2>1. UNCHANGED job \/ job' = [job EXCEPT ![Sweeper] = Serve("advance_read", s.order)]
    BY <1>3 DEF SweepReconcile
  <2>2. QED
    BY <1>t, <2>1, AdvanceReadServes, ServeHolds, StillHolds
<1>4. ASSUME NEW s \in sweep, SweepFindsNothing(s) \/ SweepFetchFails(s)
      PROVE  Holds
  <2> DEFINE j == [Serve("sweep_cancel", s.order) EXCEPT !.seen = s.seen, !.ref = s.ref]
  <2>1. j.pc \notin Watched /\ j.target = s.order /\ j.ref = s.ref
    BY DEF Serve, Idle, Watched
  <2>2. job' = [job EXCEPT ![Sweeper] = j]
    BY <1>4 DEF SweepFindsNothing, SweepFetchFails, StartSweepCancel
  <2>3. QED
    <3> HIDE DEF j
    <3> QED
      BY <1>t, <2>1, <2>2, ServeHolds
<1>5. ASSUME NEW s \in sweep, SweepUndecided(s)
      PROVE  Holds
  BY <1>5, StillHolds DEF SweepUndecided
<1>6. QED
  BY <1>1, <1>2, <1>3, <1>4, <1>5 DEF Sweep

LEMMA AdvanceHolds ==
  ASSUME TypeOK, NEW t \in Threads, Advance(t)
  PROVE  Holds
<1>1. \/ Finish(t) \/ Goto(t, "advance_post") \/ Goto(t, "advance_save")
  BY DEF Advance, AdvanceRead, AdvancePost, AdvanceFails, AdvanceSave
<1>2. \A pc \in {"advance_post", "advance_save"} : job'[t].pc = pc => Arrives(t)
  BY DEF Arrives
<1>3. QED
  BY <1>1, <1>2, FinishHolds, GotoHolds

LEMMA CancelHolds ==
  ASSUME TypeOK, NEW w \in Workers, Cancel(w)
  PROVE  Holds
<1>t. w \in Threads
  BY DEF Threads
<1>1. ASSUME NEW o \in Orders, NEW customer \in BOOLEAN, CancelClaim(w, o, customer)
      PROVE  Holds
  <2> DEFINE j == [Serve("cancel_issue", o) EXCEPT !.customer = customer,
                                                   !.amount = RefundAmount(o)]
  <2>1. j.ref = None /\ j.pc \notin Watched
    BY DEF Serve, Idle, Watched
  <2>2. job' = [job EXCEPT ![w] = j]
    BY <1>1 DEF CancelClaim, Begin
  <2>3. QED
    <3> HIDE DEF j
    <3> QED
      BY <1>t, <2>1, <2>2, ServeHolds
<1>2. ASSUME NEW o \in Orders, NEW customer \in BOOLEAN,
             CancelWithoutRefund(w, o, customer)
      PROVE  Holds
  <2> DEFINE j == [Serve("cancel_commit", o) EXCEPT !.customer = customer]
  <2>1. j.ref = None /\ j.pc = "cancel_commit" /\ j.amount = 0
    BY DEF Serve, Idle
  <2>2. job' = [job EXCEPT ![w] = j]
    BY <1>2 DEF CancelWithoutRefund, Begin
  <2> HIDE DEF j
  <2>3. ASSUME job'[w] = j
        PROVE  HoldsRef(w) /\ Arrives(w)
    BY <2>1, <2>3 DEF HoldsRef, Arrives
  <2>4. QED
    BY <1>t, <2>2, <2>3, MovesHold
<1>3. CASE CancelIssue(w)
  <2>1. Goto(w, "cancel_finalize")
    BY <1>3 DEF CancelIssue
  <2>2. job'[w].pc = "cancel_finalize" => Arrives(w)
    BY <1>3, <1>t, <2>1, GotoFields DEF Arrives
  <2>3. QED
    BY <1>t, <2>1, <2>2, GotoHolds
<1>4. CASE CancelIssueFails(w)
  <2>1. Goto(w, "cancel_release")
    BY <1>4 DEF CancelIssueFails
  <2>2. job'[w].pc = "cancel_release" => Arrives(w)
    BY DEF Arrives
  <2>3. QED
    BY <1>t, <2>1, <2>2, GotoHolds
<1>5. CASE CancelFinalize(w)
  <2>1. \/ db[job[w].target].refund = w /\ Goto(w, "cancel_commit")
        \/ Goto(w, "cancel_release")
    BY <1>5 DEF CancelFinalize
  <2>2. CASE db[job[w].target].refund = w /\ Goto(w, "cancel_commit")
    <3>1. job'[w].pc = "cancel_commit" => Arrives(w)
      BY <1>5, <1>t, <2>2, GotoFields DEF Arrives
    <3>2. QED
      BY <1>t, <2>2, <3>1, GotoHolds
  <2>3. CASE Goto(w, "cancel_release")
    <3>1. job'[w].pc = "cancel_release" => Arrives(w)
      BY DEF Arrives
    <3>2. QED
      BY <1>t, <2>3, <3>1, GotoHolds
  <2>4. QED
    BY <2>1, <2>2, <2>3
<1>6. CASE CancelRelease(w) \/ CancelCommit(w) \/ CancelRefused(w)
  BY <1>6, <1>t, FinishHolds DEF CancelRelease, CancelCommit, CancelRefused
<1>7. QED
  BY <1>1, <1>2, <1>3, <1>4, <1>5, <1>6 DEF Cancel

LEMMA StaffHolds ==
  ASSUME TypeOK, NEW w \in Workers, Staff(w)
  PROVE  Holds
<1>t. w \in Threads
  BY DEF Threads
<1>1. CASE \/ InvoiceCommit(w) \/ InvoiceFails(w) \/ ConfirmWrite(w) \/ RestageWrite(w)
           \/ EditWrite(w)
  BY <1>1, <1>t, FinishHolds
     DEF InvoiceCommit, InvoiceFails, ConfirmWrite, RestageWrite, EditWrite
<1>2. ASSUME NEW o \in Orders, InvoiceCheck(w, o)
      PROVE  Holds
  <2> DEFINE j == Serve("invoice", o)
  <2>1. j.ref = None /\ j.pc = "invoice" /\ j.target = o
    BY DEF Serve, Idle
  <2>2. job' = [job EXCEPT ![w] = j]
    BY <1>2 DEF InvoiceCheck, Begin
  <2> HIDE DEF j
  <2>3. ASSUME job'[w] = j
        PROVE  HoldsRef(w) /\ Arrives(w)
    BY <1>2, <2>1, <2>3 DEF HoldsRef, Arrives
  <2>4. QED
    BY <1>t, <2>2, <2>3, MovesHold
<1>3. ASSUME NEW o \in Orders, ConfirmRead(w, o) \/ RestageRead(w, o)
      PROVE  Holds
  <2>1. PICK pc \in {"confirm", "restage"} :
          /\ pc \in Requests
          /\ job' = [job EXCEPT ![w] = [Serve(pc, o) EXCEPT !.seen = db[o].status]]
    BY <1>3 DEF ConfirmRead, RestageRead, Begin
  <2> DEFINE j == [Serve(pc, o) EXCEPT !.seen = db[o].status]
  <2>2. j.ref = None /\ j.pc = pc
    BY DEF Serve, Idle
  <2> HIDE DEF j
  <2>3. ASSUME job'[w] = j
        PROVE  HoldsRef(w) /\ Arrives(w)
    BY <2>1, <2>2, <2>3 DEF HoldsRef, Arrives
  <2>4. QED
    BY <1>t, <2>1, <2>3, MovesHold DEF j
<1>4. ASSUME NEW o \in Orders, NEW a \in Amounts, EditRead(w, o, a)
      PROVE  Holds
  <2> DEFINE j == [Serve("edit", o) EXCEPT !.amount = a]
  <2>1. j.ref = None /\ j.pc \notin Watched
    BY DEF Serve, Idle, Watched
  <2>2. job' = [job EXCEPT ![w] = j]
    BY <1>4 DEF EditRead, Begin
  <2>3. QED
    <3> HIDE DEF j
    <3> QED
      BY <1>t, <2>1, <2>2, ServeHolds
<1>5. QED
  BY <1>1, <1>2, <1>3, <1>4 DEF Staff

LEMMA OthersHold ==
  ASSUME TypeOK, NEW w \in Workers,
         \/ Crash(w) \/ ProfileSave(w) \/ SyncCommit(w) \/ SyncFails(w)
         \/ \E o \in Orders : SyncCheck(w, o)
         \/ \E u \in Users : ProfileRead(w, u)
  PROVE  Holds
<1>t. w \in Threads
  BY DEF Threads
<1>1. CASE Crash(w) \/ ProfileSave(w) \/ SyncCommit(w) \/ SyncFails(w)
  BY <1>1, <1>t, FinishHolds DEF Crash, ProfileSave, SyncCommit, SyncFails
<1>2. ASSUME NEW o \in Orders, SyncCheck(w, o)
      PROVE  Holds
  <2>1. Serve("sync", o).ref = None /\ Serve("sync", o).pc \notin Watched
    BY DEF Serve, Idle, Watched
  <2>2. QED
    BY <1>2, <1>t, <2>1, ServeHolds DEF SyncCheck, Begin
<1>3. ASSUME NEW u \in Users, ProfileRead(w, u)
      PROVE  Holds
  <2> DEFINE j == [Serve("profile", u) EXCEPT !.amount = balance[u]]
  <2>1. j.ref = None /\ j.pc = "profile"
    BY DEF Serve, Idle
  <2>2. job' = [job EXCEPT ![w] = j] /\ "profile" \in Requests
    BY <1>3 DEF ProfileRead, Begin
  <2> HIDE DEF j
  <2>3. ASSUME job'[w] = j
        PROVE  HoldsRef(w) /\ Arrives(w)
    BY <2>1, <2>2, <2>3 DEF HoldsRef, Arrives
  <2>4. QED
    BY <1>t, <2>2, <2>3, MovesHold
<1>4. QED
  BY <1>1, <1>2, <1>3

LEMMA NextHolds == TypeOK /\ [Next]_vars => Holds
<1> SUFFICES ASSUME TypeOK, [Next]_vars PROVE Holds
  OBVIOUS
<1>1. ASSUME UNCHANGED job
      PROVE  Holds
  BY <1>1, StillHolds
<1>2. ASSUME NEW o \in Orders, Age(o) \/ RecordBooksPayment(o)
      PROVE  UNCHANGED job
  BY <1>2 DEF Age, RecordBooksPayment
<1>3. QED
  BY <1>1, <1>2, PaymentHolds, SweepHolds, AdvanceHolds, CancelHolds, StaffHolds,
     OthersHold DEF Next, vars

(***************************************************************************)
(* Which steps give an order a reference, and which move money.            *)
(***************************************************************************)
RefsKept == \A o \in Orders : db'[o].ref = db[o].ref

MoneyKept ==
  \A o \in Orders :
    /\ db'[o].payment = db[o].payment /\ db'[o].gatewayRef = db[o].gatewayRef
    /\ db'[o].prepaid = db[o].prepaid /\ db'[o].applied = db[o].applied

\* A reference is written only where there was none in use, and is new.
NamesOne ==
  \E o \in Orders, r \in FreshRefs :
    \A p \in Orders : db'[p].ref = IF p = o THEN r ELSE db[p].ref

LEMMA CreditRefs ==
  ASSUME TypeOK, NEW o \in Orders, NEW amount, NEW gw, CreditPrepaid(o, amount, gw)
  PROVE  RefsKept
  BY DEF CreditPrepaid, RefsKept, TypeOK, DbOK, OrderRow

\* The writes of the staff, of the cancellation and of Zoho.
LEMMA PlainWrites ==
  ASSUME TypeOK, NEW t \in Threads,
         \/ AdvanceSave(t) \/ SyncCommit(t) \/ ConfirmWrite(t) \/ RestageWrite(t)
         \/ EditWrite(t) \/ CancelFinalize(t) \/ CancelRelease(t)
         \/ CancelCommit(t) \/ CancelRefused(t)
  PROVE  RefsKept /\ MoneyKept
<1>1. CASE AdvanceSave(t)
  BY <1>1 DEF AdvanceSave, RefsKept, MoneyKept, TypeOK, DbOK, OrderRow
<1>2. CASE SyncCommit(t)
  BY <1>2 DEF SyncCommit, RefsKept, MoneyKept, TypeOK, DbOK, OrderRow
<1>3. CASE ConfirmWrite(t)
  BY <1>3 DEF ConfirmWrite, RefsKept, MoneyKept, TypeOK, DbOK, OrderRow
<1>4. CASE RestageWrite(t)
  BY <1>4 DEF RestageWrite, RefsKept, MoneyKept, TypeOK, DbOK, OrderRow
<1>5. CASE EditWrite(t)
  BY <1>5 DEF EditWrite, RefsKept, MoneyKept, TypeOK, DbOK, OrderRow
<1>6. CASE CancelFinalize(t)
  BY <1>6 DEF CancelFinalize, RefsKept, MoneyKept, TypeOK, DbOK, OrderRow
<1>7. CASE CancelRelease(t)
  BY <1>7 DEF CancelRelease, RefsKept, MoneyKept, TypeOK, DbOK, OrderRow
<1>8. CASE CancelCommit(t)
  BY <1>8 DEF CancelCommit, RefsKept, MoneyKept, TypeOK, DbOK, OrderRow
<1>9. CASE CancelRefused(t)
  <2> DEFINE o == job[t].target
  <2>1. UNCHANGED db \/ \E d : db' = [db EXCEPT ![o].salesorder = d]
    BY <1>9 DEF CancelRefused
  <2>2. ASSUME NEW d, db' = [db EXCEPT ![o].salesorder = d]
        PROVE  RefsKept /\ MoneyKept
    BY <2>2 DEF RefsKept, MoneyKept, TypeOK, DbOK, OrderRow
  <2>3. CASE UNCHANGED db
    BY <2>3 DEF RefsKept, MoneyKept
  <2>4. QED
    BY <2>1, <2>2, <2>3
<1>10. QED
  BY <1>1, <1>2, <1>3, <1>4, <1>5, <1>6, <1>7, <1>8, <1>9

LEMMA InvoiceWrites ==
  ASSUME TypeOK, NEW w \in Workers, InvoiceCommit(w)
  PROVE  RefsKept
  BY DEF InvoiceCommit, RefsKept, TypeOK, DbOK, OrderRow

LEMMA OrderWrites ==
  ASSUME TypeOK, NEW o \in Orders, Age(o) \/ RecordBooksPayment(o)
  PROVE  RefsKept /\ MoneyKept
  BY DEF Age, RecordBooksPayment, RefsKept, MoneyKept, TypeOK, DbOK, OrderRow

LEMMA ClaimWrites ==
  ASSUME TypeOK, NEW w \in Workers, NEW o \in Orders, NEW customer,
         CancelClaim(w, o, customer)
  PROVE  RefsKept /\ MoneyKept
  BY DEF CancelClaim, RefsKept, MoneyKept, TypeOK, DbOK, OrderRow

LEMMA SweepCancelWrites ==
  ASSUME TypeOK, SweepCancel
  PROVE  RefsKept /\ MoneyKept
<1> DEFINE o == job[Sweeper].target
<1>1. \/ UNCHANGED db
      \/ \E d : db' = [db EXCEPT ![o].status = "cancelled", ![o].salesorder = d]
  BY DEF SweepCancel
<1>2. ASSUME NEW d, db' = [db EXCEPT ![o].status = "cancelled", ![o].salesorder = d]
      PROVE  RefsKept /\ MoneyKept
  BY <1>2 DEF RefsKept, MoneyKept, TypeOK, DbOK, OrderRow
<1>3. CASE UNCHANGED db
  BY <1>3 DEF RefsKept, MoneyKept
<1>4. QED
  BY <1>1, <1>2, <1>3

LEMMA InitiateWrites ==
  ASSUME TypeOK, NEW w \in Workers, InitiateSession(w) \/ InitiateLink(w)
  PROVE  MoneyKept /\ (RefsKept \/ NamesOne)
<1> DEFINE o == job[w].target
<1>1. o \in Orders
  BY TargetTyped DEF InitiateSession, InitiateLink, At, Threads, TypeOK
<1>2. PICK r : /\ \/ r \in FreshRefs /\ db' = [db EXCEPT ![o].ref = r]
                  \/ db' = [db EXCEPT ![o].ref = @]
  BY DEF InitiateSession, InitiateLink
<1>3. CASE r \in FreshRefs /\ db' = [db EXCEPT ![o].ref = r]
  <2>1. \A p \in Orders : db'[p].ref = IF p = o THEN r ELSE db[p].ref
    BY <1>3 DEF TypeOK, DbOK, OrderRow
  <2>2. MoneyKept
    BY <1>3 DEF MoneyKept, TypeOK, DbOK, OrderRow
  <2>3. QED
    BY <1>1, <1>3, <2>1, <2>2 DEF NamesOne
<1>4. CASE db' = [db EXCEPT ![o].ref = @]
  BY <1>4 DEF RefsKept, MoneyKept, TypeOK, DbOK, OrderRow
<1>5. QED
  BY <1>2, <1>3, <1>4

(***************************************************************************)
(* Knows(o, r): the reference r is, or was, one of order o.  No reference   *)
(* is known of two orders, so no charge can be credited to two; a charge   *)
(* is recorded with the amount it was made of, which never changes.        *)
(***************************************************************************)
Knows(o, r) ==
  \/ db[o].ref = r
  \/ \E t \in Threads : job[t].target = o /\ job[t].ref = r
  \/ \E s \in sweep : s.order = o /\ s.ref = r
  \/ \E t \in Threads : /\ job[t].pc = "reconcile" /\ job[t].target = o
                        /\ charges[job[t].charge].ref = r
  \/ db[o].gatewayRef # None /\ charges[db[o].gatewayRef].ref = r

\* A captured charge names a session; only captured ones are waited for.
Captured ==
  /\ \A c \in Charges :
       charges[c].state # "none" => charges[c].ref \in Refs /\ charges[c].amount \in Amounts
  /\ \A t \in Threads :
       job[t].pc = "reconcile" => charges[job[t].charge].state # "none"

\* What the row of a paid order says of the payment.
Recorded ==
  \A o \in Orders :
    /\ db[o].payment = "paid" => db[o].prepaid > 0
    /\ db[o].payment # "paid" => db[o].prepaid = 0 /\ db[o].applied = 0
    /\ db[o].gatewayRef # None =>
         /\ db[o].payment = "paid"
         /\ charges[db[o].gatewayRef].state # "none"
         /\ charges[db[o].gatewayRef].amount = db[o].prepaid

OwnRefs == \A o, p \in Orders, r \in Refs : Knows(o, r) /\ Knows(p, r) => o = p

Traced == Captured /\ Recorded /\ OwnRefs

\* A payment that is recorded is the order's total; if it names a charge, it is
\* a captured one of that amount under a reference of the order.
Credited(o, amount, gw) ==
  /\ CreditPrepaid(o, amount, gw)
  /\ amount \in Amounts
  /\ gw \in Charges \cup {None}
  /\ UNCHANGED charges
  /\ gw # None => /\ charges[gw].state # "none"
                  /\ charges[gw].amount = amount
                  /\ Knows(o, charges[gw].ref)

Credits ==
  \E o \in Orders, amount \in Amounts, gw \in Charges \cup {None} :
    Credited(o, amount, gw)

LEMMA CreditAmount ==
  ASSUME TypeOK, NEW o \in Orders, NEW amount, NEW gw, CreditPrepaid(o, amount, gw)
  PROVE  amount \in Amounts
  BY DEF CreditPrepaid, AmountMatches, TypeOK, DbOK, OrderRow

\* The wallet is left alone; a profile that is saved whole may write back an
\* old balance.
WalletKept ==
  UNCHANGED walletVars \/ (UNCHANGED ledger /\ \E w \in Workers : ProfileSave(w))

LEMMA PaymentCredits ==
  ASSUME TypeOK, Captured, Payment
  PROVE  Credits \/ (MoneyKept /\ WalletKept)
<1>t. Workers \subseteq Threads
  BY DEF Threads
<1>1. ASSUME NEW o \in Orders, NEW gw \in Charges \cup {None}, RecordPaymentSuccess(o, gw)
      PROVE  Credits
  <2>1. CreditPrepaid(o, db[o].total, gw) /\ UNCHANGED charges
    BY <1>1 DEF RecordPaymentSuccess, geideaVars
  <2>2. gw # None => /\ charges[gw].state = "paid" /\ charges[gw].ref = db[o].ref
                     /\ charges[gw].amount = db[o].total
    BY <1>1 DEF RecordPaymentSuccess, PaidCharges, AmountMatches
  <2>3. QED
    BY <2>1, <2>2, CreditAmount DEF Credits, Credited, Knows
<1>2. ASSUME NEW w \in Workers, NEW c \in Charges, Callback(w, c)
      PROVE  Credits
  <2>1. PICK o \in Orders : /\ db[o].ref = charges[c].ref
                            /\ CreditPrepaid(o, charges[c].amount, c)
    BY <1>2 DEF Callback
  <2>2. charges[c].state # "none" /\ UNCHANGED charges
    BY <1>2 DEF Callback, geideaVars
  <2>3. QED
    BY <2>1, <2>2, CreditAmount DEF Credits, Credited, Knows
<1>3. ASSUME NEW w \in Workers, ReconcileWrite(w)
      PROVE  Credits \/ (MoneyKept /\ WalletKept)
  <2> DEFINE o == job[w].target
             c == job[w].charge
  <2>1. o \in Orders /\ c \in Charges /\ job[w].pc = "reconcile"
    BY <1>3, <1>t, TargetTyped DEF ReconcileWrite, At, TypeOK, JobsOK, JobOK
  <2>2. charges[c].state # "none" /\ UNCHANGED charges
    BY <1>3, <1>t, <2>1 DEF Captured, ReconcileWrite, geideaVars
  <2>3. Knows(o, charges[c].ref)
    BY <1>t, <2>1 DEF Knows
  <2>4. CASE CreditPrepaid(o, charges[c].amount, c)
    BY <2>1, <2>2, <2>3, <2>4, CreditAmount DEF Credits, Credited
  <2>5. CASE UNCHANGED <<db, walletVars>>
    BY <2>5 DEF MoneyKept, walletVars, WalletKept
  <2>6. QED
    BY <1>3, <2>4, <2>5 DEF ReconcileWrite
<1>4. ASSUME NEW w \in Workers, InitiateSession(w) \/ InitiateLink(w)
      PROVE  MoneyKept /\ WalletKept
  BY <1>4, InitiateWrites DEF InitiateSession, InitiateLink, walletVars, WalletKept
<1>5. ASSUME \/ \E c \in Charges, s \in sessions : CustomerPays(c, s)
             \/ \E w \in Workers :
                  \/ InitiateEnds(w)
                  \/ \E o \in Orders : InitiateRead(w, o) \/ ReconcileRead(w, o)
      PROVE  MoneyKept /\ WalletKept
  BY <1>5 DEF CustomerPays, InitiateEnds, InitiateRead, ReconcileRead, MoneyKept,
              walletVars, WalletKept
<1>6. QED
  BY <1>1, <1>2, <1>3, <1>4, <1>5 DEF Payment

LEMMA SweepCredits ==
  ASSUME TypeOK, Captured, Sweep
  PROVE  Credits \/ (MoneyKept /\ WalletKept)
<1>1. ASSUME NEW s \in sweep, SweepReconcile(s)
      PROVE  Credits \/ (MoneyKept /\ WalletKept)
  <2>1. PICK c \in PaidCharges(s.ref) :
               CreditPrepaid(s.order, charges[c].amount, c) \/ UNCHANGED <<db, walletVars>>
    BY <1>1 DEF SweepReconcile
  <2>2. s.order \in Orders /\ c \in Charges /\ charges[c].state = "paid"
        /\ charges[c].ref = s.ref
    BY SMTT(60) DEF TypeOK, Snapshot, PaidCharges
  <2>3. UNCHANGED charges
    BY <1>1 DEF SweepReconcile, geideaVars
  <2>4. Knows(s.order, charges[c].ref)
    BY <2>2 DEF Knows
  <2>5. CASE CreditPrepaid(s.order, charges[c].amount, c)
    BY <2>2, <2>3, <2>4, <2>5, CreditAmount DEF Credits, Credited
  <2>6. CASE UNCHANGED <<db, walletVars>>
    BY <2>6 DEF MoneyKept, walletVars, WalletKept
  <2>7. QED
    BY <2>1, <2>5, <2>6
<1>2. CASE SweepCancel
  BY <1>2, SweepCancelWrites DEF SweepCancel, walletVars, WalletKept
<1>3. CASE \/ SweepStart \/ SweeperCrash
           \/ \E s \in sweep : \/ SweepFindsNothing(s) \/ SweepFetchFails(s)
                               \/ SweepUndecided(s)
  BY <1>3 DEF SweepStart, SweeperCrash, SweepFindsNothing, SweepFetchFails, SweepUndecided,
              MoneyKept, walletVars, WalletKept
<1>4. QED
  BY <1>1, <1>2, <1>3 DEF Sweep

LEMMA MoneyMoves ==
  ASSUME TypeOK, Captured, [Next]_vars
  PROVE  \/ Credits
         \/ MoneyKept /\ WalletKept
         \/ \E w \in Workers : InvoiceCommit(w)
         \/ MoneyKept /\ \E w \in Workers : CancelCommit(w)
<1>t. Workers \subseteq Threads
  BY DEF Threads
<1>1. ASSUME UNCHANGED <<db, walletVars>>
      PROVE  MoneyKept /\ WalletKept
  BY <1>1 DEF MoneyKept, WalletKept, walletVars
<1>2. ASSUME NEW o \in Orders, Age(o) \/ RecordBooksPayment(o)
      PROVE  MoneyKept /\ WalletKept
  BY <1>2, OrderWrites DEF Age, RecordBooksPayment, walletVars, WalletKept
<1>3. ASSUME NEW t \in Threads, Advance(t)
      PROVE  MoneyKept /\ WalletKept
  <2>1. CASE AdvanceSave(t)
    BY <2>1, PlainWrites DEF AdvanceSave, walletVars, WalletKept
  <2>2. CASE AdvanceRead(t) \/ AdvancePost(t) \/ AdvanceFails(t)
    BY <2>2, <1>1 DEF AdvanceRead, AdvancePost, AdvanceFails, walletVars, WalletKept
  <2>3. QED
    BY <1>3, <2>1, <2>2 DEF Advance
<1>4. ASSUME NEW w \in Workers, Cancel(w)
      PROVE  MoneyKept /\ (CancelCommit(w) \/ WalletKept)
  <2>1. CASE CancelCommit(w) \/ CancelFinalize(w) \/ CancelRelease(w) \/ CancelRefused(w)
    BY <1>t, <2>1, PlainWrites DEF CancelFinalize, CancelRelease, CancelRefused,
                                   walletVars, WalletKept
  <2>2. ASSUME NEW o \in Orders, NEW customer \in BOOLEAN, CancelClaim(w, o, customer)
        PROVE  MoneyKept /\ WalletKept
    BY <2>2, ClaimWrites DEF CancelClaim, walletVars, WalletKept
  <2>3. ASSUME \/ CancelIssue(w) \/ CancelIssueFails(w)
               \/ \E o \in Orders, customer \in BOOLEAN : CancelWithoutRefund(w, o, customer)
        PROVE  MoneyKept /\ WalletKept
    BY <2>3, <1>1 DEF CancelIssue, CancelIssueFails, CancelWithoutRefund,
                      walletVars, WalletKept
  <2>4. QED
    BY <1>4, <2>1, <2>2, <2>3 DEF Cancel
<1>5. ASSUME NEW w \in Workers, Staff(w)
      PROVE  InvoiceCommit(w) \/ (MoneyKept /\ WalletKept)
  <2>1. CASE ConfirmWrite(w) \/ RestageWrite(w) \/ EditWrite(w)
    BY <1>t, <2>1, PlainWrites DEF ConfirmWrite, RestageWrite, EditWrite,
                                   walletVars, WalletKept
  <2>2. ASSUME \/ InvoiceFails(w)
               \/ \E o \in Orders : \/ InvoiceCheck(w, o) \/ ConfirmRead(w, o)
                                    \/ RestageRead(w, o)
                                    \/ \E a \in Amounts : EditRead(w, o, a)
        PROVE  MoneyKept /\ WalletKept
    BY <2>2, <1>1 DEF InvoiceFails, InvoiceCheck, ConfirmRead, RestageRead, EditRead,
                      walletVars
  <2>3. QED
    BY <1>5, <2>1, <2>2 DEF Staff
<1>6. ASSUME NEW w \in Workers,
             \/ Crash(w) \/ ProfileSave(w) \/ SyncCommit(w) \/ SyncFails(w)
             \/ \E o \in Orders : SyncCheck(w, o)
             \/ \E u \in Users : ProfileRead(w, u)
      PROVE  MoneyKept /\ WalletKept
  <2>1. CASE SyncCommit(w)
    BY <1>t, <2>1, PlainWrites DEF SyncCommit, walletVars, WalletKept
  <2>2. CASE ProfileSave(w)
    BY <2>2 DEF ProfileSave, OverwriteBalance, MoneyKept, WalletKept
  <2>3. CASE \/ Crash(w) \/ SyncFails(w) \/ \E o \in Orders : SyncCheck(w, o)
             \/ \E u \in Users : ProfileRead(w, u)
    BY <1>1, <2>3 DEF Crash, SyncFails, SyncCheck, ProfileRead, walletVars, WalletKept
  <2>4. QED
    BY <1>6, <2>1, <2>2, <2>3
<1>7. QED
  BY <1>1, <1>2, <1>3, <1>4, <1>5, <1>6, PaymentCredits, SweepCredits
     DEF Next, vars, walletVars, WalletKept

LEMMA RefMoves ==
  ASSUME TypeOK, [Next]_vars
  PROVE  RefsKept \/ NamesOne
<1>t. Workers \subseteq Threads
  BY DEF Threads
<1>1. ASSUME UNCHANGED db
      PROVE  RefsKept
  BY <1>1 DEF RefsKept
<1>2. CASE Payment
  <2>1. ASSUME NEW o \in Orders, NEW amount, NEW gw, CreditPrepaid(o, amount, gw)
        PROVE  RefsKept
    BY <2>1, CreditRefs
  <2>2. ASSUME NEW w \in Workers, ReconcileWrite(w)
        PROVE  RefsKept
    <3>1. job[w].target \in Orders
      BY <1>t, <2>2, TargetTyped DEF ReconcileWrite, At, TypeOK
    <3>2. QED
      BY <1>1, <2>1, <2>2, <3>1 DEF ReconcileWrite
  <2>3. QED
    BY <1>1, <1>2, <2>1, <2>2, InitiateWrites
       DEF Payment, CustomerPays, RecordPaymentSuccess, InitiateEnds, InitiateRead,
           ReconcileRead, Callback
<1>3. CASE Sweep
  <2>1. ASSUME NEW s \in sweep, SweepReconcile(s)
        PROVE  RefsKept
    <3>1. s.order \in Orders
      BY DEF TypeOK, Snapshot
    <3>2. QED
      BY <1>1, <2>1, <3>1, CreditRefs DEF SweepReconcile
  <2>2. QED
    BY <1>1, <1>3, <2>1, SweepCancelWrites
       DEF Sweep, SweepStart, SweeperCrash, SweepFindsNothing, SweepFetchFails,
           SweepUndecided
<1>4. ASSUME NEW t \in Threads, Advance(t)
      PROVE  RefsKept
  BY <1>1, <1>4, PlainWrites DEF Advance, AdvanceRead, AdvancePost, AdvanceFails
<1>5. ASSUME NEW w \in Workers, Cancel(w)
      PROVE  RefsKept
  BY <1>1, <1>5, <1>t, PlainWrites, ClaimWrites
     DEF Cancel, CancelIssue, CancelIssueFails, CancelWithoutRefund
<1>6. ASSUME NEW w \in Workers, Staff(w)
      PROVE  RefsKept
  BY <1>1, <1>6, <1>t, PlainWrites, InvoiceWrites
     DEF Staff, InvoiceFails, InvoiceCheck, ConfirmRead, RestageRead, EditRead
<1>7. QED
  BY <1>1, <1>2, <1>3, <1>4, <1>5, <1>6, <1>t, PlainWrites, OrderWrites
     DEF Next, vars, Crash, ProfileSave, SyncFails, SyncCheck, ProfileRead

LEMMA CapturedKept ==
  ASSUME TypeOK, Captured, [Next]_vars
  PROVE  Captured'
<1>1. ASSUME NEW c \in Charges, charges[c].state # "none"
      PROVE  /\ charges'[c].state # "none"
             /\ charges'[c].ref = charges[c].ref /\ charges'[c].amount = charges[c].amount
  <2>1. charges[c] \in Charge(Amounts)
    BY DEF TypeOK, GatewayOK
  <2>2. QED
    BY <1>1, <2>1, ChargesFrom DEF ChargeFrom, Charge
<1>2. ASSUME NEW c \in Charges, charges'[c].state # "none"
      PROVE  charges'[c].ref \in Refs /\ charges'[c].amount \in Amounts
  <2>1. CASE charges[c].state # "none"
    BY <1>1, <2>1 DEF Captured
  <2>2. CASE charges[c].state = "none"
    <3>1. charges'[c] # charges[c]
      BY <1>2, <2>2
    <3>2. PICK s \in sessions :
                charges'[c] = [state |-> "paid", ref |-> s.ref, amount |-> s.amount]
      BY <2>2, <3>1, ChargesFrom DEF ChargeFrom
    <3>3. s.ref \in Refs /\ s.amount \in Amounts
      BY DEF TypeOK, GatewayOK
    <3>4. QED
      BY <3>2, <3>3
  <2>3. QED
    BY <2>1, <2>2
<1>3. ASSUME NEW t \in Threads, job'[t].pc = "reconcile"
      PROVE  charges'[job'[t].charge].state # "none"
  <2>1. job'[t] = job[t] \/ Arrives(t)
    BY NextHolds DEF Holds
  <2>2. CASE job'[t] = job[t]
    <3>1. job[t].charge \in Charges /\ charges[job[t].charge].state # "none"
      BY <1>3, <2>2 DEF TypeOK, JobsOK, JobOK, Captured
    <3>2. QED
      BY <1>1, <2>2, <3>1
  <2>3. ASSUME NEW r, job'[t].charge \in PaidCharges(r)
        PROVE  charges'[job'[t].charge].state # "none"
    BY <1>1, <2>3 DEF PaidCharges
  <2>4. QED
    BY <1>3, <2>1, <2>2, <2>3 DEF Arrives
<1>4. QED
  BY <1>2, <1>3 DEF Captured

\* What is captured stays what it is.
LEMMA CapturedStays ==
  ASSUME TypeOK, [Next]_vars, NEW c \in Charges, charges[c].state # "none"
  PROVE  /\ charges'[c].state # "none"
         /\ charges'[c].ref = charges[c].ref /\ charges'[c].amount = charges[c].amount
         /\ charges[c].state = "refunded" => charges'[c].state = "refunded"
<1>1. charges[c] \in Charge(Amounts)
  BY DEF TypeOK, GatewayOK
<1>2. QED
  BY <1>1, ChargesFrom DEF ChargeFrom, Charge

\* What CreditPrepaid and InvoiceCommit write.
LEMMA CreditFields ==
  ASSUME TypeOK, NEW o \in Orders, NEW amount, NEW gw, CreditPrepaid(o, amount, gw)
  PROVE  /\ db[o].payment # "paid"
         /\ db'[o].payment = "paid" /\ db'[o].prepaid = amount
         /\ db'[o].gatewayRef = IF gw # None THEN gw ELSE db[o].gatewayRef
         /\ db'[o].applied = db[o].applied /\ db'[o].refund = db[o].refund
         /\ \A p \in Orders : p # o => db'[p] = db[p]
  BY DEF CreditPrepaid, NotYetPaid, TypeOK, DbOK, OrderRow

LEMMA InvoiceFields ==
  ASSUME TypeOK, NEW w \in Workers, InvoiceCommit(w)
  PROVE  LET o == job[w].target IN
         /\ o \in Orders /\ job[w].pc = "invoice"
         /\ ~db[o].invoice /\ db'[o].invoice
         /\ CreditForInvoice(o) \in Nat
         /\ db'[o].applied = db[o].applied + CreditForInvoice(o)
         /\ db'[o].payment = db[o].payment /\ db'[o].prepaid = db[o].prepaid
         /\ db'[o].gatewayRef = db[o].gatewayRef /\ db'[o].refund = db[o].refund
         /\ db'[o].status = db[o].status /\ db'[o].salesorder = db[o].salesorder
         /\ db[o].salesorder = "open"
         /\ \A p \in Orders : p # o => db'[p] = db[p]
<1> DEFINE o == job[w].target
<1>1. o \in Orders /\ job[w].pc = "invoice"
  BY TargetTyped DEF InvoiceCommit, At, Threads, TypeOK
<1>2. CreditForInvoice(o) \in Nat
  BY <1>1, RowTyped DEF CreditForInvoice, Smaller
<1>3. QED
  BY <1>1, <1>2 DEF InvoiceCommit, TypeOK, DbOK, OrderRow

LEMMA RecordedKept ==
  ASSUME TypeOK, Captured, Recorded, [Next]_vars
  PROVE  Recorded'
<1>1. CASE Credits
  <2>1. PICK o \in Orders, amount \in Amounts, gw \in Charges \cup {None} :
             Credited(o, amount, gw)
    BY <1>1 DEF Credits
  <2>2. amount \in Nat \ {0} /\ CreditPrepaid(o, amount, gw) /\ UNCHANGED charges
    BY <2>1, AmountsAssumption DEF Credited
  <2>3. db[o].gatewayRef = None
    BY <2>2, CreditFields DEF Recorded
  <2>4. ASSUME NEW p \in Orders, p # o
        PROVE  /\ db'[p].payment = "paid" => db'[p].prepaid > 0
               /\ db'[p].payment # "paid" => db'[p].prepaid = 0 /\ db'[p].applied = 0
               /\ db'[p].gatewayRef # None =>
                    /\ db'[p].payment = "paid"
                    /\ charges'[db'[p].gatewayRef].state # "none"
                    /\ charges'[db'[p].gatewayRef].amount = db'[p].prepaid
    BY <2>2, <2>4, CreditFields DEF Recorded
  <2>5. /\ db'[o].payment = "paid" /\ db'[o].prepaid = amount
        /\ db'[o].gatewayRef = IF gw # None THEN gw ELSE None
    BY <2>2, <2>3, CreditFields
  <2>6. QED
    BY <2>1, <2>2, <2>4, <2>5 DEF Recorded, Credited
<1>2. CASE MoneyKept
  <2>1. ASSUME NEW o \in Orders, db[o].gatewayRef # None
        PROVE  /\ charges'[db[o].gatewayRef].state # "none"
               /\ charges'[db[o].gatewayRef].amount = charges[db[o].gatewayRef].amount
    <3>1. db[o].gatewayRef \in Charges
      BY <2>1 DEF TypeOK, DbOK, OrderRow
    <3>2. QED
      BY <2>1, <3>1, CapturedStays DEF Recorded
  <2>2. QED
    BY <1>2, <2>1 DEF MoneyKept, Recorded
<1>3. ASSUME NEW w \in Workers, InvoiceCommit(w)
      PROVE  Recorded'
  <2> DEFINE o == job[w].target
  <2>1. o \in Orders /\ UNCHANGED charges
    BY <1>3, InvoiceFields DEF InvoiceCommit, geideaVars
  <2>2. db[o].payment # "paid" => CreditForInvoice(o) = 0
    BY <2>1, RowTyped DEF Recorded, CreditForInvoice, Smaller
  <2>3. /\ \A p \in Orders : p # o => db'[p] = db[p]
        /\ db'[o].payment = db[o].payment /\ db'[o].prepaid = db[o].prepaid
        /\ db'[o].gatewayRef = db[o].gatewayRef
        /\ db[o].payment # "paid" => db'[o].applied = db[o].applied
    BY <1>3, <2>1, <2>2, InvoiceFields, RowTyped
  <2> HIDE DEF o
  <2>4. ASSUME NEW p \in Orders
        PROVE  /\ db'[p].payment = db[p].payment /\ db'[p].prepaid = db[p].prepaid
               /\ db'[p].gatewayRef = db[p].gatewayRef
               /\ db[p].payment # "paid" => db'[p].applied = db[p].applied
    BY <2>3
  <2>5. QED
    BY <2>1, <2>4 DEF Recorded
<1>4. QED
  BY <1>1, <1>2, <1>3, MoneyMoves

\* Who knows a reference after a step knew it before, or has just got it.
LEMMA KnowsMoves ==
  ASSUME TypeOK, Captured, Recorded, [Next]_vars, NEW o \in Orders, NEW r \in Refs,
         Knows(o, r)'
  PROVE  Knows(o, r) \/ db'[o].ref = r
<1>1. ASSUME NEW t \in Threads, job'[t].target = o, job'[t].ref = r
      PROVE  Knows(o, r)
  <2>1. HoldsRef(t)
    BY NextHolds DEF Holds
  <2>2. QED
    BY <1>1, <2>1, ThreadAssumption DEF HoldsRef, Knows
<1>2. ASSUME NEW s \in sweep', s.order = o, s.ref = r
      PROVE  Knows(o, r)
  BY <1>2, SweptFrom DEF Knows
<1>3. ASSUME NEW t \in Threads, job'[t].pc = "reconcile", job'[t].target = o,
             charges'[job'[t].charge].ref = r
      PROVE  Knows(o, r)
  <2> DEFINE c == job'[t].charge
  <2>1. job'[t] = job[t] \/ Arrives(t)
    BY NextHolds DEF Holds
  <2>2. CASE job'[t] = job[t]
    <3>1. c \in Charges /\ charges[c].state # "none"
      BY <1>3, <2>2 DEF TypeOK, JobsOK, JobOK, Captured
    <3>2. charges[c].ref = r
      BY <1>3, <3>1, CapturedStays
    <3>3. QED
      BY <1>3, <2>2, <3>2 DEF Knows
  <2>3. CASE c \in PaidCharges(db[o].ref)
    <3>1. c \in Charges /\ charges[c].state # "none" /\ charges[c].ref = db[o].ref
      BY <2>3 DEF PaidCharges
    <3>2. QED
      BY <1>3, <3>1, CapturedStays DEF Knows
  <2>4. QED
    BY <1>3, <2>1, <2>2, <2>3 DEF Arrives
<1>4. ASSUME db'[o].gatewayRef # None, charges'[db'[o].gatewayRef].ref = r
      PROVE  Knows(o, r)
  <2> DEFINE c == db[o].gatewayRef
  <2>1. ASSUME db'[o].gatewayRef = c
        PROVE  Knows(o, r)
    <3>1. c \in Charges /\ charges[c].state # "none"
      BY <1>4, <2>1 DEF TypeOK, DbOK, OrderRow, Recorded
    <3>2. QED
      BY <1>4, <2>1, <3>1, CapturedStays DEF Knows
  <2>2. CASE Credits
    <3>1. PICK p \in Orders, amount \in Amounts, gw \in Charges \cup {None} :
               Credited(p, amount, gw)
      BY <2>2 DEF Credits
    <3>2. CASE p = o /\ gw # None
      BY <1>4, <3>1, <3>2, CreditFields DEF Credited
    <3>3. CASE ~(p = o /\ gw # None)
      BY <2>1, <3>1, <3>3, CreditFields DEF Credited
    <3>4. QED
      BY <3>2, <3>3
  <2>3. CASE MoneyKept
    BY <2>1, <2>3 DEF MoneyKept
  <2>4. ASSUME NEW w \in Workers, InvoiceCommit(w)
        PROVE  Knows(o, r)
    BY <2>1, <2>4, InvoiceFields
  <2>5. QED
    BY <2>2, <2>3, <2>4, MoneyMoves
<1>5. QED
  BY <1>1, <1>2, <1>3, <1>4 DEF Knows

\* A new reference is known of no order.
LEMMA FreshUnknown ==
  ASSUME TypeOK, NEW r \in FreshRefs, NEW o \in Orders
  PROVE  ~Knows(o, r)
<1>1. db[o].gatewayRef \in Charges \cup {None}
  BY DEF TypeOK, DbOK, OrderRow
<1>2. \A t \in Threads : job[t].pc = "reconcile" => job[t].charge \in Charges
  BY DEF TypeOK, JobsOK, JobOK
<1>3. QED
  BY <1>1, <1>2 DEF FreshRefs, Knows

LEMMA OwnRefsKept ==
  ASSUME TypeOK, Captured, Recorded, OwnRefs, [Next]_vars
  PROVE  OwnRefs'
<1> SUFFICES ASSUME NEW o \in Orders, NEW p \in Orders, NEW r \in Refs,
                    Knows(o, r)', Knows(p, r)'
             PROVE  o = p
  BY DEF OwnRefs
<1>1. /\ Knows(o, r) \/ db'[o].ref = r
      /\ Knows(p, r) \/ db'[p].ref = r
  BY KnowsMoves
<1>2. CASE RefsKept
  BY <1>1, <1>2 DEF RefsKept, Knows, OwnRefs
<1>3. CASE NamesOne
  <2>1. PICK q \in Orders, f \in FreshRefs :
               \A x \in Orders : db'[x].ref = IF x = q THEN f ELSE db[x].ref
    BY <1>3 DEF NamesOne
  <2>2. ~Knows(o, f) /\ ~Knows(p, f)
    BY FreshUnknown
  <2>3. \A x \in {o, p} : Knows(x, r) \/ (x = q /\ r = f)
    BY <1>1, <2>1 DEF Knows
  <2>4. QED
    BY <2>2, <2>3 DEF OwnRefs
<1>4. QED
  BY <1>2, <1>3, RefMoves

LEMMA InitTraced == Init => Traced
<1> SUFFICES ASSUME Init PROVE Traced
  OBVIOUS
<1>1. \A o \in Orders : /\ db[o].ref = None /\ db[o].gatewayRef = None
                        /\ db[o].payment = "pending" /\ db[o].prepaid = 0
                        /\ db[o].applied = 0
  BY DEF Init, NewOrder
<1>2. \A t \in Threads : job[t].ref = None /\ job[t].pc = "idle"
  BY DEF Init, Idle
<1>3. \A c \in Charges : charges[c].state = "none"
  BY DEF Init, GeideaInit, NoCharge
<1>4. sweep = {}
  BY DEF Init
<1>5. \A o \in Orders, r \in Refs : ~Knows(o, r)
  BY <1>1, <1>2, <1>4, ThreadAssumption DEF Knows
<1>6. QED
  BY <1>1, <1>2, <1>3, <1>5 DEF Traced, Captured, Recorded, OwnRefs

LEMMA TracedAlways == Spec => []Traced
<1>1. TypeOK /\ Traced /\ [Next]_vars => Traced'
  BY CapturedKept, RecordedKept, OwnRefsKept DEF Traced
<1>2. QED
  BY <1>1, InitTraced, TypeCorrect, PTL DEF Spec

\* However callbacks, polls, job runs and staff calls interleave, and whatever
\* references an order had: a Geidea payment recorded on an order was captured,
\* with the amount on the row, and is recorded on no other order.
THEOREM CreditsAreCaptured == Spec => []CreditedOnlyIfCaptured
<1>1. TypeOK /\ Traced => CreditedOnlyIfCaptured
  <2> SUFFICES ASSUME TypeOK, Traced, NEW o \in Orders, db[o].gatewayRef # None
               PROVE  /\ charges[db[o].gatewayRef].state # "none"
                      /\ charges[db[o].gatewayRef].amount = db[o].prepaid
                      /\ \A p \in Orders : db[p].gatewayRef = db[o].gatewayRef => p = o
    BY DEF CreditedOnlyIfCaptured
  <2> DEFINE c == db[o].gatewayRef
  <2>1. c \in Charges
    BY DEF TypeOK, DbOK, OrderRow
  <2>2. charges[c].state # "none" /\ charges[c].amount = db[o].prepaid
    BY DEF Traced, Recorded
  <2>3. charges[c].ref \in Refs
    BY <2>1, <2>2 DEF Traced, Captured
  <2>4. ASSUME NEW p \in Orders, db[p].gatewayRef = c
        PROVE  p = o
    BY <2>3, <2>4 DEF Traced, OwnRefs, Knows
  <2>5. QED
    BY <2>2, <2>4
<1>2. QED
  BY <1>1, TracedAlways, TypeCorrect, PTL

(***************************************************************************)
(* The ledger rows of an order.                                            *)
(***************************************************************************)
RowsIn(L, o, kinds) == {i \in 1..Len(L) : L[i].order = o /\ L[i].kind \in kinds}

LEMMA RowsAre ==
  ASSUME NEW o \in Orders
  PROVE  /\ Rows(o, PaymentKinds) = RowsIn(ledger[Owner[o]], o, PaymentKinds)
         /\ Rows(o, {"invoice_application"}) =
              RowsIn(ledger[Owner[o]], o, {"invoice_application"})
         /\ Rows(o, {"order_cancel"}) = RowsIn(ledger[Owner[o]], o, {"order_cancel"})
  BY DEF Rows, RowsIn

\* A posting adds one row to the ledger of the owner, and to no other.
Adds(o, kind, amount, p) ==
  LET L == ledger[Owner[p]]
      M == ledger'[Owner[p]] IN
  /\ Owner[p] # Owner[o] => M = L
  /\ Owner[p] = Owner[o] =>
       /\ Len(M) = Len(L) + 1
       /\ M[Len(L) + 1].order = o /\ M[Len(L) + 1].kind = kind
       /\ M[Len(L) + 1].amount = amount
  /\ \A i \in 1..Len(L) : M[i] = L[i]
  /\ Len(L) \in Nat

LEMMA PostAdds ==
  ASSUME TypeOK, NEW o \in Orders, NEW kind, NEW amount,
         PostEntry(Owner[o], o, kind, amount), NEW p \in Orders
  PROVE  Adds(o, kind, amount, p)
<1> DEFINE u == Owner[o]
           v == Owner[p]
           e == Entry(o, kind, amount, balance[u] + amount)
<1>1. u \in Users /\ v \in Users
  BY OwnerAssumption
<1>2. ledger[v] \in Seq(LedgerRow(Orders))
  BY <1>1 DEF TypeOK, WalletOK
<1>3. ledger'[v] = IF v = u THEN Append(ledger[v], e) ELSE ledger[v]
  BY <1>1 DEF PostEntry, TypeOK, WalletOK
<1>5. e.order = o /\ e.kind = kind /\ e.amount = amount
  BY DEF Entry
<1> HIDE DEF u, v, e
<1>4. /\ Len(Append(ledger[v], e)) = Len(ledger[v]) + 1
      /\ Append(ledger[v], e)[Len(ledger[v]) + 1] = e
      /\ \A i \in 1..Len(ledger[v]) : Append(ledger[v], e)[i] = ledger[v][i]
      /\ Len(ledger[v]) \in Nat
  BY <1>2
<1>6. QED
  BY <1>3, <1>4, <1>5 DEF Adds, u, v

\* So the rows of one order grow by that row, if it is of theirs.
Gains(L, M, o, kinds, amount) ==
  /\ RowsIn(M, o, kinds) = RowsIn(L, o, kinds) \cup {Len(L) + 1}
  /\ \A i \in RowsIn(L, o, kinds) : M[i] = L[i]
  /\ M[Len(L) + 1].amount = amount

Spares(L, M, o, kinds) ==
  /\ RowsIn(M, o, kinds) = RowsIn(L, o, kinds)
  /\ \A i \in RowsIn(L, o, kinds) : M[i] = L[i]

LEMMA RowsAdded ==
  ASSUME NEW L, NEW M, NEW o, NEW kind, NEW amount, NEW p, NEW kinds, Len(L) \in Nat,
         Len(M) = Len(L) + 1, M[Len(L) + 1].order = o, M[Len(L) + 1].kind = kind,
         M[Len(L) + 1].amount = amount,
         \A i \in 1..Len(L) : M[i] = L[i]
  PROVE  /\ p = o /\ kind \in kinds => Gains(L, M, p, kinds, amount)
         /\ p # o \/ kind \notin kinds => Spares(L, M, p, kinds)
<1>1. 1..Len(M) = 1..Len(L) \cup {Len(L) + 1}
  OBVIOUS
<1>2. QED
  BY <1>1 DEF RowsIn, Gains, Spares

LEMMA PostRows ==
  ASSUME TypeOK, NEW o \in Orders, NEW kind, NEW amount,
         PostEntry(Owner[o], o, kind, amount), NEW p \in Orders, NEW kinds
  PROVE  /\ p = o /\ kind \in kinds =>
              Gains(ledger[Owner[p]], ledger'[Owner[p]], p, kinds, amount)
         /\ p # o \/ kind \notin kinds =>
              Spares(ledger[Owner[p]], ledger'[Owner[p]], p, kinds)
<1> DEFINE L == ledger[Owner[p]]
           M == ledger'[Owner[p]]
<1>1. Adds(o, kind, amount, p)
  BY PostAdds
<1>2. CASE Owner[p] # Owner[o]
  BY <1>1, <1>2 DEF Adds, Spares
<1>3. CASE Owner[p] = Owner[o]
  <2>1. /\ Len(L) \in Nat /\ Len(M) = Len(L) + 1 /\ M[Len(L) + 1].order = o
        /\ M[Len(L) + 1].kind = kind /\ M[Len(L) + 1].amount = amount
        /\ \A i \in 1..Len(L) : M[i] = L[i]
    BY <1>1, <1>3 DEF Adds
  <2> HIDE DEF L, M
  <2>2. /\ p = o /\ kind \in kinds => Gains(L, M, p, kinds, amount)
        /\ p # o \/ kind \notin kinds => Spares(L, M, p, kinds)
    BY <2>1, RowsAdded
  <2>3. QED
    BY <2>2 DEF L, M
<1>4. QED
  BY <1>2, <1>3

LEMMA KindsDiffer ==
  /\ "invoice_application" \notin PaymentKinds
  /\ "order_cancel" \notin PaymentKinds
  /\ \A o \in Orders : PaymentKind(o) \in PaymentKinds
  /\ PaymentKinds' = PaymentKinds
  BY DEF PaymentKinds, PaymentKind

\* What a ledger says of an order: one row for its payment, at most one for
\* its invoice, with the amounts of the order row.
Posted(L, row, o) ==
  /\ row.payment # "paid" => RowsIn(L, o, PaymentKinds) = {}
  /\ row.payment = "paid" => \E i : RowsIn(L, o, PaymentKinds) = {i}
  /\ \A i \in RowsIn(L, o, PaymentKinds) : L[i].amount = row.prepaid
  /\ \A i \in RowsIn(L, o, {"invoice_application"}) :
       L[i].amount = - row.applied /\ row.applied > 0
  /\ \A i, j \in RowsIn(L, o, {"invoice_application"}) : i = j

AllPosted == \A o \in Orders : Posted(ledger[Owner[o]], db[o], o)

\* The kinds a posting is of.
LEMMA KindsApart ==
  /\ "invoice_application" \in {"invoice_application"}
  /\ "order_cancel" \notin {"invoice_application"}
  /\ "order_cancel" \in {"order_cancel"}
  /\ "invoice_application" \notin {"order_cancel"}
  /\ \A o \in Orders : /\ PaymentKind(o) \notin {"invoice_application"}
                       /\ PaymentKind(o) \notin {"order_cancel"}
  BY DEF PaymentKind

\* What changes neither the money nor those rows of an order keeps them.
LEMMA PostedStays ==
  ASSUME NEW L, NEW M, NEW row, NEW new, NEW o, Posted(L, row, o),
         new.payment = row.payment, new.prepaid = row.prepaid,
         new.applied = row.applied,
         Spares(L, M, o, PaymentKinds), Spares(L, M, o, {"invoice_application"})
  PROVE  Posted(M, new, o)
  BY DEF Posted, Spares

LEMMA SameSpared ==
  ASSUME NEW L, NEW o, NEW kinds
  PROVE  Spares(L, L, o, kinds)
  BY DEF Spares

LEMMA PaymentPostsOnce ==
  ASSUME NEW L, NEW M, NEW row, NEW new, NEW o, NEW amount, Posted(L, row, o),
         row.payment # "paid", new.payment = "paid", new.prepaid = amount,
         new.applied = row.applied,
         Gains(L, M, o, PaymentKinds, amount), Spares(L, M, o, {"invoice_application"})
  PROVE  Posted(M, new, o)
<1> DEFINE n == Len(L) + 1
<1>1. RowsIn(L, o, PaymentKinds) = {}
  BY DEF Posted
<1>2. RowsIn(M, o, PaymentKinds) = RowsIn(L, o, PaymentKinds) \cup {n} /\ M[n].amount = amount
  BY DEF Gains
<1> HIDE DEF n
<1>3. RowsIn(M, o, PaymentKinds) = {n}
  BY <1>1, <1>2
<1>4. /\ \A i \in RowsIn(M, o, {"invoice_application"}) :
           M[i].amount = - new.applied /\ new.applied > 0
      /\ \A i, j \in RowsIn(M, o, {"invoice_application"}) : i = j
  BY DEF Posted, Spares
<1>5. QED
  BY <1>2, <1>3, <1>4 DEF Posted

LEMMA InvoicePosts ==
  ASSUME NEW L, NEW M, NEW row, NEW new, NEW o, NEW credit, Posted(L, row, o),
         new.payment = row.payment, new.prepaid = row.prepaid,
         row.applied = 0, new.applied = credit, credit > 0,
         Spares(L, M, o, PaymentKinds),
         Gains(L, M, o, {"invoice_application"}, - credit)
  PROVE  Posted(M, new, o)
<1> DEFINE n == Len(L) + 1
           Apps == {"invoice_application"}
<1>1. RowsIn(L, o, Apps) = {}
  BY DEF Posted
<1>2. RowsIn(M, o, Apps) = RowsIn(L, o, Apps) \cup {n} /\ M[n].amount = - credit
  BY DEF Gains
<1> HIDE DEF n, Apps
<1>3. RowsIn(M, o, Apps) = {n}
  BY <1>1, <1>2
<1>4. /\ \A i \in RowsIn(M, o, Apps) : M[i].amount = - new.applied /\ new.applied > 0
      /\ \A i, j \in RowsIn(M, o, Apps) : i = j
  BY <1>2, <1>3
<1>5. /\ new.payment # "paid" => RowsIn(M, o, PaymentKinds) = {}
      /\ new.payment = "paid" => \E i : RowsIn(M, o, PaymentKinds) = {i}
      /\ \A i \in RowsIn(M, o, PaymentKinds) : M[i].amount = new.prepaid
  BY DEF Posted, Spares
<1>6. QED
  BY <1>4, <1>5 DEF Posted, Apps

LEMMA AllPostedKept ==
  ASSUME TypeOK, Captured, Recorded, AllPosted, [Next]_vars
  PROVE  AllPosted'
<1> SUFFICES ASSUME NEW o \in Orders PROVE Posted(ledger'[Owner[o]], db'[o], o)
  BY KindsDiffer DEF AllPosted, Posted, RowsIn
<1> DEFINE L == ledger[Owner[o]]
           M == ledger'[Owner[o]]
           Apps == {"invoice_application"}
<1>p. Posted(L, db[o], o)
  BY DEF AllPosted
<1>k. /\ "order_cancel" \notin Apps /\ "invoice_application" \in Apps
      /\ \A p \in Orders : PaymentKind(p) \notin Apps
  BY KindsApart
<1>s. \A new : /\ new.payment = db[o].payment /\ new.prepaid = db[o].prepaid
               /\ new.applied = db[o].applied
               /\ Spares(L, M, o, PaymentKinds) /\ Spares(L, M, o, Apps)
               => Posted(M, new, o)
  BY <1>p, PostedStays
<1>1. CASE MoneyKept /\ UNCHANGED ledger
  BY <1>1, <1>s, SameSpared DEF MoneyKept
<1> HIDE DEF Apps
<1>2. CASE Credits
  <2>1. PICK p \in Orders, amount \in Amounts, gw \in Charges \cup {None} :
             CreditPrepaid(p, amount, gw)
    BY <1>2 DEF Credits, Credited
  <2>2. PostEntry(Owner[p], p, PaymentKind(p), amount)
    BY <2>1 DEF CreditPrepaid
  <2>3. PICK kind : kind = PaymentKind(p)
    OBVIOUS
  <2>4. /\ Spares(L, M, o, Apps)
        /\ o = p => Gains(L, M, o, PaymentKinds, amount)
        /\ o # p => Spares(L, M, o, PaymentKinds)
    <3>1. PostEntry(Owner[p], p, kind, amount) /\ kind \in PaymentKinds /\ kind \notin Apps
      BY <2>2, <2>3, <1>k, KindsDiffer
    <3>2. QED
      BY <3>1, PostRows
  <2>5. CASE o # p
    BY <1>s, <2>1, <2>4, <2>5, CreditFields
  <2>6. CASE o = p
    <3>1. /\ db[o].payment # "paid" /\ db'[o].payment = "paid"
          /\ db'[o].prepaid = amount /\ db'[o].applied = db[o].applied
      BY <2>1, <2>6, CreditFields
    <3> HIDE DEF L, M
    <3>2. Posted(M, db'[o], o)
      BY <1>p, <2>4, <2>6, <3>1, PaymentPostsOnce DEF Apps
    <3>3. QED
      BY <3>2 DEF M
  <2>7. QED
    BY <2>5, <2>6
<1>3. ASSUME NEW w \in Workers, InvoiceCommit(w)
      PROVE  Posted(M, db'[o], o)
  <2>1. PICK p \in Orders : p = job[w].target
    BY <1>3, InvoiceFields
  <2>2. PICK credit \in Nat : credit = CreditForInvoice(p)
    BY <1>3, <2>1, InvoiceFields
  <2>3. /\ db'[p].applied = db[p].applied + credit
        /\ db'[p].payment = db[p].payment /\ db'[p].prepaid = db[p].prepaid
        /\ \A q \in Orders : q # p => db'[q] = db[q]
    BY <1>3, <2>1, <2>2, InvoiceFields
  <2>4. IF credit > 0 THEN PostEntry(Owner[p], p, "invoice_application", - credit)
                      ELSE UNCHANGED walletVars
    BY <1>3, <2>1, <2>2 DEF InvoiceCommit
  <2>5. credit > 0 => db[p].applied = 0
    BY <2>2, RowTyped DEF CreditForInvoice
  <2>6. CASE credit = 0
    <3>1. M = L
      BY <2>4, <2>6 DEF walletVars
    <3>2. /\ db'[o].applied = db[o].applied
          /\ db'[o].payment = db[o].payment /\ db'[o].prepaid = db[o].prepaid
      BY <2>3, <2>6, RowTyped
    <3>3. QED
      BY <1>s, <3>1, <3>2, SameSpared
  <2>7. CASE credit > 0
    <3>1. PICK amount : amount = - credit
      OBVIOUS
    <3>2. /\ Spares(L, M, o, PaymentKinds)
          /\ o = p => Gains(L, M, o, Apps, amount)
          /\ o # p => Spares(L, M, o, Apps)
      <4>1. PICK kind : kind = "invoice_application"
        OBVIOUS
      <4>2. PostEntry(Owner[p], p, kind, amount) /\ kind \notin PaymentKinds /\ kind \in Apps
        BY <1>k, <2>4, <2>7, <3>1, <4>1, KindsDiffer
      <4>3. QED
        BY <4>2, PostRows
    <3>3. CASE o # p
      BY <1>s, <2>3, <3>2, <3>3
    <3>4. CASE o = p
      <4>1. /\ db[o].applied = 0 /\ db'[o].applied = credit
            /\ db'[o].payment = db[o].payment /\ db'[o].prepaid = db[o].prepaid
        BY <2>3, <2>5, <2>7, <3>4
      <4> HIDE DEF L, M
      <4>2. Posted(M, db'[o], o)
        BY <1>p, <2>7, <3>1, <3>2, <3>4, <4>1, InvoicePosts DEF Apps
      <4>3. QED
        BY <4>2 DEF M
    <3>5. QED
      BY <3>3, <3>4
  <2>8. QED
    BY <2>6, <2>7
<1>4. ASSUME NEW w \in Workers, CancelCommit(w), MoneyKept
      PROVE  Posted(M, db'[o], o)
  <2>1. PICK p \in Orders : p = job[w].target
    BY <1>4, TargetTyped DEF CancelCommit, At, Threads, TypeOK
  <2>2. UNCHANGED ledger \/ \E amount : PostEntry(Owner[p], p, "order_cancel", amount)
    BY <1>4, <2>1 DEF CancelCommit, SettleCredit, walletVars
  <2>3. ASSUME NEW amount, PostEntry(Owner[p], p, "order_cancel", amount)
        PROVE  Spares(L, M, o, PaymentKinds) /\ Spares(L, M, o, Apps)
    <3>1. PICK kind : kind = "order_cancel"
      OBVIOUS
    <3>2. PostEntry(Owner[p], p, kind, amount) /\ kind \notin PaymentKinds /\ kind \notin Apps
      BY <1>k, <2>3, <3>1, KindsDiffer
    <3>3. QED
      BY <3>2, PostRows
  <2>4. CASE UNCHANGED ledger
    BY <1>1, <1>4, <2>4
  <2>5. QED
    BY <1>4, <1>s, <2>2, <2>3, <2>4 DEF MoneyKept
<1>5. QED
  BY <1>1, <1>2, <1>3, <1>4, MoneyMoves DEF WalletKept, walletVars

LEMMA AtMostOne ==
  ASSUME NEW S, \A i, j \in S : i = j
  PROVE  Cardinality(S) <= 1
<1>1. CASE S = {}
  BY <1>1, FS_EmptySet
<1>2. ASSUME NEW i \in S
      PROVE  Cardinality(S) <= 1
  <2>1. S = {i}
    BY <1>2
  <2>2. Cardinality(S) = 1
    BY <2>1, FS_Singleton
  <2>3. QED
    BY <2>2
<1>3. QED
  BY <1>1, <1>2

\* Whatever number of callbacks, polls, job runs and staff calls report the
\* payment of an order, it is posted once, with the amount on the row, when the
\* order becomes paid; its invoice takes credit at most once.
THEOREM PaymentIsPostedOnce == Spec => []PaymentPostedOnce
<1>1. Init => AllPosted
  <2> SUFFICES ASSUME Init, NEW o \in Orders PROVE Posted(ledger[Owner[o]], db[o], o)
    BY DEF AllPosted
  <2>1. ledger[Owner[o]] = <<>> /\ db[o].payment = "pending"
    BY OwnerAssumption DEF Init, LedgerInit, NewOrder
  <2>2. \A kinds : RowsIn(ledger[Owner[o]], o, kinds) = {}
    BY <2>1 DEF RowsIn
  <2>3. QED
    BY <2>1, <2>2 DEF Posted
<1>2. TypeOK /\ Traced /\ AllPosted /\ [Next]_vars => AllPosted'
  BY AllPostedKept DEF Traced
<1>3. AllPosted => PaymentPostedOnce
  <2> SUFFICES ASSUME AllPosted, NEW o \in Orders
               PROVE  LET L == ledger[Owner[o]] IN
                /\ Cardinality(Rows(o, PaymentKinds)) = IF db[o].payment = "paid" THEN 1 ELSE 0
                /\ \A i \in Rows(o, PaymentKinds) : L[i].amount = db[o].prepaid
                /\ \A i \in Rows(o, {"invoice_application"}) : L[i].amount = - db[o].applied
                /\ Cardinality(Rows(o, {"invoice_application"})) <= 1
    BY DEF PaymentPostedOnce
  <2> DEFINE P == Rows(o, PaymentKinds)
             R == Rows(o, {"invoice_application"})
  <2>1. /\ db[o].payment # "paid" => P = {}
        /\ db[o].payment = "paid" => \E i : P = {i}
        /\ \A i \in P : ledger[Owner[o]][i].amount = db[o].prepaid
        /\ \A i \in R : ledger[Owner[o]][i].amount = - db[o].applied
        /\ \A i, j \in R : i = j
    BY RowsAre DEF AllPosted, Posted
  <2> HIDE DEF P, R
  <2>2. Cardinality(P) = IF db[o].payment = "paid" THEN 1 ELSE 0
    BY <2>1, FS_EmptySet, FS_Singleton
  <2>3. Cardinality(R) <= 1
    BY <2>1, AtMostOne
  <2>4. QED
    BY <2>1, <2>2, <2>3 DEF P, R
<1>4. QED
  BY <1>1, <1>2, <1>3, TypeCorrect, TracedAlways, PTL DEF Spec

(***************************************************************************)
(* The trail of a refund: a worker asks Geidea for the charge the row      *)
(* names, finishes the claim only when the charge was given back, and      *)
(* takes the credit back once, after that.                                 *)
(***************************************************************************)
RefundTrail ==
  \A o \in Orders :
    /\ Refunding(o) # {} => db[o].gatewayRef # None
    /\ \A w \in Refunding(o) :
         job[w].pc = "cancel_finalize" => charges[db[o].gatewayRef].state = "refunded"
    /\ db[o].refund = Refunded =>
         /\ db[o].gatewayRef # None
         /\ charges[db[o].gatewayRef].state = "refunded"

\* The charge an order names stays the one it names.
LEMMA NamedStays ==
  ASSUME TypeOK, Captured, Recorded, [Next]_vars, NEW o \in Orders,
         db[o].gatewayRef # None
  PROVE  /\ db'[o].gatewayRef = db[o].gatewayRef
         /\ db[o].gatewayRef \in Charges
         /\ charges[db[o].gatewayRef].state = "refunded" =>
              charges'[db[o].gatewayRef].state = "refunded"
<1>1. ASSUME Credits
      PROVE  db'[o].gatewayRef = db[o].gatewayRef
  <2>1. PICK p \in Orders, amount \in Amounts, gw \in Charges \cup {None} :
             CreditPrepaid(p, amount, gw)
    BY <1>1 DEF Credits, Credited
  <2>2. p # o
    BY <2>1, CreditFields DEF Recorded
  <2>3. QED
    BY <2>1, <2>2, CreditFields
<1>2. ASSUME NEW w \in Workers, InvoiceCommit(w)
      PROVE  db'[o].gatewayRef = db[o].gatewayRef
  BY <1>2, InvoiceFields
<1>3. db[o].gatewayRef \in Charges
  BY DEF TypeOK, DbOK, OrderRow
<1>4. charges[db[o].gatewayRef].state # "none"
  BY DEF Recorded
<1>5. db'[o].gatewayRef = db[o].gatewayRef
  BY <1>1, <1>2, MoneyMoves DEF MoneyKept
<1>6. QED
  BY <1>3, <1>4, <1>5, CapturedStays

\* Who refunds an order after a step did so before, or has just claimed it.
LEMMA RefundingMoves ==
  ASSUME TypeOK, RefundExclusive, [Next]_vars, NEW o \in Orders, NEW w \in Refunding(o)'
  PROVE  w \in Workers /\ (w \in Refunding(o) \/ db[o].gatewayRef # None)
<1>1. w \in Workers /\ job'[w].pc \in RefundSteps /\ job'[w].target = o
  BY DEF Refunding
<1>2. CASE Untouched
  BY <1>1, <1>2 DEF Untouched, Refunding
<1>3. ASSUME NEW v \in Workers, NEW p \in Orders, NEW customer \in BOOLEAN,
             CancelClaim(v, p, customer)
      PROVE  w \in Refunding(o) \/ db[o].gatewayRef # None
  <2>1. CASE v = w
    <3>1. p = o /\ db[p].gatewayRef # None
      BY <1>1, <1>3, <2>1, ClaimFields DEF CancelClaim, RefundNeeded
    <3>2. QED
      BY <3>1
  <2>2. CASE v # w
    BY <1>1, <1>3, <2>2, ClaimFields DEF Refunding
  <2>3. QED
    BY <2>1, <2>2
<1>4. ASSUME NEW v \in Workers, CancelFinalize(v) \/ CancelRelease(v)
      PROVE  w \in Refunding(o)
  BY <1>1, <1>4, FreeFields DEF Refunding
<1>5. QED
  BY <1>1, <1>2, <1>3, <1>4, ClaimMoves DEF Claims

\* Who gets to the end of the claim has the charge given back.
LEMMA FinalizesGivenBack ==
  ASSUME TypeOK, Captured, Recorded, RefundExclusive, RefundTrail, [Next]_vars,
         NEW o \in Orders, NEW w \in Refunding(o)', job'[w].pc = "cancel_finalize"
  PROVE  charges'[db[o].gatewayRef].state = "refunded"
<1>1. w \in Workers /\ w \in Threads /\ job'[w].target = o
  BY DEF Refunding, Threads
<1>2. CASE job'[w] = job[w]
  <2>1. w \in Refunding(o) /\ job[w].pc = "cancel_finalize"
    BY <1>1, <1>2 DEF Refunding, RefundSteps
  <2>2. db[o].gatewayRef # None /\ charges[db[o].gatewayRef].state = "refunded"
    BY <2>1 DEF RefundTrail
  <2>3. QED
    BY <2>2, NamedStays
<1>3. CASE Arrives(w)
  <2>1. CancelIssue(w) /\ job[w].target = o
    BY <1>1, <1>3 DEF Arrives
  <2>2. PICK c : c = db[o].gatewayRef
    OBVIOUS
  <2>3. Refundable(c) /\ GiveBack(c)
    BY <2>1, <2>2 DEF CancelIssue
  <2>4. charges'[c].state = "refunded"
    BY <2>3 DEF Refundable, GiveBack, TypeOK, GatewayOK, Charge
  <2>5. QED
    BY <2>2, <2>4
<1>4. QED
  BY <1>1, <1>2, <1>3, NextHolds DEF Holds

\* A refund id on the row was there, or was written by its holder.
LEMMA DoneMoves ==
  ASSUME TypeOK, RefundExclusive, [Next]_vars, NEW o \in Orders
  PROVE  /\ db[o].refund = Refunded => db'[o].refund = Refunded
         /\ db'[o].refund = Refunded =>
              \/ db[o].refund = Refunded
              \/ \E w \in Refunding(o) : CancelFinalize(w)
<1>1. CASE Untouched
  BY <1>1 DEF Untouched
<1>2. ASSUME NEW w \in Workers, NEW p \in Orders, NEW customer \in BOOLEAN,
             CancelClaim(w, p, customer)
      PROVE  db'[o].refund # Refunded <=> db[o].refund # Refunded
  BY <1>2, ClaimFields, ThreadAssumption
<1>3. ASSUME NEW w \in Workers, CancelFinalize(w) \/ CancelRelease(w)
      PROVE  /\ db[o].refund = Refunded => db'[o].refund = Refunded
             /\ db'[o].refund = Refunded =>
                  \/ db[o].refund = Refunded
                  \/ w \in Refunding(o) /\ CancelFinalize(w)
  BY <1>3, FreeFields, ThreadAssumption
<1>4. QED
  BY <1>1, <1>2, <1>3, ClaimMoves DEF Claims

LEMMA RefundTrailKept ==
  ASSUME TypeOK, Captured, Recorded, RefundExclusive, RefundTrail, [Next]_vars
  PROVE  RefundTrail'
<1> SUFFICES ASSUME NEW o \in Orders
             PROVE  /\ Refunding(o)' # {} => db'[o].gatewayRef # None
                    /\ \A w \in Refunding(o)' : job'[w].pc = "cancel_finalize" =>
                         charges'[db'[o].gatewayRef].state = "refunded"
                    /\ db'[o].refund = Refunded =>
                         /\ db'[o].gatewayRef # None
                         /\ charges'[db'[o].gatewayRef].state = "refunded"
  BY DEF RefundTrail
<1>1. ASSUME NEW w \in Refunding(o)'
      PROVE  db[o].gatewayRef # None
  BY <1>1, RefundingMoves DEF RefundTrail
<1>2. Refunding(o)' # {} => db'[o].gatewayRef # None
  BY <1>1, NamedStays
<1>3. ASSUME NEW w \in Refunding(o)', job'[w].pc = "cancel_finalize"
      PROVE  charges'[db'[o].gatewayRef].state = "refunded"
  BY <1>1, <1>3, FinalizesGivenBack, NamedStays
<1>4. ASSUME db'[o].refund = Refunded
      PROVE  /\ db'[o].gatewayRef # None
             /\ charges'[db'[o].gatewayRef].state = "refunded"
  <2>1. db[o].gatewayRef # None /\ charges[db[o].gatewayRef].state = "refunded"
    BY <1>4, DoneMoves DEF RefundTrail, CancelFinalize, At
  <2>2. QED
    BY <2>1, NamedStays
<1>5. QED
  BY <1>2, <1>3, <1>4

LEMMA RefundTrailAlways == Spec => []RefundTrail
<1>1. Init => RefundTrail
  BY ThreadAssumption
     DEF Init, NewOrder, RefundTrail, Refunding, RefundSteps, Idle, Threads
<1>2. TypeOK /\ Traced /\ RefundExclusive /\ RefundTrail /\ [Next]_vars => RefundTrail'
  BY RefundTrailKept DEF Traced
<1>3. QED
  BY <1>1, <1>2, TypeCorrect, TracedAlways, RefundIsExclusive, PTL DEF Spec

\* For every number of orders, charges and requests: a refund id on a row is a
\* refund that Geidea made of the charge that paid the order, in full.
THEOREM RecordedRefundsAreReal == Spec => []RefundRecordedIsReal
<1>1. TypeOK /\ Traced /\ RefundTrail => RefundRecordedIsReal
  <2> SUFFICES ASSUME TypeOK, Traced, RefundTrail, NEW o \in Orders,
                      db[o].refund = Refunded
               PROVE  /\ db[o].gatewayRef # None
                      /\ charges[db[o].gatewayRef].state = "refunded"
                      /\ charges[db[o].gatewayRef].amount = RefundAmount(o)
    BY DEF RefundRecordedIsReal
  <2>1. /\ db[o].gatewayRef # None
        /\ charges[db[o].gatewayRef].state = "refunded"
    BY DEF RefundTrail
  <2>2. charges[db[o].gatewayRef].amount = db[o].prepaid /\ db[o].prepaid > 0
    BY <2>1 DEF Traced, Recorded
  <2>3. QED
    BY <2>1, <2>2 DEF RefundAmount
<1>2. QED
  BY <1>1, TypeCorrect, TracedAlways, RefundTrailAlways, PTL

(***************************************************************************)
(* Taking the credit back.                                                 *)
(***************************************************************************)
\* The workers that will, and the rows that did.
Takers(o) ==
  {w \in Workers : /\ job[w].pc = "cancel_commit" /\ job[w].target = o
                   /\ job[w].amount > 0}

Taken(L, o) == {i \in RowsIn(L, o, {"order_cancel"}) : L[i].amount < 0}

LEMMA ReversalsAre ==
  ASSUME NEW o \in Orders
  PROVE  Reversals(o) = Taken(ledger[Owner[o]], o)
  BY RowsAre DEF Reversals, Taken

TakenTrail ==
  \A o \in Orders :
    /\ Takers(o) # {} => db[o].refund = Refunded
    /\ \A v, w \in Takers(o) : v = w
    /\ Taken(ledger[Owner[o]], o) # {} => Takers(o) = {} /\ db[o].refund = Refunded
    /\ \A i, j \in Taken(ledger[Owner[o]], o) : i = j

LEMMA SparesTaken ==
  ASSUME NEW L, NEW M, NEW o, Spares(L, M, o, {"order_cancel"})
  PROVE  Taken(M, o) = Taken(L, o)
  BY DEF Spares, Taken

\* Only the cancellation of the order takes its credit back, with one row, and
\* for a refund.
LEMMA TakenMoves ==
  ASSUME TypeOK, Captured, [Next]_vars, NEW o \in Orders
  PROVE  \/ Taken(ledger'[Owner[o]], o) = Taken(ledger[Owner[o]], o)
         \/ \E w \in Takers(o) :
              /\ CancelCommit(w)
              /\ Taken(ledger'[Owner[o]], o) =
                   Taken(ledger[Owner[o]], o) \cup {Len(ledger[Owner[o]]) + 1}
<1> DEFINE L == ledger[Owner[o]]
           M == ledger'[Owner[o]]
           Back == {"order_cancel"}
           Same == Taken(M, o) = Taken(L, o)
<1>k. /\ "order_cancel" \in Back /\ "invoice_application" \notin Back
      /\ \A p \in Orders : PaymentKind(p) \notin Back
  BY KindsApart
<1>s. Spares(L, M, o, Back) => Same
  BY SparesTaken
<1>1. ASSUME UNCHANGED ledger
      PROVE  Same
  BY <1>1
<1> HIDE DEF Back
<1>2. ASSUME NEW p \in Orders, NEW kind, NEW amount,
             PostEntry(Owner[p], p, kind, amount), kind \notin Back \/ p # o
      PROVE  Same
  BY <1>s, <1>2, PostRows
<1>3. CASE Credits
  <2>1. PICK p \in Orders, amount \in Amounts, gw \in Charges \cup {None} :
             CreditPrepaid(p, amount, gw)
    BY <1>3 DEF Credits, Credited
  <2>2. PICK kind : kind = PaymentKind(p)
    OBVIOUS
  <2>3. QED
    BY <1>2, <1>k, <2>1, <2>2 DEF CreditPrepaid
<1>4. ASSUME NEW w \in Workers, InvoiceCommit(w)
      PROVE  Same
  <2>1. PICK p \in Orders : p = job[w].target
    BY <1>4, InvoiceFields
  <2>2. PICK kind : kind = "invoice_application"
    OBVIOUS
  <2>3. UNCHANGED ledger \/ \E amount : PostEntry(Owner[p], p, kind, amount)
    BY <1>4, <2>1, <2>2 DEF InvoiceCommit, walletVars
  <2>4. QED
    BY <1>1, <1>2, <1>k, <2>2, <2>3
<1>5. ASSUME NEW w \in Workers, CancelCommit(w)
      PROVE  \/ Same
             \/ w \in Takers(o) /\ Taken(M, o) = Taken(L, o) \cup {Len(L) + 1}
  <2>1. PICK p \in Orders : p = job[w].target
    BY <1>5, TargetTyped DEF CancelCommit, At, Threads, TypeOK
  <2>2. PICK kind : kind = "order_cancel"
    OBVIOUS
  <2>3. \/ UNCHANGED ledger
        \/ PostEntry(Owner[p], p, kind, 0)
        \/ /\ job[w].amount > 0 /\ ReversedCredit(p, job[w].amount) > 0
           /\ PostEntry(Owner[p], p, kind, - ReversedCredit(p, job[w].amount))
    BY <1>5, <2>1, <2>2 DEF CancelCommit, SettleCredit, walletVars
  <2>4. CASE p # o \/ UNCHANGED ledger
    BY <1>1, <1>2, <2>3, <2>4
  <2>5. ASSUME p = o, NEW amount \in Int, PostEntry(Owner[p], p, kind, amount)
        PROVE  Taken(M, o) = IF amount < 0 THEN Taken(L, o) \cup {Len(L) + 1}
                                           ELSE Taken(L, o)
    <3>1. Gains(L, M, o, Back, amount)
      BY <1>k, <2>2, <2>5, PostRows
    <3>2. QED
      <4> DEFINE n == Len(L) + 1
      <4>1. RowsIn(M, o, Back) = RowsIn(L, o, Back) \cup {n} /\ M[n].amount = amount
        BY <3>1 DEF Gains
      <4>2. \A i \in RowsIn(L, o, Back) : M[i] = L[i]
        BY <3>1 DEF Gains
      <4> HIDE DEF L, M, n
      <4>3. Taken(M, o) = IF amount < 0 THEN Taken(L, o) \cup {n} ELSE Taken(L, o)
        <5>1. /\ Taken(M, o) = {i \in RowsIn(M, o, Back) : M[i].amount < 0}
              /\ Taken(L, o) = {i \in RowsIn(L, o, Back) : L[i].amount < 0}
          BY DEF Taken, Back
        <5>2. n \notin RowsIn(L, o, Back)
          <6>1. \A i \in RowsIn(L, o, Back) : i \in 1..Len(L)
            BY DEF RowsIn
          <6>2. Len(L) \in Nat
            BY <2>1, <2>5, PostAdds DEF Adds, L
          <6>3. QED
            BY <6>1, <6>2 DEF n
        <5>3. QED
          BY <2>5, <4>1, <4>2, <5>1, <5>2
      <4>4. QED
        BY <4>3 DEF L, M, n
  <2>6. CASE p = o /\ PostEntry(Owner[p], p, kind, 0)
    BY <2>5, <2>6
  <2>7. CASE /\ p = o /\ job[w].amount > 0
             /\ ReversedCredit(p, job[w].amount) > 0
             /\ PostEntry(Owner[p], p, kind, - ReversedCredit(p, job[w].amount))
    <3>1. w \in Takers(o)
      BY <1>5, <2>1, <2>7 DEF Takers, CancelCommit, At
    <3>2. ReversedCredit(p, job[w].amount) \in Nat
      <4>1. /\ db[p].prepaid \in Nat /\ balance[Owner[p]] \in Nat /\ job[w].amount \in Nat
        BY RowTyped, OwnerAssumption DEF TypeOK, WalletOK, JobsOK, JobState, Threads
      <4>2. QED
        BY <4>1 DEF ReversedCredit, Smaller
    <3>3. PICK amount \in Int : amount = - ReversedCredit(p, job[w].amount)
      BY <3>2
    <3>4. amount < 0 /\ PostEntry(Owner[p], p, kind, amount)
      BY <2>7, <3>2, <3>3
    <3>5. QED
      BY <2>5, <2>7, <3>1, <3>4
  <2>8. QED
    BY <2>3, <2>4, <2>6, <2>7
<1>6. QED
  BY <1>1, <1>3, <1>4, <1>5, MoneyMoves DEF WalletKept, walletVars

\* Who will take the credit back was about to, or has just finished the claim.
LEMMA TakersMove ==
  ASSUME TypeOK, [Next]_vars, NEW o \in Orders, NEW w \in Takers(o)'
  PROVE  \/ w \in Takers(o)
         \/ CancelFinalize(w) /\ job[w].target = o /\ db[o].refund = w
<1>1. /\ w \in Workers /\ w \in Threads /\ job'[w].pc = "cancel_commit"
      /\ job'[w].target = o /\ job'[w].amount > 0
  BY DEF Takers, Threads
<1>2. job'[w] = job[w] \/ Arrives(w)
  BY <1>1, NextHolds DEF Holds
<1>3. QED
  BY <1>1, <1>2 DEF Arrives, Takers

LEMMA TakenTrailKept ==
  ASSUME TypeOK, Captured, RefundExclusive, TakenTrail, [Next]_vars
  PROVE  TakenTrail'
<1> SUFFICES ASSUME NEW o \in Orders
             PROVE  LET M == ledger'[Owner[o]] IN
                    /\ Takers(o)' # {} => db'[o].refund = Refunded
                    /\ \A v, w \in Takers(o)' : v = w
                    /\ Taken(M, o) # {} => Takers(o)' = {} /\ db'[o].refund = Refunded
                    /\ \A i, j \in Taken(M, o) : i = j
  BY DEF TakenTrail, Taken, RowsIn
<1> DEFINE L == ledger[Owner[o]]
           M == ledger'[Owner[o]]
<1>p. /\ Takers(o) # {} => db[o].refund = Refunded
      /\ \A v, w \in Takers(o) : v = w
      /\ Taken(L, o) # {} => Takers(o) = {} /\ db[o].refund = Refunded
      /\ \A i, j \in Taken(L, o) : i = j
  BY DEF TakenTrail
<1>1. ASSUME NEW v \in Workers, CancelFinalize(v), job[v].target = o, db[o].refund = v
      PROVE  /\ Takers(o)' \subseteq {v} /\ Taken(M, o) = {}
             /\ db'[o].refund = Refunded
  <2>1. Takers(o) = {} /\ Taken(L, o) = {}
    BY <1>1, <1>p, ThreadAssumption
  <2>2. db'[o].refund = Refunded /\ \A w \in Workers : w # v => job'[w] = job[w]
    BY <1>1, FreeFields
  <2>3. Takers(o)' \subseteq {v}
    BY <2>1, <2>2 DEF Takers
  <2>4. M = L
    BY <1>1 DEF CancelFinalize, walletVars
  <2>5. QED
    BY <2>1, <2>2, <2>3, <2>4
<1>2. CASE Takers(o)' \subseteq Takers(o)
  <2>1. db[o].refund = Refunded => db'[o].refund = Refunded
    BY DoneMoves
  <2>2. CASE Taken(M, o) = Taken(L, o)
    <3> HIDE DEF L, M
    <3>1. /\ Takers(o)' # {} => db'[o].refund = Refunded
          /\ \A v, w \in Takers(o)' : v = w
          /\ Taken(M, o) # {} => Takers(o)' = {} /\ db'[o].refund = Refunded
          /\ \A i, j \in Taken(M, o) : i = j
      BY <1>2, <1>p, <2>1, <2>2
    <3>2. QED
      BY <3>1 DEF M
  <2>3. ASSUME NEW w \in Takers(o), CancelCommit(w),
               Taken(M, o) = Taken(L, o) \cup {Len(L) + 1}
        PROVE  /\ Takers(o)' = {} /\ db'[o].refund = Refunded
               /\ \A i, j \in Taken(M, o) : i = j
    <3>1. w \in Workers /\ w \in Threads
      BY DEF Takers, Threads
    <3>2. job'[w] = Idle
      BY <2>3, <3>1 DEF CancelCommit, Finish, TypeOK, JobsOK
    <3>3. w \notin Takers(o)'
      BY <3>2 DEF Takers, Idle
    <3>4. Takers(o) = {w} /\ Taken(L, o) = {}
      BY <1>p, <2>3
    <3> HIDE DEF L, M
    <3>5. QED
      BY <1>2, <1>p, <2>1, <2>3, <3>3, <3>4
  <2>4. QED
    BY <2>2, <2>3, TakenMoves
<1>3. CASE ~(Takers(o)' \subseteq Takers(o))
  <2>1. PICK v \in Workers : CancelFinalize(v) /\ job[v].target = o /\ db[o].refund = v
    BY <1>3, TakersMove DEF Takers
  <2>2. QED
    BY <1>1, <2>1
<1>4. QED
  BY <1>2, <1>3

LEMMA TakenTrailAlways == Spec => []TakenTrail
<1>1. Init => TakenTrail
  <2> SUFFICES ASSUME Init, NEW o \in Orders
               PROVE  Takers(o) = {} /\ Taken(ledger[Owner[o]], o) = {}
    BY DEF TakenTrail
  <2>1. ledger[Owner[o]] = <<>>
    BY OwnerAssumption DEF Init, LedgerInit
  <2>2. QED
    BY <2>1 DEF Init, Takers, Taken, RowsIn, Idle, Threads
<1>2. TypeOK /\ Traced /\ RefundExclusive /\ TakenTrail /\ [Next]_vars => TakenTrail'
  BY TakenTrailKept DEF Traced
<1>3. QED
  BY <1>1, <1>2, TypeCorrect, TracedAlways, RefundIsExclusive, PTL DEF Spec

\* Whatever requests and jobs run, account credit is taken back for a
\* cancellation at most once, and only when the card was refunded.
THEOREM ReversalsAreRefunded == Spec => []ReversedOnlyIfRefunded
<1>1. TakenTrail => ReversedOnlyIfRefunded
  <2> SUFFICES ASSUME TakenTrail, NEW o \in Orders
               PROVE  /\ Reversals(o) # {} => db[o].refund = Refunded
                      /\ Cardinality(Reversals(o)) <= 1
    BY DEF ReversedOnlyIfRefunded
  <2>1. /\ Reversals(o) # {} => db[o].refund = Refunded
        /\ \A i, j \in Reversals(o) : i = j
    BY ReversalsAre DEF TakenTrail
  <2>2. QED
    BY <2>1, AtMostOne
<1>2. QED
  BY <1>1, TakenTrailAlways, PTL

(***************************************************************************)
(* Whose money an invoice and a cancellation spend.  A status that is      *)
(* written from a stale read revives a cancelled order, and a profile that *)
(* is saved whole overwrites the balance: what follows is for the systems  *)
(* in which those requests do not run.                                     *)
(***************************************************************************)
StaleWrites == {"confirm", "restage", "profile"}

Quiet == \A t \in Threads : job[t].pc \notin StaleWrites

LEMMA QuietAlways ==
  ASSUME Requests \cap StaleWrites = {}
  PROVE  Spec => []Quiet
<1>1. Init => Quiet
  BY DEF Init, Quiet, StaleWrites, Idle
<1>2. TypeOK /\ Quiet /\ [Next]_vars => Quiet'
  <2> SUFFICES ASSUME TypeOK, Quiet, [Next]_vars, NEW t \in Threads
               PROVE  job'[t].pc \notin StaleWrites
    BY DEF Quiet
  <2>1. job'[t] = job[t] \/ Arrives(t)
    BY NextHolds DEF Holds
  <2>2. QED
    BY <2>1 DEF Arrives, Quiet, StaleWrites
<1>3. QED
  BY <1>1, <1>2, TypeCorrect, PTL DEF Spec

\* What the row of an order goes through.
RowMoves(o) ==
  /\ db[o].invoice => db'[o].invoice
  /\ db'[o].invoice =>
       db[o].invoice \/ \E w \in Workers : InvoiceCommit(w) /\ job[w].target = o
  /\ db[o].salesorder # "none" => db'[o].salesorder # "none"
  /\ db[o].salesorder = "void" => db'[o].salesorder = "void"
  /\ Quiet /\ db[o].status = "cancelled" => db'[o].status = "cancelled"

RowsMove == \A o \in Orders : RowMoves(o)

LEMMA SameRows == UNCHANGED db => RowsMove
  BY DEF RowsMove, RowMoves

\* The writes that touch neither the documents nor the status.
LEMMA OtherFields ==
  ASSUME \A o \in Orders : /\ db'[o].invoice = db[o].invoice
                           /\ db'[o].salesorder = db[o].salesorder
                           /\ db'[o].status = db[o].status
  PROVE  RowsMove
  BY DEF RowsMove, RowMoves

\* The writes that cancel an order, or only void its sales order.
LEMMA CancelFields ==
  ASSUME TypeOK, NEW o \in Orders, NEW voided \in BOOLEAN,
         \/ db' = [db EXCEPT ![o].status = "cancelled",
                             ![o].salesorder = VoidIf(voided, o)]
         \/ db' = [db EXCEPT ![o].salesorder = VoidIf(voided, o)]
  PROVE  RowsMove
<1>1. VoidIf(voided, o) \in {"void", db[o].salesorder}
  BY DEF VoidIf
<1>2. PICK doc : doc = VoidIf(voided, o)
  OBVIOUS
<1>3. \/ db' = [db EXCEPT ![o].status = "cancelled", ![o].salesorder = doc]
      \/ db' = [db EXCEPT ![o].salesorder = doc]
  BY <1>2
<1>4. db[o].salesorder = "none" => doc = "none"
  BY <1>2 DEF VoidIf
<1>5. QED
  BY <1>1, <1>2, <1>3, <1>4 DEF RowsMove, RowMoves, TypeOK, DbOK, OrderRow

LEMMA CreditRows ==
  ASSUME TypeOK, NEW o \in Orders, NEW amount, NEW gw, CreditPrepaid(o, amount, gw)
  PROVE  RowsMove
<1>1. \A p \in Orders : /\ db'[p].invoice = db[p].invoice
                        /\ db'[p].salesorder = db[p].salesorder
                        /\ db'[p].status = db[p].status
  BY DEF CreditPrepaid, TypeOK, DbOK, OrderRow
<1>2. QED
  BY <1>1, OtherFields

LEMMA PaymentRows == TypeOK /\ Payment => RowsMove
<1> SUFFICES ASSUME TypeOK, Payment PROVE RowsMove
  OBVIOUS
<1>t. Workers \subseteq Threads
  BY DEF Threads
<1>1. ASSUME NEW w \in Workers, ReconcileWrite(w)
      PROVE  RowsMove
  <2>1. job[w].target \in Orders
    BY <1>t, <1>1, TargetTyped DEF ReconcileWrite, At, TypeOK
  <2>2. QED
    BY <1>1, <2>1, CreditRows, SameRows DEF ReconcileWrite
<1>2. ASSUME NEW w \in Workers, InitiateSession(w) \/ InitiateLink(w)
      PROVE  RowsMove
  <2>1. \A p \in Orders : /\ db'[p].invoice = db[p].invoice
                          /\ db'[p].salesorder = db[p].salesorder
                          /\ db'[p].status = db[p].status
    <3>1. CASE InitiateSession(w)
      <4>1. PICK o \in Orders : o = job[w].target
        BY <1>t, <3>1, TargetTyped DEF InitiateSession, At, TypeOK
      <4>2. \E r : db' = [db EXCEPT ![o].ref = r]
        BY <3>1, <4>1 DEF InitiateSession
      <4>3. QED
        BY <4>2 DEF TypeOK, DbOK, OrderRow
    <3>2. CASE InitiateLink(w)
      BY <3>2 DEF InitiateLink, TypeOK, DbOK, OrderRow
    <3>3. QED
      BY <1>2, <3>1, <3>2
  <2>2. QED
    BY <2>1, OtherFields
<1>3. QED
  BY <1>1, <1>2, CreditRows, SameRows
     DEF Payment, CustomerPays, RecordPaymentSuccess, InitiateEnds, InitiateRead,
         ReconcileRead, Callback

LEMMA SweepRows == TypeOK /\ Sweep => RowsMove
<1> SUFFICES ASSUME TypeOK, Sweep PROVE RowsMove
  OBVIOUS
<1>1. ASSUME NEW s \in sweep, SweepReconcile(s)
      PROVE  RowsMove
  <2>1. s.order \in Orders
    BY DEF TypeOK, Snapshot
  <2>2. QED
    BY <1>1, <2>1, CreditRows, SameRows DEF SweepReconcile
<1>2. ASSUME SweepCancel
      PROVE  RowsMove
  <2>1. PICK o \in Orders : o = job[Sweeper].target
    BY <1>2, TargetTyped DEF SweepCancel, At, Threads, TypeOK
  <2>2. \/ UNCHANGED db
        \/ \E voided \in BOOLEAN :
             db' = [db EXCEPT ![o].status = "cancelled", ![o].salesorder = VoidIf(voided, o)]
    BY <1>2, <2>1 DEF SweepCancel
  <2>3. QED
    BY <2>2, CancelFields, SameRows
<1>3. QED
  BY <1>1, <1>2, SameRows
     DEF Sweep, SweepStart, SweeperCrash, SweepFindsNothing, SweepFetchFails, SweepUndecided

LEMMA CancelRows ==
  ASSUME TypeOK, NEW w \in Workers, Cancel(w)
  PROVE  RowsMove
<1>t. w \in Threads
  BY DEF Threads
<1>1. CASE CancelCommit(w) \/ CancelRefused(w)
  <2>1. PICK o \in Orders : o = job[w].target
    BY <1>1, <1>t, TargetTyped DEF CancelCommit, CancelRefused, At, TypeOK
  <2>2. \/ UNCHANGED db
        \/ \E voided \in BOOLEAN :
             \/ db' = [db EXCEPT ![o].status = "cancelled", ![o].salesorder = VoidIf(voided, o)]
             \/ db' = [db EXCEPT ![o].salesorder = VoidIf(voided, o)]
    BY <1>1, <2>1 DEF CancelCommit, CancelRefused
  <2>3. QED
    BY <2>2, CancelFields, SameRows
<1>2. ASSUME \/ CancelFinalize(w) \/ CancelRelease(w)
             \/ \E o \in Orders, customer \in BOOLEAN : CancelClaim(w, o, customer)
      PROVE  RowsMove
  <2>1. \A p \in Orders : /\ db'[p].invoice = db[p].invoice
                          /\ db'[p].salesorder = db[p].salesorder
                          /\ db'[p].status = db[p].status
    <3>1. CASE CancelFinalize(w)
      BY <3>1 DEF CancelFinalize, TypeOK, DbOK, OrderRow
    <3>2. CASE CancelRelease(w)
      BY <3>2 DEF CancelRelease, TypeOK, DbOK, OrderRow
    <3>3. ASSUME NEW o \in Orders, NEW customer \in BOOLEAN, CancelClaim(w, o, customer)
          PROVE  \A p \in Orders : /\ db'[p].invoice = db[p].invoice
                                   /\ db'[p].salesorder = db[p].salesorder
                                   /\ db'[p].status = db[p].status
      BY <3>3 DEF CancelClaim, TypeOK, DbOK, OrderRow
    <3>4. QED
      BY <1>2, <3>1, <3>2, <3>3
  <2>2. QED
    BY <2>1, OtherFields
<1>3. QED
  BY <1>1, <1>2, SameRows
     DEF Cancel, CancelIssue, CancelIssueFails, CancelWithoutRefund

LEMMA StaffRows ==
  ASSUME TypeOK, NEW w \in Workers, Staff(w)
  PROVE  RowsMove
<1>t. w \in Threads
  BY DEF Threads
<1>1. CASE InvoiceCommit(w)
  <2>1. PICK o \in Orders : o = job[w].target
    BY <1>1, InvoiceFields
  <2>2. /\ ~db[o].invoice /\ db'[o].invoice
        /\ db'[o].status = db[o].status /\ db'[o].salesorder = db[o].salesorder
        /\ \A p \in Orders : p # o => db'[p] = db[p]
    BY <1>1, <2>1, InvoiceFields
  <2>3. QED
    BY <1>1, <2>1, <2>2 DEF RowsMove, RowMoves
<1>2. CASE ConfirmWrite(w) \/ RestageWrite(w)
  <2>1. ~Quiet
    BY <1>t, <1>2 DEF Quiet, StaleWrites, ConfirmWrite, RestageWrite, At
  <2>2. \A p \in Orders : /\ db'[p].invoice = db[p].invoice
                          /\ db'[p].salesorder = db[p].salesorder
    <3>1. CASE ConfirmWrite(w)
      BY <3>1 DEF ConfirmWrite, TypeOK, DbOK, OrderRow
    <3>2. CASE RestageWrite(w)
      BY <3>2 DEF RestageWrite, TypeOK, DbOK, OrderRow
    <3>3. QED
      BY <1>2, <3>1, <3>2
  <2>3. QED
    BY <2>1, <2>2 DEF RowsMove, RowMoves
<1>3. CASE EditWrite(w)
  <2>1. \A p \in Orders : /\ db'[p].invoice = db[p].invoice
                          /\ db'[p].salesorder = db[p].salesorder
                          /\ db'[p].status = db[p].status
    BY <1>3 DEF EditWrite, TypeOK, DbOK, OrderRow
  <2>2. QED
    BY <2>1, OtherFields
<1>4. QED
  BY <1>1, <1>2, <1>3, SameRows
     DEF Staff, InvoiceFails, InvoiceCheck, ConfirmRead, RestageRead, EditRead

LEMMA NextRows ==
  ASSUME TypeOK, [Next]_vars
  PROVE  RowsMove
<1>t. Workers \subseteq Threads
  BY DEF Threads
<1>1. ASSUME NEW t \in Threads, AdvanceSave(t)
      PROVE  RowsMove
  <2>1. \A p \in Orders : /\ db'[p].invoice = db[p].invoice
                          /\ db'[p].salesorder = db[p].salesorder
                          /\ db'[p].status = db[p].status
    BY <1>1 DEF AdvanceSave, TypeOK, DbOK, OrderRow
  <2>2. QED
    BY <2>1, OtherFields
<1>2. ASSUME NEW o \in Orders, Age(o) \/ RecordBooksPayment(o)
      PROVE  RowsMove
  <2>1. \A p \in Orders : /\ db'[p].invoice = db[p].invoice
                          /\ db'[p].salesorder = db[p].salesorder
                          /\ db'[p].status = db[p].status
    BY <1>2 DEF Age, RecordBooksPayment, TypeOK, DbOK, OrderRow
  <2>2. QED
    BY <2>1, OtherFields
<1>3. ASSUME NEW w \in Workers, SyncCommit(w)
      PROVE  RowsMove
  BY <1>3 DEF SyncCommit, RowsMove, RowMoves, TypeOK, DbOK, OrderRow
<1>4. ASSUME NEW t \in Threads, Advance(t)
      PROVE  RowsMove
  BY <1>1, <1>4, SameRows DEF Advance, AdvanceRead, AdvancePost, AdvanceFails
<1>5. QED
  BY <1>2, <1>3, <1>4, SameRows, PaymentRows, SweepRows, CancelRows, StaffRows
     DEF Next, vars, Crash, ProfileSave, SyncFails, SyncCheck, ProfileRead

Invoicing(t, o) == job[t].pc = "invoice" /\ job[t].target = o

Backed(o) == Taken(ledger[Owner[o]], o) # {}

\* An invoice in the making is of a paid order that has its sales order; an
\* order whose credit was taken back is cancelled for good, and only invoices of
\* its voided sales order may still be in the making.
Documented ==
  \A o \in Orders :
    /\ \A t \in Threads :
         Invoicing(t, o) => db[o].payment = "paid" /\ db[o].salesorder # "none"
    /\ db[o].applied > 0 => db[o].invoice
    /\ Backed(o) => /\ db[o].status = "cancelled"
                    /\ ~db[o].invoice
                    /\ \A t \in Threads : Invoicing(t, o) => db[o].salesorder = "void"

\* A worker that makes an invoice did so before, or has just checked the order.
LEMMA InvoicingMoves ==
  ASSUME TypeOK, [Next]_vars, NEW o \in Orders, NEW t \in Threads, Invoicing(t, o)'
  PROVE  \/ Invoicing(t, o)
         \/ /\ db[o].status # "cancelled" /\ db[o].salesorder # "none"
            /\ db[o].payment = "paid" /\ UNCHANGED <<db, ledger>>
<1>1. job'[t].pc = "invoice" /\ job'[t].target = o
  BY DEF Invoicing
<1>2. job'[t] = job[t] \/ InvoiceCheck(t, o)
  BY <1>1, NextHolds DEF Holds, Arrives
<1>3. QED
  BY <1>1, <1>2 DEF Invoicing, InvoiceCheck, walletVars

LEMMA PaidStays ==
  ASSUME TypeOK, Captured, [Next]_vars, NEW o \in Orders, db[o].payment = "paid"
  PROVE  db'[o].payment = "paid"
<1>1. ASSUME Credits
      PROVE  db'[o].payment = "paid"
  <2>1. PICK p \in Orders, amount \in Amounts, gw \in Charges \cup {None} :
             CreditPrepaid(p, amount, gw)
    BY <1>1 DEF Credits, Credited
  <2>2. QED
    BY <2>1, CreditFields
<1>2. ASSUME NEW w \in Workers, InvoiceCommit(w)
      PROVE  db'[o].payment = "paid"
  BY <1>2, InvoiceFields
<1>3. QED
  BY <1>1, <1>2, MoneyMoves DEF MoneyKept

LEMMA AppliedMoves ==
  ASSUME TypeOK, Captured, [Next]_vars, NEW o \in Orders
  PROVE  \/ db'[o].applied = db[o].applied
         \/ \E w \in Workers : InvoiceCommit(w) /\ job[w].target = o
<1>1. ASSUME Credits
      PROVE  db'[o].applied = db[o].applied
  <2>1. PICK p \in Orders, amount \in Amounts, gw \in Charges \cup {None} :
             CreditPrepaid(p, amount, gw)
    BY <1>1 DEF Credits, Credited
  <2>2. QED
    BY <2>1, CreditFields
<1>2. ASSUME NEW w \in Workers, InvoiceCommit(w)
      PROVE  db'[o].applied = db[o].applied \/ job[w].target = o
  BY <1>2, InvoiceFields
<1>3. QED
  BY <1>1, <1>2, MoneyMoves DEF MoneyKept

LEMMA DocumentedKept ==
  ASSUME TypeOK, Captured, Quiet, Documented, [Next]_vars
  PROVE  Documented'
<1> SUFFICES ASSUME NEW o \in Orders
             PROVE  /\ \A t \in Threads : Invoicing(t, o)' =>
                         db'[o].payment = "paid" /\ db'[o].salesorder # "none"
                    /\ db'[o].applied > 0 => db'[o].invoice
                    /\ Backed(o)' =>
                         /\ db'[o].status = "cancelled" /\ ~db'[o].invoice
                         /\ \A t \in Threads : Invoicing(t, o)' => db'[o].salesorder = "void"
  BY DEF Documented
<1>r. RowMoves(o)
  BY NextRows DEF RowsMove
<1>1. ASSUME NEW t \in Threads, Invoicing(t, o)'
      PROVE  /\ db[o].payment = "paid" /\ db[o].salesorder # "none"
             /\ db'[o].payment = "paid" /\ db'[o].salesorder # "none"
  <2>1. db[o].payment = "paid" /\ db[o].salesorder # "none"
    BY <1>1, InvoicingMoves DEF Documented
  <2>2. QED
    BY <1>r, <2>1, PaidStays DEF RowMoves
<1>2. db'[o].applied > 0 => db'[o].invoice
  BY <1>r, AppliedMoves, InvoiceFields DEF Documented, RowMoves
<1>3. CASE Backed(o)
  <2>1. /\ db[o].status = "cancelled" /\ ~db[o].invoice
        /\ \A t \in Threads : Invoicing(t, o) => db[o].salesorder = "void"
    BY <1>3 DEF Documented
  <2>2. ASSUME NEW w \in Workers, InvoiceCommit(w), job[w].target = o
        PROVE  FALSE
    <3>1. Invoicing(w, o) /\ db[o].salesorder = "open" /\ w \in Threads
      BY <2>2, InvoiceFields DEF Invoicing, Threads
    <3>2. QED
      BY <2>1, <3>1
  <2>3. db'[o].status = "cancelled" /\ ~db'[o].invoice
    BY <1>r, <2>1, <2>2 DEF RowMoves
  <2>4. ASSUME NEW t \in Threads, Invoicing(t, o)'
        PROVE  db'[o].salesorder = "void"
    BY <1>r, <2>1, <2>4, InvoicingMoves DEF RowMoves
  <2>5. QED
    BY <1>1, <1>2, <2>3, <2>4
<1>4. ASSUME ~Backed(o), Backed(o)'
      PROVE  /\ db'[o].status = "cancelled" /\ ~db'[o].invoice
             /\ \A t \in Threads : Invoicing(t, o)' => db'[o].salesorder = "void"
  <2>1. PICK w \in Takers(o) : CancelCommit(w)
    BY <1>4, TakenMoves DEF Backed
  <2>2. job[w].target = o /\ w \in Workers
    BY DEF Takers
  <2>3. PICK doc : doc = VoidIf(TRUE, o)
    OBVIOUS
  <2>4. /\ db[o].status # "cancelled" /\ ~db[o].invoice
        /\ db' = [db EXCEPT ![o].status = "cancelled", ![o].salesorder = doc]
    BY <2>1, <2>2, <2>3 DEF CancelCommit, CancelBlocked
  <2>5. db'[o].status = "cancelled" /\ ~db'[o].invoice /\ db'[o].salesorder = doc
    BY <2>4 DEF TypeOK, DbOK, OrderRow
  <2>6. ASSUME NEW t \in Threads, Invoicing(t, o)'
        PROVE  db'[o].salesorder = "void"
    <3>1. db[o].salesorder # "none" /\ db[o].salesorder \in {"none", "open", "void"}
      BY <1>1, <2>6 DEF TypeOK, DbOK, OrderRow
    <3>2. QED
      BY <2>3, <2>5, <3>1 DEF VoidIf
  <2>7. QED
    BY <2>5, <2>6
<1>5. QED
  BY <1>1, <1>2, <1>3, <1>4

LEMMA DocumentedAlways ==
  ASSUME Requests \cap StaleWrites = {}
  PROVE  Spec => []Documented
<1>1. Init => Documented
  <2> SUFFICES ASSUME Init, NEW o \in Orders
               PROVE  /\ db[o].applied = 0 /\ ~Backed(o)
                      /\ \A t \in Threads : ~Invoicing(t, o)
    BY DEF Documented
  <2>1. ledger[Owner[o]] = <<>>
    BY OwnerAssumption DEF Init, LedgerInit
  <2>2. ~Backed(o)
    BY <2>1 DEF Backed, Taken, RowsIn
  <2>3. QED
    BY <2>2 DEF Init, NewOrder, Invoicing, Idle
<1>2. TypeOK /\ Traced /\ Quiet /\ Documented /\ [Next]_vars => Documented'
  BY DocumentedKept DEF Traced
<1>3. QED
  BY <1>1, <1>2, TypeCorrect, TracedAlways, QuietAlways, PTL DEF Spec

(***************************************************************************)
(* The credit of a user against the sum of what it covers.                 *)
(***************************************************************************)
\* The orders of a user that D and L say took no credit yet.
Open(D, L, u) ==
  {o \in Orders : Owner[o] = u /\ D[o].applied = 0 /\ Taken(L[Owner[o]], o) = {}}

Paid(D) == [o \in Orders |-> D[o].prepaid]

Cover(D, L, u) == SumFunctionOnSet(Paid(D), Open(D, L, u))

LEMMA CoverIs ==
  /\ FundsCover <=> \A u \in Users : balance[u] >= Cover(db, ledger, u)
  /\ FundsCover' <=> \A u \in Users : balance'[u] >= Cover(db', ledger', u)
<1>1. \A u \in Users : Uncommitted(u) = Open(db, ledger, u)
  BY ReversalsAre DEF Uncommitted, Open
<1>2. FundsCover <=> \A u \in Users : balance[u] >= Cover(db, ledger, u)
  BY <1>1 DEF FundsCover, Cover, Paid
<1>3. \A u \in Users : Uncommitted(u)' = Open(db', ledger', u)
  BY DEF Uncommitted, Reversals, Rows, Open, Taken, RowsIn
<1>4. FundsCover' <=> \A u \in Users : balance'[u] >= Cover(db', ledger', u)
  BY <1>3 DEF FundsCover, Cover, Paid
<1>5. QED
  BY <1>2, <1>4

LEMMA OpenFinite ==
  ASSUME NEW D, NEW L, NEW u
  PROVE  IsFiniteSet(Open(D, L, u)) /\ Open(D, L, u) \subseteq Orders
<1>1. Open(D, L, u) \subseteq Orders
  BY DEF Open
<1>2. QED
  BY <1>1, OrdersAssumption, FS_Subset

\* What an order gives to the sum.
LEMMA CoverSplit ==
  ASSUME NEW D, NEW L, NEW u, \A o \in Orders : D[o].prepaid \in Nat,
         NEW o \in Open(D, L, u)
  PROVE  /\ Cover(D, L, u) = D[o].prepaid + SumFunctionOnSet(Paid(D), Open(D, L, u) \ {o})
         /\ SumFunctionOnSet(Paid(D), Open(D, L, u) \ {o}) \in Nat
<1> DEFINE S == Open(D, L, u)
           f == Paid(D)
<1>1. IsFiniteSet(S) /\ S \subseteq Orders /\ IsFiniteSet(S \ {o})
  BY OpenFinite, FS_Subset
<1>2. \A x \in S : f[x] \in Nat /\ f[x] = D[x].prepaid
  BY <1>1 DEF Paid
<1> HIDE DEF S, f
<1>3. SumFunctionOnSet(f, S) = f[o] + SumFunctionOnSet(f, S \ {o})
  <2>1. o \in S /\ \A x \in S : f[x] \in Int
    BY <1>2 DEF S
  <2>2. QED
    BY <1>1, <2>1, SumSplit
<1>4. SumFunctionOnSet(f, S \ {o}) \in Nat
  BY <1>1, <1>2, SumNotNegative
<1>5. QED
  BY <1>2, <1>3, <1>4 DEF Cover, S, f

LEMMA CoverTyped ==
  ASSUME NEW D, NEW L, NEW u, \A o \in Orders : D[o].prepaid \in Nat
  PROVE  Cover(D, L, u) \in Nat
<1>1. \A x \in Open(D, L, u) : Paid(D)[x] \in Nat
  BY OpenFinite DEF Paid
<1>2. QED
  BY <1>1, OpenFinite, SumNotNegative DEF Cover

\* What is left of the orders, with the amounts they had, is a smaller sum ...
LEMMA CoverPart ==
  ASSUME NEW D, NEW L, NEW E, NEW M, NEW u, NEW T, \A o \in Orders : D[o].prepaid \in Nat,
         Open(E, M, u) \subseteq T, T \subseteq Open(D, L, u),
         \A o \in Open(E, M, u) : E[o].prepaid = D[o].prepaid
  PROVE  Cover(E, M, u) <= SumFunctionOnSet(Paid(D), T)
<1> DEFINE S == Open(E, M, u)
           f == Paid(D)
           h == Paid(E)
<1>1. IsFiniteSet(S) /\ S \subseteq T /\ T \subseteq Orders /\ IsFiniteSet(T)
  BY OpenFinite, FS_Subset
<1>2. /\ \A o \in T : f[o] \in Nat
      /\ \A o \in S : f[o] = h[o]
  BY <1>1 DEF Paid
<1> HIDE DEF S, f, h
<1>3. SumFunctionOnSet(f, S) = SumFunctionOnSet(h, S)
  BY <1>1, <1>2, SumSame
<1>4. SumFunctionOnSet(f, S) <= SumFunctionOnSet(f, T)
  BY <1>1, <1>2, SumPart
<1>5. QED
  BY <1>3, <1>4 DEF Cover, S, f, h

\* ... and the payment of an order adds at most its amount.
LEMMA CoverPaid ==
  ASSUME NEW D, NEW L, NEW E, NEW M, NEW u, NEW p \in Orders,
         \A o \in Orders : D[o].prepaid \in Nat, \A o \in Orders : E[o].prepaid \in Nat,
         Open(E, M, u) \subseteq Open(D, L, u),
         \A o \in Orders : o # p => E[o].prepaid = D[o].prepaid
  PROVE  /\ Cover(E, M, u) <= Cover(D, L, u) + E[p].prepaid
         /\ Owner[p] # u => Cover(E, M, u) <= Cover(D, L, u)
<1> DEFINE S == Open(E, M, u)
           f == Paid(D)
           h == Paid(E)
<1>1. /\ IsFiniteSet(S) /\ S \subseteq Orders
      /\ Cover(D, L, u) \in Nat /\ Cover(E, M, u) \in Nat
      /\ E[p].prepaid \in Nat
  BY OpenFinite, CoverTyped
<1>2. ASSUME p \notin S
      PROVE  Cover(E, M, u) <= Cover(D, L, u)
  <2>1. \A o \in S : E[o].prepaid = D[o].prepaid
    BY <1>1, <1>2
  <2>2. Cover(E, M, u) <= SumFunctionOnSet(Paid(D), Open(D, L, u))
    BY <2>1, CoverPart
  <2>3. QED
    BY <2>2 DEF Cover
<1>3. ASSUME p \in S
      PROVE  Cover(E, M, u) <= Cover(D, L, u) + E[p].prepaid
  <2>1. /\ Cover(E, M, u) = E[p].prepaid + SumFunctionOnSet(h, S \ {p})
        /\ SumFunctionOnSet(h, S \ {p}) \in Nat
    BY <1>3, CoverSplit
  <2>2. /\ IsFiniteSet(S \ {p})
        /\ \A o \in S \ {p} : f[o] = h[o]
    BY <1>1, FS_Subset DEF Paid
  <2>3. /\ IsFiniteSet(Open(D, L, u)) /\ S \ {p} \subseteq Open(D, L, u)
        /\ \A o \in Open(D, L, u) : f[o] \in Nat
    BY OpenFinite DEF Paid
  <2>4. SumFunctionOnSet(h, S \ {p}) <= SumFunctionOnSet(f, Open(D, L, u))
    <3> HIDE DEF S, f, h
    <3>1. SumFunctionOnSet(f, S \ {p}) = SumFunctionOnSet(h, S \ {p})
      BY <2>2, SumSame
    <3>2. SumFunctionOnSet(f, S \ {p}) <= SumFunctionOnSet(f, Open(D, L, u))
      BY <2>3, SumPart
    <3>3. QED
      BY <3>1, <3>2
  <2>5. Cover(D, L, u) = SumFunctionOnSet(f, Open(D, L, u))
    BY DEF Cover
  <2> HIDE DEF S, f, h
  <2>6. QED
    BY <1>1, <2>1, <2>4, <2>5
<1>4. Owner[p] # u => p \notin S
  BY DEF Open
<1>5. QED
  BY <1>1, <1>2, <1>3, <1>4

LEMMA PostBalance ==
  ASSUME TypeOK, NEW o \in Orders, NEW kind, NEW amount \in Int,
         PostEntry(Owner[o], o, kind, amount), NEW u \in Users
  PROVE  balance'[u] = balance[u] + (IF u = Owner[o] THEN amount ELSE 0)
<1>1. Owner[o] \in Users /\ balance[u] \in Nat
  BY RowTyped DEF TypeOK, WalletOK
<1>2. QED
  BY <1>1 DEF PostEntry, TypeOK, WalletOK

LEMMA AmountsTyped ==
  ASSUME TypeOK, [Next]_vars
  PROVE  /\ \A o \in Orders : db[o].prepaid \in Nat
         /\ \A o \in Orders : db'[o].prepaid \in Nat
         /\ \A u \in Users : balance[u] \in Nat /\ balance'[u] \in Nat
<1>1. TypeOK'
  BY NextTyped
<1>2. QED
  BY <1>1 DEF TypeOK, DbOK, WalletOK, OrderRow

\* An order that an invoice takes credit for is open, so the balance covers it.
LEMMA InvoiceCovered ==
  ASSUME TypeOK, Traced, Documented, FundsCover, NEW w \in Workers, InvoiceCommit(w),
         NEW p \in Orders, p = job[w].target
  PROVE  /\ p \in Open(db, ledger, Owner[p])
         /\ db[p].payment = "paid" /\ db[p].applied = 0
         /\ CreditForInvoice(p) \in Nat \ {0} /\ CreditForInvoice(p) <= db[p].prepaid
         /\ \A u \in Users : balance'[u] =
              balance[u] + (IF u = Owner[p] THEN - CreditForInvoice(p) ELSE 0)
<1>1. /\ Invoicing(w, p) /\ w \in Threads /\ ~db[p].invoice
      /\ db[p].salesorder = "open"
  BY InvoiceFields DEF Invoicing, Threads
<1>2. db[p].payment = "paid" /\ db[p].applied = 0 /\ ~Backed(p)
  BY <1>1, RowTyped DEF Documented
<1>3. p \in Open(db, ledger, Owner[p])
  BY <1>2 DEF Open, Backed
<1>4. balance[Owner[p]] >= Cover(db, ledger, Owner[p])
  BY CoverIs, RowTyped
<1>5. \A o \in Orders : db[o].prepaid \in Nat
  BY RowTyped
<1>6. db[p].prepaid > 0
  BY <1>2 DEF Traced, Recorded
<1>7. balance[Owner[p]] >= db[p].prepaid
  <2>1. /\ Cover(db, ledger, Owner[p]) =
             db[p].prepaid + SumFunctionOnSet(Paid(db), Open(db, ledger, Owner[p]) \ {p})
        /\ SumFunctionOnSet(Paid(db), Open(db, ledger, Owner[p]) \ {p}) \in Nat
    BY <1>3, <1>5, CoverSplit
  <2>2. balance[Owner[p]] \in Nat /\ db[p].prepaid \in Nat
    BY RowTyped
  <2>3. QED
    BY <1>4, <2>1, <2>2
<1>8. /\ CreditForInvoice(p) \in Nat \ {0} /\ CreditForInvoice(p) <= db[p].prepaid
  BY <1>2, <1>6, <1>7, RowTyped DEF CreditForInvoice, Smaller
<1>9. PICK amount \in Int : amount = - CreditForInvoice(p)
  BY <1>8
<1>10. PostEntry(Owner[p], p, "invoice_application", amount)
  BY <1>8, <1>9 DEF InvoiceCommit
<1>11. QED
  BY <1>2, <1>3, <1>8, <1>9, <1>10, PostBalance

\* The orders that are open after a step were open before.
LEMMA OpenShrinks ==
  ASSUME TypeOK, Traced, [Next]_vars, NEW u \in Users
  PROVE  Open(db', ledger', u) \subseteq Open(db, ledger, u)
<1> SUFFICES ASSUME NEW o \in Orders, Owner[o] = u, db'[o].applied = 0,
                    Taken(ledger'[Owner[o]], o) = {}
             PROVE  db[o].applied = 0 /\ Taken(ledger[Owner[o]], o) = {}
  BY DEF Open
<1>1. Taken(ledger[Owner[o]], o) = {}
  BY TakenMoves DEF Traced
<1>2. ASSUME NEW w \in Workers, InvoiceCommit(w), job[w].target = o
      PROVE  db[o].applied = 0
  BY <1>2, InvoiceFields, RowTyped
<1>3. QED
  BY <1>1, <1>2, AppliedMoves DEF Traced

LEMMA FundsKept ==
  ASSUME TypeOK, Traced, TakenTrail, Quiet, Documented, FundsCover, [Next]_vars
  PROVE  FundsCover'
<1> SUFFICES ASSUME NEW u \in Users PROVE balance'[u] >= Cover(db', ledger', u)
  BY CoverIs
<1> DEFINE C == Cover(db, ledger, u)
           N == Cover(db', ledger', u)
<1>t. /\ \A o \in Orders : db[o].prepaid \in Nat
      /\ \A o \in Orders : db'[o].prepaid \in Nat
      /\ balance[u] \in Nat /\ balance'[u] \in Nat
  BY AmountsTyped
<1>c. C \in Nat /\ N \in Nat /\ balance[u] >= C
  BY <1>t, CoverTyped, CoverIs
<1>o. Open(db', ledger', u) \subseteq Open(db, ledger, u)
  BY OpenShrinks
<1>p. ASSUME \A o \in Orders : db'[o].prepaid = db[o].prepaid,
             NEW T, Open(db', ledger', u) \subseteq T, T \subseteq Open(db, ledger, u)
      PROVE  N <= SumFunctionOnSet(Paid(db), T)
  <2>1. \A o \in Open(db', ledger', u) : db'[o].prepaid = db[o].prepaid
    BY <1>p DEF Open
  <2>2. QED
    BY <1>p, <1>t, <2>1, CoverPart
<1>q. ASSUME \A o \in Orders : db'[o].prepaid = db[o].prepaid
      PROVE  N <= C
  BY <1>o, <1>p, <1>q DEF Cover
<1>r. ASSUME \A o \in Orders : db'[o].prepaid = db[o].prepaid,
             NEW p \in Orders, p \in Open(db, ledger, u),
             p \notin Open(db', ledger', u)
      PROVE  N <= C - db[p].prepaid
  <2> DEFINE T == Open(db, ledger, u) \ {p}
  <2>1. N <= SumFunctionOnSet(Paid(db), T)
    BY <1>o, <1>p, <1>r
  <2>2. C = db[p].prepaid + SumFunctionOnSet(Paid(db), T) /\ SumFunctionOnSet(Paid(db), T) \in Nat
    BY <1>r, <1>t, CoverSplit
  <2>3. db[p].prepaid \in Nat
    BY <1>t
  <2> HIDE DEF T, C, N
  <2>4. QED
    BY <1>c, <2>1, <2>2, <2>3
<1> HIDE DEF C, N
<1>1. CASE MoneyKept /\ WalletKept
  <2>1. \A w \in Workers : ~ProfileSave(w)
    BY DEF Quiet, StaleWrites, ProfileSave, At, Threads
  <2>2. balance'[u] = balance[u]
    BY <1>1, <2>1 DEF WalletKept, walletVars
  <2>3. QED
    BY <1>1, <1>c, <1>q, <1>t, <2>2 DEF MoneyKept, N
<1>2. CASE Credits
  <2>1. PICK p \in Orders, amount \in Amounts, gw \in Charges \cup {None} :
             CreditPrepaid(p, amount, gw) /\ amount \in Amounts
    BY <1>2 DEF Credits, Credited
  <2>2. amount \in Int
    BY <2>1, AmountsAssumption
  <2>3. PICK kind : kind = PaymentKind(p)
    OBVIOUS
  <2>4. balance'[u] = balance[u] + (IF u = Owner[p] THEN amount ELSE 0)
    BY <2>1, <2>2, <2>3, PostBalance DEF CreditPrepaid
  <2>5. db'[p].prepaid = amount /\ \A o \in Orders : o # p => db'[o].prepaid = db[o].prepaid
    BY <2>1, CreditFields
  <2>6. /\ N <= C + db'[p].prepaid
        /\ Owner[p] # u => N <= C
    BY <1>o, <1>t, <2>5, CoverPaid DEF C, N
  <2>7. QED
    BY <1>c, <1>t, <2>2, <2>4, <2>5, <2>6 DEF N
<1>3. ASSUME NEW w \in Workers, InvoiceCommit(w)
      PROVE  balance'[u] >= N
  <2>1. PICK p \in Orders : p = job[w].target
    BY <1>3, InvoiceFields
  <2>2. PICK credit \in Nat \ {0} : credit = CreditForInvoice(p)
    BY <1>3, <2>1, InvoiceCovered
  <2>3. /\ p \in Open(db, ledger, Owner[p]) /\ credit <= db[p].prepaid
        /\ balance'[u] = balance[u] + (IF u = Owner[p] THEN - credit ELSE 0)
        /\ db[p].applied = 0
    BY <1>3, <2>1, <2>2, InvoiceCovered
  <2>4. /\ db'[p].applied = credit
        /\ \A o \in Orders : db'[o].prepaid = db[o].prepaid
    BY <1>3, <2>1, <2>2, <2>3, InvoiceFields
  <2>5. p \notin Open(db', ledger', u)
    BY <2>2, <2>4 DEF Open
  <2>6. CASE u = Owner[p]
    <3>1. N <= C - db[p].prepaid
      BY <1>r, <2>3, <2>4, <2>5, <2>6
    <3>2. db[p].prepaid \in Nat
      BY <1>t
    <3>3. QED
      BY <1>c, <1>t, <2>3, <2>6, <3>1, <3>2
  <2>7. CASE u # Owner[p]
    BY <1>c, <1>q, <1>t, <2>3, <2>4, <2>7
  <2>8. QED
    BY <2>6, <2>7
<1>4. ASSUME NEW w \in Workers, CancelCommit(w), MoneyKept
      PROVE  balance'[u] >= N
  <2>1. PICK p \in Orders : p = job[w].target
    BY <1>4, TargetTyped DEF CancelCommit, At, Threads, TypeOK
  <2>2. PICK back : back = ReversedCredit(p, job[w].amount)
    OBVIOUS
  <2>3. PICK kind : kind = "order_cancel"
    OBVIOUS
  <2>4. N <= C
    BY <1>4, <1>q DEF MoneyKept
  <2>5. \/ UNCHANGED walletVars
        \/ PostEntry(Owner[p], p, kind, 0)
        \/ job[w].amount > 0 /\ back > 0 /\ PostEntry(Owner[p], p, kind, - back)
    BY <1>4, <2>1, <2>2, <2>3 DEF CancelCommit, SettleCredit
  <2>6. CASE UNCHANGED walletVars
    BY <1>c, <1>t, <2>4, <2>6 DEF walletVars
  <2>7. CASE PostEntry(Owner[p], p, kind, 0)
    <3>1. PICK amount \in Int : amount = 0
      OBVIOUS
    <3>2. PostEntry(Owner[p], p, kind, amount)
      BY <2>7, <3>1
    <3>3. balance'[u] = balance[u] + (IF u = Owner[p] THEN amount ELSE 0)
      BY <3>2, PostBalance
    <3>4. QED
      BY <1>c, <1>t, <2>4, <3>1, <3>3
  <2>8. CASE job[w].amount > 0 /\ back > 0 /\ PostEntry(Owner[p], p, kind, - back)
    <3>1. back \in Nat /\ back <= db[p].prepaid
      <4>1. db[p].prepaid \in Nat /\ balance[Owner[p]] \in Nat /\ job[w].amount \in Nat
        BY RowTyped DEF TypeOK, JobsOK, JobState, Threads
      <4>2. QED
        BY <2>2, <4>1 DEF ReversedCredit, Smaller
    <3>2. PICK amount \in Int : amount = - back
      BY <3>1
    <3>3. PostEntry(Owner[p], p, kind, amount) /\ amount < 0
      BY <2>8, <3>1, <3>2
    <3>4. balance'[u] = balance[u] + (IF u = Owner[p] THEN amount ELSE 0)
      BY <3>3, PostBalance
    <3>5. w \in Takers(p)
      BY <1>4, <2>1, <2>8 DEF Takers, CancelCommit, At
    <3>6. Taken(ledger[Owner[p]], p) = {}
      BY <3>5 DEF TakenTrail
    <3>7. db[p].applied = 0
      <4>1. ~db[p].invoice
        BY <1>4, <2>1 DEF CancelCommit, CancelBlocked
      <4>2. QED
        BY <4>1, RowTyped DEF Documented
    <3>8. p \in Open(db, ledger, Owner[p])
      BY <3>6, <3>7 DEF Open
    <3>9. Taken(ledger'[Owner[p]], p) # {}
      <4> DEFINE L == ledger[Owner[p]]
                 M == ledger'[Owner[p]]
                 Back == {"order_cancel"}
      <4>1. kind \in Back
        BY <2>3
      <4> HIDE DEF Back
      <4>2. Gains(L, M, p, Back, amount)
        BY <3>3, <4>1, PostRows
      <4>3. Len(L) + 1 \in RowsIn(M, p, Back) /\ M[Len(L) + 1].amount = amount
        BY <4>2 DEF Gains
      <4> HIDE DEF L, M
      <4>4. Len(L) + 1 \in Taken(M, p)
        BY <3>3, <4>3 DEF Taken, Back
      <4>5. QED
        BY <4>4 DEF M
    <3>10. p \notin Open(db', ledger', Owner[p])
      BY <3>9 DEF Open
    <3>11. CASE u = Owner[p]
      <4>1. N <= C - db[p].prepaid
        BY <1>4, <1>r, <3>8, <3>10, <3>11 DEF MoneyKept
      <4>2. db[p].prepaid \in Nat
        BY <1>t
      <4>3. QED
        BY <1>c, <1>t, <3>1, <3>2, <3>4, <3>11, <4>1, <4>2
    <3>12. CASE u # Owner[p]
      BY <1>c, <1>t, <2>4, <3>4, <3>12
    <3>13. QED
      BY <3>11, <3>12
  <2>9. QED
    BY <2>5, <2>6, <2>7, <2>8
<1>5. QED
  BY <1>1, <1>2, <1>3, <1>4, MoneyMoves DEF N, Traced

\* For every number of customers, orders and requests, as long as no order is
\* saved from a stale status and no profile is saved whole: the credit of a
\* customer covers what was paid for each order that took none yet, so no
\* invoice and no cancellation spends the money of another order.
THEOREM FundsAreCovered ==
  ASSUME Requests \cap StaleWrites = {}
  PROVE  Spec => []FundsCover
<1>1. Init => FundsCover
  <2> SUFFICES ASSUME Init, NEW u \in Users
               PROVE  balance[u] >= Cover(db, ledger, u)
    BY CoverIs
  <2>1. balance[u] = 0 /\ \A o \in Orders : db[o].prepaid = 0
    BY DEF Init, LedgerInit, NewOrder
  <2> DEFINE S == Open(db, ledger, u)
             f == Paid(db)
  <2>2. IsFiniteSet(S) /\ S \subseteq Orders
    BY OpenFinite
  <2>3. \A x \in S : f[x] = 0
    BY <2>1, <2>2 DEF Paid
  <2> HIDE DEF S, f
  <2>4. SumFunctionOnSet(f, S) = 0
    BY <2>2, <2>3, SumOfZeros
  <2>5. QED
    BY <2>1, <2>4 DEF Cover, S, f
<1>2. /\ TypeOK /\ Traced /\ TakenTrail /\ Quiet /\ Documented
      /\ FundsCover /\ [Next]_vars
      => FundsCover'
  BY FundsKept
<1>3. QED
  BY <1>1, <1>2, TypeCorrect, TracedAlways, TakenTrailAlways, QuietAlways,
     DocumentedAlways, PTL DEF Spec

LEMMA SettledKept ==
  ASSUME TypeOK, Traced, Documented, FundsCover, InvoiceSettled, [Next]_vars
  PROVE  InvoiceSettled'
<1> SUFFICES ASSUME NEW o \in Orders, db'[o].invoice
             PROVE  /\ db'[o].payment = "paid"
                    /\ db'[o].applied > 0 /\ db'[o].applied <= db'[o].prepaid
  BY DEF InvoiceSettled
<1>1. CASE db[o].invoice
  <2>1. db[o].payment = "paid" /\ db[o].applied > 0 /\ db[o].applied <= db[o].prepaid
    BY <1>1 DEF InvoiceSettled
  <2>2. db'[o].payment = "paid"
    BY <2>1, PaidStays DEF Traced
  <2>3. db'[o].applied = db[o].applied
    BY <1>1, AppliedMoves, InvoiceFields DEF Traced
  <2>4. db'[o].prepaid = db[o].prepaid
    <3>1. ASSUME NEW p \in Orders, NEW amount, NEW gw, CreditPrepaid(p, amount, gw)
          PROVE  db'[o].prepaid = db[o].prepaid
      BY <2>1, <3>1, CreditFields
    <3>2. ASSUME NEW w \in Workers, InvoiceCommit(w)
          PROVE  db'[o].prepaid = db[o].prepaid
      BY <3>2, InvoiceFields
    <3>3. QED
      BY <3>1, <3>2, MoneyMoves DEF MoneyKept, Credits, Credited, Traced
  <2>5. QED
    BY <2>1, <2>2, <2>3, <2>4
<1>2. CASE ~db[o].invoice
  <2>1. PICK w \in Workers : InvoiceCommit(w) /\ job[w].target = o
    BY <1>2, NextRows DEF RowsMove, RowMoves
  <2>2. /\ db[o].payment = "paid" /\ db[o].applied = 0
        /\ CreditForInvoice(o) \in Nat \ {0} /\ CreditForInvoice(o) <= db[o].prepaid
    BY <2>1, InvoiceCovered
  <2>3. /\ db'[o].applied = db[o].applied + CreditForInvoice(o)
        /\ db'[o].payment = db[o].payment /\ db'[o].prepaid = db[o].prepaid
    BY <2>1, InvoiceFields
  <2>4. QED
    BY <2>2, <2>3
<1>3. QED
  BY <1>1, <1>2

\* In the same systems, an invoice is made only of a paid order, and settled
\* from the credit of the customer with some of what was paid for that order.
THEOREM InvoicesAreSettled ==
  ASSUME Requests \cap StaleWrites = {}
  PROVE  Spec => []InvoiceSettled
<1>1. Init => InvoiceSettled
  BY DEF Init, NewOrder, InvoiceSettled
<1>2. /\ TypeOK /\ Traced /\ Documented /\ FundsCover
      /\ InvoiceSettled /\ [Next]_vars
      => InvoiceSettled'
  BY SettledKept
<1>3. QED
  BY <1>1, <1>2, TypeCorrect, TracedAlways, DocumentedAlways, FundsAreCovered, PTL
     DEF Spec

(***************************************************************************)
(* The audit trail of the wallet explains the balance of every user, as    *)
(* long as no user row is saved whole.                                     *)
(***************************************************************************)

\* The audit rows L explain the balance b.
After(L, i) == IF i = 0 THEN 0 ELSE L[i].balance_after

Explains(L, b) ==
  /\ \A i \in 1..Len(L) : After(L, i) = After(L, i - 1) + L[i].amount
  /\ b = After(L, Len(L))

LEMMA ExplainsAll ==
  LedgerExplainsBalance <=> \A u \in Users : Explains(ledger[u], balance[u])
  BY DEF LedgerExplainsBalance, BalanceAfter, Explains, After

\* A row whose balance_after is the balance plus its amount explains the sum.
LEMMA AppendExplains ==
  ASSUME NEW S, NEW L \in Seq(S), NEW b \in Int, NEW e \in S, Explains(L, b),
         e.amount \in Int, e.balance_after = b + e.amount
  PROVE  Explains(Append(L, e), b + e.amount)
<1> DEFINE n == Len(L)
           M == Append(L, e)
<1>1. /\ n \in Nat /\ Len(M) = n + 1 /\ M[n + 1] = e
      /\ \A i \in 1..n : M[i] = L[i]
  OBVIOUS
<1> HIDE DEF M
<1>2. \A i \in 0..n : After(M, i) = After(L, i)
  BY <1>1 DEF After
<1>3. After(M, n + 1) = b + e.amount
  BY <1>1 DEF After
<1>4. After(M, n) = b
  BY <1>1, <1>2 DEF Explains
<1>5. ASSUME NEW i \in 1..(n + 1)
      PROVE  After(M, i) = After(M, i - 1) + M[i].amount
  <2>1. CASE i = n + 1
    <3>1. i - 1 = n
      BY <1>1, <2>1
    <3>2. QED
      BY <1>1, <1>3, <1>4, <2>1, <3>1
  <2>2. CASE i \in 1..n
    <3>1. i - 1 \in 0..n /\ i \in 0..n
      BY <1>1, <2>2
    <3>2. After(L, i) = After(L, i - 1) + L[i].amount
      BY <2>2 DEF Explains
    <3>3. QED
      BY <1>1, <1>2, <2>2, <3>1, <3>2
  <2>3. QED
    BY <1>1, <2>1, <2>2
<1>6. QED
  BY <1>1, <1>3, <1>5 DEF Explains, M

\* Posting an entry keeps the audit trail in step with the balance.
LEMMA PostExplains ==
  ASSUME WalletOK, LedgerExplainsBalance, NEW u \in Users, NEW o \in Orders,
         NEW kind \in EntryKinds, NEW amount \in Int, PostEntry(u, o, kind, amount)
  PROVE  LedgerExplainsBalance'
<1> DEFINE e == Entry(o, kind, amount, balance[u] + amount)
<1>b. balance[u] \in Nat /\ balance[u] + amount \in Int
  BY DEF WalletOK
<1>e. e \in LedgerRow(Orders)
  BY <1>b DEF Entry, LedgerRow
<1>1. /\ balance[u] \in Int /\ ledger[u] \in Seq(LedgerRow(Orders))
      /\ e \in LedgerRow(Orders)
  BY <1>b, <1>e DEF WalletOK
<1>2. /\ \A v \in Users : v # u => ledger'[v] = ledger[v] /\ balance'[v] = balance[v]
      /\ ledger'[u] = Append(ledger[u], e)
      /\ balance'[u] = balance[u] + amount
  BY DEF PostEntry, WalletOK
<1>3. e.amount = amount /\ e.balance_after = balance[u] + amount
  BY DEF Entry
<1> HIDE DEF e
<1>4. Explains(ledger[u], balance[u])
  BY ExplainsAll
<1>5. Explains(ledger'[u], balance'[u])
  BY <1>1, <1>2, <1>3, <1>4, AppendExplains
<1>6. \A v \in Users : Explains(ledger'[v], balance'[v])
  BY <1>2, <1>5, ExplainsAll
<1>7. QED
  BY <1>6 DEF LedgerExplainsBalance, BalanceAfter, Explains, After

\* A step that posts at most one entry and starts no profile save.
Posts ==
  \/ UNCHANGED walletVars
  \/ \E u \in Users, o \in Orders, kind \in EntryKinds, amount \in Int :
       PostEntry(u, o, kind, amount)

NoProfile == \A t \in Threads : job[t].pc # "profile"

LEMMA PostsExplained ==
  ASSUME WalletOK, LedgerExplainsBalance, Posts
  PROVE  LedgerExplainsBalance'
<1>1. CASE UNCHANGED walletVars
  BY <1>1 DEF walletVars, LedgerExplainsBalance, BalanceAfter
<1>2. QED
  BY <1>1, PostExplains DEF Posts

(***************************************************************************)
(* Every step posts at most one entry, and without the profile endpoint no *)
(* thread ever holds a user row.                                           *)
(***************************************************************************)
LEMMA CreditPosts ==
  ASSUME TypeOK, NEW o \in Orders, NEW amount \in Nat, NEW gw,
         CreditPrepaid(o, amount, gw)
  PROVE  Posts
<1>1. PaymentKind(o) \in EntryKinds
  BY SMTT(60) DEF PaymentKind, EntryKinds
<1>2. QED
  BY <1>1, RowTyped DEF CreditPrepaid, Posts

LEMMA PaymentPosts == TypeOK /\ Payment => Posts
<1> SUFFICES ASSUME TypeOK, Payment PROVE Posts
  OBVIOUS
<1>1. ASSUME NEW o \in Orders, NEW gw, RecordPaymentSuccess(o, gw)
      PROVE  Posts
  BY <1>1, CreditPosts, RowTyped DEF RecordPaymentSuccess
<1>2. ASSUME NEW w \in Workers, ReconcileWrite(w)
      PROVE  Posts
  <2> DEFINE o == job[w].target
             c == job[w].charge
  <2>1. o \in Orders /\ c \in Charges
    BY <1>2, TargetTyped DEF ReconcileWrite, At, TypeOK, JobsOK, JobOK, Threads
  <2>2. CreditPrepaid(o, charges[c].amount, c) \/ UNCHANGED walletVars
    BY <1>2 DEF ReconcileWrite
  <2>3. QED
    BY <2>1, <2>2, CreditPosts, ChargeTyped DEF Posts
<1>3. ASSUME NEW w \in Workers, NEW c \in Charges, Callback(w, c)
      PROVE  Posts
  BY <1>3, CreditPosts, ChargeTyped DEF Callback
<1>4. QED
  BY <1>1, <1>2, <1>3
     DEF Payment, Posts, CustomerPays, InitiateSession, InitiateLink, InitiateEnds,
         InitiateRead, ReconcileRead

LEMMA SweepPosts == TypeOK /\ Sweep => Posts
<1> SUFFICES ASSUME TypeOK, Sweep PROVE Posts
  OBVIOUS
<1>1. ASSUME NEW s \in sweep, SweepReconcile(s)
      PROVE  Posts
  <2>1. PICK c \in PaidCharges(s.ref) :
               CreditPrepaid(s.order, charges[c].amount, c) \/ UNCHANGED walletVars
    BY <1>1 DEF SweepReconcile
  <2>2. s.order \in Orders /\ c \in Charges
    BY SMTT(60) DEF TypeOK, Snapshot, PaidCharges
  <2>3. QED
    BY <2>1, <2>2, CreditPosts, ChargeTyped DEF Posts
<1>2. QED
  BY <1>1 DEF Sweep, Posts, SweepStart, SweepCancel, SweeperCrash,
              SweepFindsNothing, SweepFetchFails, SweepUndecided

LEMMA WorkerPosts ==
  ASSUME TypeOK, NEW w \in Workers, Cancel(w) \/ Staff(w)
  PROVE  Posts
<1> DEFINE o == job[w].target
<1>1. CASE CancelCommit(w)
  <2>1. o \in Orders /\ job[w].amount \in Nat
    BY <1>1, TargetTyped DEF CancelCommit, At, TypeOK, JobsOK, JobState, Threads
  <2>2. - ReversedCredit(o, job[w].amount) \in Int
    BY <2>1, RowTyped DEF ReversedCredit, Smaller
  <2>3. QED
    BY <1>1, <2>1, <2>2, RowTyped DEF CancelCommit, SettleCredit, Posts, EntryKinds
<1>2. CASE InvoiceCommit(w)
  <2>1. o \in Orders
    BY <1>2, TargetTyped DEF InvoiceCommit, At, TypeOK, Threads
  <2>2. - CreditForInvoice(o) \in Int
    BY <2>1, RowTyped DEF CreditForInvoice, Smaller
  <2>3. QED
    BY <1>2, <2>1, <2>2, RowTyped DEF InvoiceCommit, Posts, EntryKinds
<1>3. QED
  BY <1>1, <1>2
     DEF Cancel, Staff, Posts, CancelClaim, CancelWithoutRefund, CancelIssue,
         CancelIssueFails, CancelFinalize, CancelRelease, CancelRefused,
         InvoiceFails, ConfirmWrite, RestageWrite, EditWrite, InvoiceCheck,
         ConfirmRead, RestageRead, EditRead

LEMMA NextPosts == TypeOK /\ NoProfile /\ [Next]_vars => Posts
<1> SUFFICES ASSUME TypeOK, NoProfile, [Next]_vars PROVE Posts
  OBVIOUS
<1>1. ASSUME NEW w \in Workers, ProfileSave(w)
      PROVE  FALSE
  BY <1>1 DEF ProfileSave, At, NoProfile, Threads
<1>2. QED
  BY <1>1, PaymentPosts, SweepPosts, WorkerPosts
     DEF Next, vars, walletVars, Posts, Age, RecordBooksPayment, Advance, AdvanceRead,
         AdvancePost, AdvanceFails, AdvanceSave, Crash, SyncCommit, SyncFails,
         SyncCheck, ProfileRead

LEMMA NoProfileKept ==
  ASSUME "profile" \notin Requests, TypeOK, NoProfile, [Next]_vars
  PROVE  NoProfile'
<1> SUFFICES ASSUME NEW t \in Threads
             PROVE  job'[t].pc # "profile"
  BY DEF NoProfile
<1>1. job'[t] = job[t] \/ Arrives(t)
  BY NextHolds DEF Holds
<1>2. QED
  BY <1>1 DEF Arrives, NoProfile

\* Whatever payments, invoices, cancellations and staff do, in any order and
\* number: unless a user row is saved whole, the ledger of a user starts at
\* nothing, each row continues the one before, and the last is the balance.
THEOREM WalletExplained ==
  "profile" \notin Requests => (Spec => []LedgerExplainsBalance)
<1> SUFFICES ASSUME "profile" \notin Requests
             PROVE  Spec => []LedgerExplainsBalance
  OBVIOUS
<1>1. Init => LedgerExplainsBalance /\ NoProfile
  BY DEF Init, LedgerInit, LedgerExplainsBalance, BalanceAfter, NoProfile, Idle
<1>2. /\ TypeOK /\ LedgerExplainsBalance /\ NoProfile /\ [Next]_vars
      => LedgerExplainsBalance' /\ NoProfile'
  BY NextPosts, NoProfileKept, PostsExplained DEF TypeOK
<1>3. QED
  BY <1>1, <1>2, TypeCorrect, PTL DEF Spec
=============================================================================
