---------------------------- MODULE Returns_proofs ----------------------------
(***************************************************************************)
(* Returns, for every set of orders, returns and threads: nothing happens  *)
(* to a return before its approval, a completed return is paid, the claim  *)
(* implements RefundClaim, rows and requests are typed and, as long as no  *)
(* answer is lost, there is one document and one card refund for a return. *)
(***************************************************************************)
EXTENDS Returns, Sums, TLAPS

\* The steps of a request that carries a refund.
MoneySteps == RefundSteps \cup {"refund_claim", "refund_complete", "credit"}

Approved(r) == ret[r].status \notin {"absent", "pending_zoho"}

\* What is known of a request from its step alone.  (What bounds its amount is
\* added further down, by Bounded.)
JobTyped(j) ==
  /\ j = Serve(j.pc, j.target, j.amount)
  /\ j.pc \in Steps
  /\ j.pc = "create" => j.target \in Orders /\ j.amount \in 1..Ordered
  /\ j.pc \in ReturnSteps => j.target \in Returns
  /\ j.pc \in MoneySteps => j.amount \in 1..Ordered
  /\ j.pc \in CancelSteps \cup {"cancel_commit"} => j.target \in Orders

JobsTyped ==
  /\ job = [w \in Workers |-> job[w]]
  /\ \A w \in Workers : JobTyped(job[w])

RowsTyped ==
  /\ ret \in [Returns -> ReturnRow]
  /\ back = [x \in Returns \cup Orders |-> back[x]]
  /\ \A r \in Returns : back[r] \in Nat
  /\ credited \in [Returns -> Nat]
  /\ documents \in [Returns -> Nat]

Typed == JobsTyped /\ RowsTyped

(***************************************************************************)
(* Steps of a thread.                                                      *)
(***************************************************************************)
LEMMA StartTyped ==
  ASSUME JobsTyped, NEW w \in Workers, NEW j, JobTyped(j),
         job' = [job EXCEPT ![w] = j]
  PROVE  /\ JobsTyped'
         /\ job'[w] = j
         /\ \A v \in Workers : v # w => job'[v] = job[v]
  BY DEF JobsTyped, JobTyped

LEMMA FinishTyped ==
  ASSUME JobsTyped, NEW w \in Workers, Finish(w)
  PROVE  /\ JobsTyped' /\ job'[w] = Idle
         /\ \A v \in Workers : v # w => job'[v] = job[v]
<1>1. JobTyped(Idle)
  BY DEF JobTyped, Idle, Serve, Steps, ReturnSteps, MoneySteps, RefundSteps, CancelSteps
<1>2. QED
  BY <1>1, StartTyped DEF Finish

\* A request that goes on keeps its target and amount.
Follows(pc, next) ==
  /\ next \in ReturnSteps => pc \in ReturnSteps
  /\ next \in MoneySteps => pc \in MoneySteps
  /\ next \in CancelSteps \cup {"cancel_commit"} => pc \in CancelSteps
  /\ next \in Steps \ {"create"}

LEMMA GotoTyped ==
  ASSUME JobsTyped, NEW w \in Workers, NEW next, Follows(job[w].pc, next),
         Goto(w, next)
  PROVE  /\ JobsTyped' /\ job'[w] = Serve(next, job[w].target, job[w].amount)
         /\ \A v \in Workers : v # w => job'[v] = job[v]
<1> DEFINE j == Serve(next, job[w].target, job[w].amount)
<1>1. JobTyped(j)
  BY DEF JobsTyped, JobTyped, Follows, Serve
<1>2. [job[w] EXCEPT !.pc = next] = j
  BY DEF JobsTyped, JobTyped, Serve
<1>3. job' = [job EXCEPT ![w] = j]
  BY <1>2 DEF Goto
<1>4. QED
  BY <1>1, <1>3, StartTyped

LEMMA BeginTyped ==
  ASSUME JobsTyped, NEW w \in Workers, NEW pc, NEW x, NEW a,
         JobTyped(Serve(pc, x, a)), Begin(w, pc, x, a)
  PROVE  /\ JobsTyped' /\ job'[w] = Serve(pc, x, a) /\ job[w] = Idle
         /\ \A v \in Workers : v # w => job'[v] = job[v]
  BY StartTyped DEF Begin

(***************************************************************************)
(* The invariant.  Besides the two properties it says what a request in    *)
(* flight knows of its return: it exists; it was approved; its claim is    *)
(* held; a refund to be completed is recorded.                             *)
(***************************************************************************)
JobOn(w) ==
  LET r == job[w].target IN
  /\ job[w].pc \in ReturnSteps => Exists(r)
  /\ job[w].pc \in ReturnSteps \ {"push"} => Approved(r)
  /\ job[w].pc \in RefundSteps => ret[r].refund = w
  /\ job[w].pc = "refund_complete" => ret[r].refund = Refunded

JobsOn == \A w \in Workers : JobOn(w)

ReturnInv == Typed /\ NothingBeforeApproval /\ CompletedIsPaid /\ JobsOn

\* What the steps of w leave of a return, for the requests of others.
Lasting(w) ==
  \A r \in Returns :
    /\ Exists(r) => Exists(r)'
    /\ Approved(r) => Approved(r)'
    /\ ret[r].refund = Refunded => ret'[r].refund = Refunded
    /\ \A v \in Workers \ {w} : ret[r].refund = v => ret'[r].refund = v

LEMMA OthersOn ==
  ASSUME JobsTyped, JobsOn, NEW w \in Workers, Lasting(w), JobOn(w)',
         \A v \in Workers : v # w => job'[v] = job[v]
  PROVE  JobsOn'
<1> SUFFICES ASSUME NEW v \in Workers, v # w PROVE JobOn(v)'
  BY DEF JobsOn
<1>1. job'[v] = job[v] /\ JobOn(v)
  BY DEF JobsOn
<1>2. job[v].pc \in ReturnSteps => job[v].target \in Returns
  BY DEF JobsTyped, JobTyped
<1>3. RefundSteps \subseteq ReturnSteps /\ "refund_complete" \in ReturnSteps
  BY DEF RefundSteps, ReturnSteps
<1>4. QED
  BY <1>1, <1>2, <1>3 DEF JobOn, Lasting, Exists, Approved

\* A step that leaves the returns as they are, and the money and the documents.
LEMMA QuietKeeps ==
  ASSUME ReturnInv, JobsTyped', UNCHANGED <<ret, back, credited, documents>>
  PROVE  /\ Typed' /\ NothingBeforeApproval' /\ CompletedIsPaid'
         /\ \A w \in Workers : Lasting(w)
  BY DEF ReturnInv, Typed, RowsTyped, NothingBeforeApproval, CompletedIsPaid,
         Lasting, Exists, Approved

\* What is known of the return a request works on.
LEMMA TargetKnown ==
  ASSUME ReturnInv, NEW w \in Workers, job[w].pc \in ReturnSteps
  PROVE  /\ job[w].target \in Returns
         /\ ret[job[w].target] \in ReturnRow
         /\ JobOn(w)
         /\ job[w].pc \in MoneySteps => job[w].amount \in 1..Ordered
  BY DEF ReturnInv, Typed, JobsTyped, RowsTyped, JobTyped, JobsOn

LEMMA StepNames ==
  /\ RefundSteps \subseteq ReturnSteps /\ MoneySteps \subseteq ReturnSteps
  /\ ReturnSteps \subseteq Steps /\ CancelSteps \subseteq Steps
  /\ Idle.pc \notin ReturnSteps
  BY DEF RefundSteps, MoneySteps, ReturnSteps, CancelSteps, Steps, Idle

(***************************************************************************)
(* Requests before the refund.                                             *)
(***************************************************************************)
LEMMA CreateKeeps ==
  ASSUME ReturnInv, NEW w \in Workers
  PROVE  /\ \A o \in Orders, q \in 1..Ordered : CreateCheck(w, o, q) => ReturnInv'
         /\ \A r \in Returns : CreateCommit(w, r) => ReturnInv'
<1>1. ASSUME NEW o \in Orders, NEW q \in 1..Ordered, CreateCheck(w, o, q)
      PROVE  ReturnInv'
  <2>1. JobTyped(Serve("create", o, q))
    BY DEF JobTyped, Serve, Steps, ReturnSteps, MoneySteps, RefundSteps, CancelSteps
  <2>2. JobsTyped' /\ job'[w].pc = "create" /\ \A v \in Workers : v # w => job'[v] = job[v]
    BY <1>1, <2>1, BeginTyped DEF CreateCheck, ReturnInv, Typed, Serve
  <2>3. JobOn(w)'
    BY <2>2 DEF JobOn, ReturnSteps, RefundSteps
  <2>4. QED
    BY <1>1, <2>2, <2>3, QuietKeeps, OthersOn DEF CreateCheck, ReturnInv, Typed
<1>2. ASSUME NEW r \in Returns, CreateCommit(w, r)
      PROVE  ReturnInv'
  <2> DEFINE row == NewReturn(job[w].target, job[w].amount)
  <2>1. row \in ReturnRow /\ row.status = "pending_zoho" /\ row.refund = None
    <3>1. job[w].target \in Orders /\ job[w].amount \in 0..Ordered
      BY <1>2, OrderedAssumption
         DEF ReturnInv, Typed, JobsTyped, JobTyped, CreateCommit, At
    <3>2. QED
      BY <3>1 DEF NewReturn, NoReturn, ReturnRow, Statuses, Claims
  <2>2. ret' = [ret EXCEPT ![r] = row]
    BY <1>2 DEF CreateCommit
  <2> HIDE DEF row
  <2>3. JobTyped(Serve("push", r, 0))
    BY DEF JobTyped, Serve, Steps, ReturnSteps, MoneySteps, RefundSteps, CancelSteps
  <2>4. /\ JobsTyped' /\ job'[w] = Serve("push", r, 0)
        /\ \A v \in Workers : v # w => job'[v] = job[v]
    BY <1>2, <2>3, StartTyped DEF CreateCommit, ReturnInv, Typed
  <2>5. ret[r].status = "absent"
    BY <1>2 DEF CreateCommit, Exists
  <2>6. ret[r].refund = None /\ back[r] = 0 /\ credited[r] = 0 /\ documents[r] = 0
    BY <2>5 DEF ReturnInv, NothingBeforeApproval
  <2>7. RowsTyped' /\ NothingBeforeApproval' /\ CompletedIsPaid'
    BY <1>2, <2>1, <2>2, <2>6
       DEF ReturnInv, Typed, RowsTyped, NothingBeforeApproval, CompletedIsPaid,
           CreateCommit
  <2>8. Lasting(w)
    BY <2>1, <2>2, <2>5, <2>6, ValueAssumption
       DEF Lasting, Exists, Approved, ReturnInv, Typed, RowsTyped
  <2>9. JobOn(w)'
    BY <2>1, <2>2, <2>4
       DEF JobOn, Serve, Exists, RefundSteps, ReturnInv, Typed, RowsTyped
  <2>10. QED
    BY <2>4, <2>7, <2>8, <2>9, OthersOn DEF ReturnInv, Typed
<1>3. QED
  BY <1>1, <1>2

\* Setting the status of an approved return keeps the properties of the rows.
LEMMA StatusKeeps ==
  ASSUME ReturnInv, NEW r \in Returns, NEW s \in {"synced", "rejected", "failed"},
         Exists(r), ret' = [ret EXCEPT ![r].status = s],
         UNCHANGED <<back, credited, documents>>
  PROVE  /\ RowsTyped' /\ NothingBeforeApproval' /\ CompletedIsPaid'
         /\ \A w \in Workers : Lasting(w)
         /\ Approved(r)' /\ \A p \in Returns : ret'[p].refund = ret[p].refund
<1> DEFINE row == [ret[r] EXCEPT !.status = s]
<1>1. row \in ReturnRow /\ row.status = s /\ row.refund = ret[r].refund
  BY DEF ReturnInv, Typed, RowsTyped, ReturnRow, Statuses
<1>2. ret' = [ret EXCEPT ![r] = row]
  OBVIOUS
<1> HIDE DEF row
<1>3. RowsTyped' /\ NothingBeforeApproval' /\ CompletedIsPaid'
  BY <1>1, <1>2
     DEF ReturnInv, Typed, RowsTyped, NothingBeforeApproval, CompletedIsPaid
<1>4. \A p \in Returns : ret'[p] = IF p = r THEN row ELSE ret[p]
  BY <1>2 DEF ReturnInv, Typed, RowsTyped
<1>5. QED
  BY <1>1, <1>3, <1>4 DEF Lasting, Exists, Approved

LEMMA StaffKeeps ==
  ASSUME ReturnInv, NEW r \in Returns
  PROVE  /\ Reject(r) => ReturnInv'
         /\ \A w \in Workers : Approve(w, r) \/ Resync(w, r) => ReturnInv'
<1>1. JobTyped(Serve("push", r, 0)) /\ JobTyped(Serve("resync", r, 0))
  BY DEF JobTyped, Serve, Steps, ReturnSteps, MoneySteps, RefundSteps, CancelSteps
<1>2. CASE Reject(r)
  <2>1. Exists(r)
    BY <1>2 DEF Reject, RejectableStatuses, Exists
  <2>2. /\ RowsTyped' /\ NothingBeforeApproval' /\ CompletedIsPaid'
        /\ \A w \in Workers : Lasting(w)
        /\ \A p \in Returns : ret'[p].refund = ret[p].refund
    BY <1>2, <2>1, StatusKeeps DEF Reject
  <2>3. JobsTyped' /\ \A w \in Workers : JobOn(w)'
    BY <1>2, <2>2, TargetKnown, StepNames
       DEF Reject, ReturnInv, Typed, JobsTyped, JobsOn, JobOn, Lasting,
           Exists, Approved, RefundSteps, ReturnSteps
  <2>4. QED
    BY <2>2, <2>3 DEF ReturnInv, Typed, JobsOn
<1>3. ASSUME NEW w \in Workers, Approve(w, r)
      PROVE  ReturnInv'
  <2>1. Exists(r)
    BY <1>3 DEF Approve, ApprovableStatuses, Exists
  <2>2. /\ RowsTyped' /\ NothingBeforeApproval' /\ CompletedIsPaid'
        /\ Lasting(w) /\ Approved(r)'
    BY <1>3, <2>1, StatusKeeps DEF Approve
  <2>3. /\ JobsTyped' /\ job'[w] = Serve("push", r, 0)
        /\ \A v \in Workers : v # w => job'[v] = job[v]
    BY <1>1, <1>3, BeginTyped DEF Approve, ReturnInv, Typed
  <2>4. JobOn(w)'
    BY <2>2, <2>3 DEF JobOn, Serve, Exists, Approved, RefundSteps
  <2>5. QED
    BY <2>2, <2>3, <2>4, OthersOn DEF ReturnInv, Typed
<1>4. ASSUME NEW w \in Workers, Resync(w, r)
      PROVE  ReturnInv'
  <2>1. PICK pc \in {"push", "resync"} : Begin(w, pc, r, 0)
    BY <1>4 DEF Resync
  <2>2. /\ JobsTyped' /\ job'[w] = Serve(pc, r, 0)
        /\ \A v \in Workers : v # w => job'[v] = job[v]
    BY <1>1, <2>1, BeginTyped DEF ReturnInv, Typed
  <2>3. Exists(r) /\ Approved(r)
    BY <1>4 DEF Resync, Exists, Approved
  <2>4. JobOn(w)'
    BY <1>4, <2>2, <2>3 DEF JobOn, Serve, Exists, Approved, RefundSteps, Resync
  <2>5. QED
    BY <1>4, <2>2, <2>4, QuietKeeps, OthersOn DEF Resync, ReturnInv, Typed
<1>5. QED
  BY <1>2, <1>3, <1>4

LEMMA PushKeeps ==
  ASSUME ReturnInv, NEW w \in Workers,
         ResyncSave(w) \/ Push(w) \/ PushFails(w) \/ PushRecordFailure(w)
  PROVE  ReturnInv'
<1>0. PICK r \in Returns : r = job[w].target
  BY TargetKnown DEF ResyncSave, Push, PushFails, PushRecordFailure, At, ReturnSteps
<1>1. /\ job[w].pc \in {"push", "push_failed", "resync"}
      /\ r = job[w].target /\ ret[r] \in ReturnRow /\ Exists(r)
      /\ job[w].pc # "push" => Approved(r)
  BY <1>0, TargetKnown DEF ResyncSave, Push, PushFails, PushRecordFailure, At,
                           JobOn, ReturnSteps
<1>2. CASE ResyncSave(w)
  <2>1. /\ RowsTyped' /\ NothingBeforeApproval' /\ CompletedIsPaid'
        /\ Lasting(w) /\ Approved(r)'
    BY <1>1, <1>2, StatusKeeps DEF ResyncSave
  <2>2. /\ JobsTyped' /\ job'[w] = Serve("push", r, job[w].amount)
        /\ \A v \in Workers : v # w => job'[v] = job[v]
    <3>1. Follows(job[w].pc, "push")
      BY <1>1 DEF Follows, ReturnSteps, MoneySteps, RefundSteps, CancelSteps, Steps
    <3>2. QED
      BY <1>1, <1>2, <3>1, GotoTyped DEF ResyncSave, ReturnInv, Typed
  <2>3. JobOn(w)'
    BY <2>1, <2>2 DEF JobOn, Serve, Exists, Approved, RefundSteps
  <2>4. QED
    BY <2>1, <2>2, <2>3, OthersOn DEF ReturnInv, Typed
<1>3. CASE Push(w)
  <2>1. /\ JobsTyped' /\ job'[w] = Idle
        /\ \A v \in Workers : v # w => job'[v] = job[v]
    BY <1>3, FinishTyped DEF Push, ReturnInv, Typed
  <2>2. JobOn(w)'
    BY <2>1 DEF JobOn, Idle, ReturnSteps, RefundSteps
  <2>3. CASE UNCHANGED <<ret, documents>>
    BY <1>3, <2>1, <2>2, <2>3, QuietKeeps, OthersOn DEF Push, ReturnInv, Typed
  <2>4. CASE /\ Pushable(r)
             /\ ret' = [ret EXCEPT ![r].salesreturn = TRUE]
             /\ documents' = [documents EXCEPT ![r] = @ + 1]
    <3> DEFINE row == [ret[r] EXCEPT !.salesreturn = TRUE]
    <3>1. row \in ReturnRow /\ row.status = "synced" /\ row.refund = ret[r].refund
      BY <1>1, <2>4 DEF ReturnRow, Pushable
    <3>2. ret' = [ret EXCEPT ![r] = row]
      BY <2>4
    <3> HIDE DEF row
    <3>3. \A p \in Returns : ret'[p] = IF p = r THEN row ELSE ret[p]
      BY <1>1, <3>2 DEF ReturnInv, Typed, RowsTyped
    <3>4. RowsTyped' /\ NothingBeforeApproval' /\ CompletedIsPaid'
      <4>1. RowsTyped'
        <5>1. UNCHANGED <<back, credited>>
          BY <1>3 DEF Push
        <5>2. documents' \in [Returns -> Nat]
          BY <2>4 DEF ReturnInv, Typed, RowsTyped
        <5>3. ret' \in [Returns -> ReturnRow]
          BY <3>1, <3>2 DEF ReturnInv, Typed, RowsTyped
        <5>4. QED
          BY <5>1, <5>2, <5>3 DEF ReturnInv, Typed, RowsTyped
      <4>2. \A p \in Returns :
              p # r => documents'[p] = documents[p] /\ ret'[p] = ret[p]
        BY <2>4, <3>3 DEF ReturnInv, Typed, RowsTyped
      <4>3. UNCHANGED <<back, credited>>
        BY <1>3 DEF Push
      <4>4. NothingBeforeApproval'
        BY <3>1, <3>3, <4>2, <4>3 DEF ReturnInv, NothingBeforeApproval
      <4>5. CompletedIsPaid'
        BY <3>1, <3>3, <4>3 DEF ReturnInv, CompletedIsPaid
      <4>6. QED
        BY <4>1, <4>4, <4>5
    <3>5. Lasting(w)
      BY <3>1, <3>3 DEF Lasting, Exists, Approved
    <3>6. QED
      BY <2>1, <2>2, <3>4, <3>5, OthersOn DEF ReturnInv, Typed
  <2>5. QED
    BY <1>1, <1>3, <2>3, <2>4 DEF Push
<1>4. CASE PushFails(w)
  <2>1. /\ JobsTyped' /\ job'[w] = Serve("push_failed", r, job[w].amount)
        /\ \A v \in Workers : v # w => job'[v] = job[v]
    <3>1. Follows(job[w].pc, "push_failed")
      BY <1>1 DEF Follows, ReturnSteps, MoneySteps, RefundSteps, CancelSteps, Steps
    <3>2. QED
      BY <1>1, <1>4, <3>1, GotoTyped DEF PushFails, ReturnInv, Typed
  <2>2. Approved(r) /\ UNCHANGED <<ret, back, credited>>
    BY <1>1, <1>4 DEF PushFails, Pushable, Approved
  <2>3. JobOn(w)'
    BY <1>1, <2>1, <2>2 DEF JobOn, Serve, Exists, Approved, RefundSteps
  <2>4. RowsTyped' /\ NothingBeforeApproval' /\ CompletedIsPaid'
    <3>1. \/ UNCHANGED documents
          \/ documents' = [documents EXCEPT ![r] = @ + 1]
      BY <1>1, <1>4 DEF PushFails
    <3>2. QED
      BY <1>1, <2>2, <3>1
         DEF ReturnInv, Typed, RowsTyped, NothingBeforeApproval, CompletedIsPaid, Approved
  <2>5. Lasting(w)
    BY <2>2 DEF Lasting, Exists, Approved
  <2>6. QED
    BY <2>1, <2>3, <2>4, <2>5, OthersOn DEF ReturnInv, Typed
<1>5. CASE PushRecordFailure(w)
  <2>1. /\ RowsTyped' /\ NothingBeforeApproval' /\ CompletedIsPaid' /\ Lasting(w)
    BY <1>1, <1>5, StatusKeeps DEF PushRecordFailure
  <2>2. /\ JobsTyped' /\ job'[w] = Idle
        /\ \A v \in Workers : v # w => job'[v] = job[v]
    BY <1>5, FinishTyped DEF PushRecordFailure, ReturnInv, Typed
  <2>3. JobOn(w)'
    BY <2>2 DEF JobOn, Idle, ReturnSteps, RefundSteps
  <2>4. QED
    BY <2>1, <2>2, <2>3, OthersOn DEF ReturnInv, Typed
<1>6. QED
  BY <1>2, <1>3, <1>4, <1>5

(***************************************************************************)
(* The refund.                                                             *)
(***************************************************************************)
\* Writing the claim of an approved return keeps the properties of the rows.
LEMMA ClaimKeeps ==
  ASSUME ReturnInv, NEW r \in Returns, NEW c \in Claims, Approved(r),
         ret' = [ret EXCEPT ![r].refund = c], UNCHANGED <<back, credited, documents>>
  PROVE  /\ RowsTyped' /\ NothingBeforeApproval' /\ CompletedIsPaid'
         /\ \A p \in Returns : /\ ret'[p].status = ret[p].status
                               /\ ret'[p].refund = IF p = r THEN c ELSE ret[p].refund
<1> DEFINE row == [ret[r] EXCEPT !.refund = c]
<1>1. row \in ReturnRow /\ row.refund = c /\ row.status = ret[r].status
  BY DEF ReturnInv, Typed, RowsTyped, ReturnRow
<1>2. ret' = [ret EXCEPT ![r] = row]
  OBVIOUS
<1> HIDE DEF row
<1>3. RowsTyped'
  BY <1>1, <1>2 DEF ReturnInv, Typed, RowsTyped
<1>4. \A p \in Returns : ret'[p] = IF p = r THEN row ELSE ret[p]
  BY <1>2 DEF ReturnInv, Typed, RowsTyped
<1>5. NothingBeforeApproval' /\ CompletedIsPaid'
  BY <1>1, <1>4 DEF ReturnInv, NothingBeforeApproval, CompletedIsPaid, Approved
<1>6. QED
  BY <1>1, <1>3, <1>4, <1>5

\* So does money given back, for an approved return or for an order.
LEMMA GiveBackKeeps ==
  ASSUME ReturnInv, UNCHANGED <<ret, credited, documents>>,
         NEW o, NEW x \in Returns \cup Orders, NEW amount,
         GiveBack(o, x, amount) \/ GiveBackFails(o, x, amount),
         x \in Returns => Approved(x) /\ amount \in Nat
  PROVE  /\ RowsTyped' /\ NothingBeforeApproval' /\ CompletedIsPaid'
         /\ \A w \in Workers : Lasting(w)
<1>1. back' = back \/ back' = [back EXCEPT ![x] = @ + amount]
  BY DEF GiveBack, GiveBackFails
<1>2. \A r \in Returns :
        \/ back'[r] = back[r]
        \/ r = x /\ Approved(r) /\ amount \in Nat /\ back'[r] = back[r] + amount
  BY <1>1 DEF ReturnInv, Typed, RowsTyped
<1>3. \A r \in Returns : back[r] \in Nat /\ back'[r] \in Nat /\ back'[r] >= back[r]
                         /\ (back'[r] = back[r] \/ Approved(r))
  BY <1>2 DEF ReturnInv, Typed, RowsTyped
<1>4. back' = [y \in Returns \cup Orders |-> back'[y]]
  BY <1>1 DEF ReturnInv, Typed, RowsTyped
<1>5. RowsTyped' /\ NothingBeforeApproval'
  BY <1>3, <1>4 DEF ReturnInv, Typed, RowsTyped, NothingBeforeApproval, Approved
<1>6. CompletedIsPaid'
  BY <1>3 DEF ReturnInv, Typed, RowsTyped, CompletedIsPaid
<1>7. QED
  BY <1>5, <1>6 DEF Lasting, Exists, Approved

\* A request that leaves its return at a step that asks nothing of it.
LEMMA LeavesOn ==
  ASSUME NEW w \in Workers, job'[w].pc \notin ReturnSteps
  PROVE  JobOn(w)'
  BY StepNames DEF JobOn, ReturnSteps

LEMMA RefundBegins ==
  ASSUME ReturnInv, NEW w \in Workers
  PROVE  /\ \A r \in Returns : RefundCheck(w, r) => ReturnInv'
         /\ RefundClaim(w) => ReturnInv'
<1>1. ASSUME NEW r \in Returns, RefundCheck(w, r)
      PROVE  ReturnInv'
  <2>1. PICK a \in RefundAmounts(r), pc \in {"refund_claim", "credit"} : Begin(w, pc, r, a)
    BY <1>1 DEF RefundCheck
  <2>2. a \in 1..Ordered
    <3>1. ret[r].qty \in 0..Ordered
      BY DEF ReturnInv, Typed, RowsTyped, ReturnRow
    <3>2. QED
      BY <3>1, OrderedAssumption DEF RefundAmounts
  <2>3. JobTyped(Serve(pc, r, a))
    BY <2>2 DEF JobTyped, Serve, Steps, ReturnSteps, MoneySteps, RefundSteps, CancelSteps
  <2>4. /\ JobsTyped' /\ job'[w] = Serve(pc, r, a)
        /\ \A v \in Workers : v # w => job'[v] = job[v]
    BY <2>1, <2>3, BeginTyped DEF ReturnInv, Typed
  <2>5. Exists(r) /\ Approved(r) /\ UNCHANGED <<ret, back, credited, documents>>
    BY <1>1 DEF RefundCheck, Refundable, Exists, Approved
  <2>6. JobOn(w)'
    BY <2>4, <2>5 DEF JobOn, Serve, Exists, Approved, RefundSteps
  <2>7. QED
    BY <2>4, <2>5, <2>6, QuietKeeps, OthersOn DEF ReturnInv, Typed
<1>2. CASE RefundClaim(w)
  <2>0. PICK r \in Returns : r = job[w].target
    BY <1>2, TargetKnown DEF RefundClaim, At, ReturnSteps
  <2>1. Exists(r) /\ Approved(r)
    BY <1>2, <2>0, TargetKnown DEF RefundClaim, At, ReturnSteps, JobOn
  <2>2. CASE Finish(w) /\ UNCHANGED ret
    BY <1>2, <2>2, FinishTyped, QuietKeeps, OthersOn, LeavesOn, StepNames
       DEF RefundClaim, ReturnInv, Typed
  <2>3. CASE /\ ReturnClaimFree(r)
             /\ ret' = [ret EXCEPT ![r].refund = w]
             /\ Goto(w, "refund_issue")
    <3>1. Follows(job[w].pc, "refund_issue")
      BY <1>2 DEF RefundClaim, At, Follows, ReturnSteps, MoneySteps, RefundSteps,
                  CancelSteps, Steps
    <3>2. /\ JobsTyped' /\ job'[w] = Serve("refund_issue", r, job[w].amount)
          /\ \A v \in Workers : v # w => job'[v] = job[v]
      BY <2>0, <2>3, <3>1, GotoTyped DEF ReturnInv, Typed
    <3>3. /\ RowsTyped' /\ NothingBeforeApproval' /\ CompletedIsPaid'
          /\ \A p \in Returns : /\ ret'[p].status = ret[p].status
                                /\ ret'[p].refund = IF p = r THEN w ELSE ret[p].refund
      BY <1>2, <2>1, <2>3, ClaimKeeps, ZenonT(60) DEF RefundClaim, Claims
    <3>4. Lasting(w)
      BY <2>3, <3>3, ValueAssumption DEF Lasting, Exists, Approved, ReturnClaimFree
    <3>5. JobOn(w)'
      BY <2>1, <3>2, <3>3 DEF JobOn, Serve, Exists, Approved
    <3>6. QED
      BY <3>2, <3>3, <3>4, <3>5, OthersOn DEF ReturnInv, Typed
  <2>4. QED
    BY <1>2, <2>0, <2>2, <2>3 DEF RefundClaim
<1>3. QED
  BY <1>1, <1>2

LEMMA RefundIssueKeeps ==
  ASSUME ReturnInv, NEW w \in Workers, RefundIssue(w) \/ RefundIssueFails(w)
  PROVE  ReturnInv'
<1>1. PICK next \in {"refund_finalize", "refund_release"} : Goto(w, next)
  BY DEF RefundIssue, RefundIssueFails
<1>2. job[w].pc = "refund_issue" /\ UNCHANGED <<order, ret, credited, documents>>
  BY DEF RefundIssue, RefundIssueFails, At
<1>3. PICK r \in Returns : r = job[w].target
  BY <1>2, TargetKnown DEF ReturnSteps
<1>4. Exists(r) /\ Approved(r) /\ ret[r].refund = w /\ job[w].amount \in Nat
  BY <1>2, <1>3, TargetKnown, OrderedAssumption
     DEF ReturnSteps, RefundSteps, MoneySteps, JobOn
<1>5. /\ JobsTyped' /\ job'[w] = Serve(next, r, job[w].amount)
      /\ \A v \in Workers : v # w => job'[v] = job[v]
  <2>1. Follows(job[w].pc, next)
    BY <1>2 DEF Follows, ReturnSteps, MoneySteps, RefundSteps, CancelSteps, Steps
  <2>2. QED
    BY <1>1, <1>3, <2>1, GotoTyped DEF ReturnInv, Typed
<1>6. JobOn(w)'
  BY <1>2, <1>4, <1>5 DEF JobOn, Serve, Exists, Approved
<1>7. RowsTyped' /\ NothingBeforeApproval' /\ CompletedIsPaid' /\ Lasting(w)
  BY <1>2, <1>3, <1>4, GiveBackKeeps DEF RefundIssue, RefundIssueFails
<1>8. QED
  BY <1>5, <1>6, <1>7, OthersOn DEF ReturnInv, Typed

\* The request that finalizes or releases holds the claim.
LEMMA RefundEndsKeeps ==
  ASSUME ReturnInv, NEW w \in Workers, RefundFinalize(w) \/ RefundRelease(w)
  PROVE  ReturnInv'
<1>1. /\ job[w].pc \in {"refund_finalize", "refund_release"}
      /\ UNCHANGED <<back, credited, documents>>
  BY DEF RefundFinalize, RefundRelease, At
<1>2. PICK r \in Returns : r = job[w].target
  BY <1>1, TargetKnown DEF ReturnSteps
<1>3. Exists(r) /\ Approved(r) /\ ret[r].refund = w
  BY <1>1, <1>2, TargetKnown DEF ReturnSteps, RefundSteps, JobOn
<1>c. Refunded \in Claims /\ None \in Claims
  BY DEF Claims
<1>4. CASE RefundFinalize(w)
  <2>1. ret' = [ret EXCEPT ![r].refund = Refunded] /\ Goto(w, "refund_complete")
    BY <1>2, <1>3, <1>4 DEF RefundFinalize
  <2>2. /\ RowsTyped' /\ NothingBeforeApproval' /\ CompletedIsPaid'
        /\ \A p \in Returns : /\ ret'[p].status = ret[p].status
                              /\ ret'[p].refund = IF p = r THEN Refunded ELSE ret[p].refund
    BY <1>1, <1>3, <1>c, <2>1, ClaimKeeps
  <2>3. Follows(job[w].pc, "refund_complete")
    BY <1>1 DEF Follows, ReturnSteps, MoneySteps, RefundSteps, CancelSteps, Steps
  <2>4. /\ JobsTyped' /\ job'[w] = Serve("refund_complete", r, job[w].amount)
        /\ \A v \in Workers : v # w => job'[v] = job[v]
    BY <1>2, <2>1, <2>3, GotoTyped DEF ReturnInv, Typed
  <2>5. Lasting(w)
    BY <1>3, <2>2 DEF Lasting, Exists, Approved
  <2>6. JobOn(w)'
    BY <1>3, <2>2, <2>4 DEF JobOn, Serve, Exists, Approved, RefundSteps
  <2>7. QED
    BY <2>2, <2>4, <2>5, <2>6, OthersOn DEF ReturnInv, Typed
<1>5. CASE RefundRelease(w)
  <2>1. ret' = [ret EXCEPT ![r].refund = None]
    BY <1>2, <1>3, <1>5 DEF RefundRelease
  <2>2. /\ RowsTyped' /\ NothingBeforeApproval' /\ CompletedIsPaid'
        /\ \A p \in Returns : /\ ret'[p].status = ret[p].status
                              /\ ret'[p].refund = IF p = r THEN None ELSE ret[p].refund
    BY <1>1, <1>3, <1>c, <2>1, ClaimKeeps
  <2>3. Lasting(w)
    BY <1>3, <2>2, ValueAssumption DEF Lasting, Exists, Approved
  <2>4. /\ JobsTyped' /\ job'[w] = Idle
        /\ \A v \in Workers : v # w => job'[v] = job[v]
    BY <1>5, FinishTyped DEF RefundRelease, ReturnInv, Typed
  <2>5. QED
    BY <2>2, <2>3, <2>4, LeavesOn, StepNames, OthersOn DEF ReturnInv, Typed
<1>6. QED
  BY <1>4, <1>5

LEMMA RefundClosesKeeps ==
  ASSUME ReturnInv, NEW w \in Workers, RefundComplete(w) \/ Credit(w)
  PROVE  ReturnInv'
<1>1. job[w].pc \in {"refund_complete", "credit"} /\ Finish(w) /\ UNCHANGED <<back, documents>>
  BY DEF RefundComplete, Credit, At
<1>2. PICK r \in Returns : r = job[w].target
  BY <1>1, TargetKnown DEF ReturnSteps
<1>3. ret[r] \in ReturnRow /\ Approved(r) /\ job[w].amount \in 1..Ordered
  BY <1>1, <1>2, TargetKnown DEF ReturnSteps, MoneySteps, JobOn
<1>4. /\ JobsTyped' /\ job'[w] = Idle
      /\ \A v \in Workers : v # w => job'[v] = job[v]
  BY <1>1, FinishTyped DEF ReturnInv, Typed
<1>5. CASE RefundComplete(w)
  <2>1. ret[r].refund = Refunded
    BY <1>2, <1>5, TargetKnown DEF RefundComplete, At, ReturnSteps, JobOn
  <2>2. ret' = [ret EXCEPT ![r].status = ret[r].status]
    BY <1>2, <1>5, <2>1 DEF RefundComplete
  <2>3. [ret[r] EXCEPT !.status = ret[r].status] = ret[r]
    BY <1>3 DEF ReturnRow
  <2>4. ret' = ret
    BY <2>2, <2>3 DEF ReturnInv, Typed, RowsTyped
  <2>5. QED
    BY <1>1, <1>4, <1>5, <2>4, QuietKeeps, LeavesOn, StepNames, OthersOn
       DEF RefundComplete, ReturnInv, Typed
<1>6. CASE Credit(w)
  <2> DEFINE row == [ret[r] EXCEPT !.status = "completed"]
  <2>1. row \in ReturnRow /\ row.status = "completed" /\ row.refund = ret[r].refund
    BY <1>3 DEF ReturnRow, Statuses
  <2>2. /\ ret' = [ret EXCEPT ![r] = row]
        /\ credited' = [credited EXCEPT ![r] = @ + job[w].amount]
    BY <1>2, <1>6 DEF Credit
  <2> HIDE DEF row
  <2>3. \A p \in Returns : ret'[p] = IF p = r THEN row ELSE ret[p]
    BY <2>2 DEF ReturnInv, Typed, RowsTyped
  <2>4. /\ \A p \in Returns : credited'[p] = credited[p] \/ p = r
        /\ credited'[r] \in Nat /\ credited'[r] > 0
        /\ credited' \in [Returns -> Nat]
    BY <1>3, <2>2, OrderedAssumption DEF ReturnInv, Typed, RowsTyped
  <2>5. RowsTyped'
    <3>1. ret' \in [Returns -> ReturnRow]
      BY <2>1, <2>2 DEF ReturnInv, Typed, RowsTyped
    <3>2. QED
      BY <1>1, <2>4, <3>1 DEF ReturnInv, Typed, RowsTyped
  <2>6. NothingBeforeApproval'
    <3>1. ASSUME NEW p \in Returns, ret'[p].status \in {"absent", "pending_zoho"}
          PROVE  p # r /\ ret'[p] = ret[p] /\ credited'[p] = credited[p]
      BY <2>1, <2>3, <2>4, <3>1
    <3>2. QED
      BY <1>1, <3>1 DEF ReturnInv, NothingBeforeApproval
  <2>7. CompletedIsPaid'
    BY <1>1, <2>3, <2>4 DEF ReturnInv, Typed, RowsTyped, CompletedIsPaid
  <2>8. Lasting(w)
    BY <1>3, <2>1, <2>3 DEF Lasting, Exists, Approved
  <2>9. QED
    BY <1>4, <2>5, <2>6, <2>7, <2>8, LeavesOn, StepNames, OthersOn
       DEF ReturnInv, Typed
<1>7. QED
  BY <1>5, <1>6

(***************************************************************************)
(* The cancellation touches no return; it may give back money of the order. *)
(***************************************************************************)
LEMMA CancelKeeps ==
  ASSUME ReturnInv, NEW w \in Workers, Cancel(w) \/ Crash(w)
  PROVE  ReturnInv'
<1>1. /\ JobsTyped' /\ job'[w].pc \notin ReturnSteps
      /\ \A v \in Workers : v # w => job'[v] = job[v]
  <2>1. ASSUME NEW o \in Orders, CancelCheck(w, o)
        PROVE  \E pc \in {"cancel_issue", "cancel_commit"} : \E a : Begin(w, pc, o, a)
    BY <2>1 DEF CancelCheck
  <2>2. ASSUME NEW o \in Orders, NEW pc \in {"cancel_issue", "cancel_commit"}, NEW a,
               Begin(w, pc, o, a)
        PROVE  /\ JobsTyped' /\ job'[w].pc \notin ReturnSteps
               /\ \A v \in Workers : v # w => job'[v] = job[v]
    <3>1. JobTyped(Serve(pc, o, a)) /\ Serve(pc, o, a).pc \notin ReturnSteps
      BY DEF JobTyped, Serve, Steps, ReturnSteps, MoneySteps, RefundSteps, CancelSteps
    <3>2. QED
      BY <2>2, <3>1, BeginTyped DEF ReturnInv, Typed
  <2>3. CASE CancelIssue(w) \/ CancelIssueFails(w) \/ CancelFinalize(w)
    <3>1. PICK next \in {"cancel_finalize", "cancel_release", "cancel_commit"} :
                 Goto(w, next)
      BY <2>3 DEF CancelIssue, CancelIssueFails, CancelFinalize
    <3>2. job[w].pc \in CancelSteps
      BY <2>3 DEF CancelIssue, CancelIssueFails, CancelFinalize, At, CancelSteps
    <3>3. Follows(job[w].pc, next) /\ next \notin ReturnSteps
      BY <3>2 DEF Follows, ReturnSteps, MoneySteps, RefundSteps, CancelSteps, Steps
    <3>4. JobsTyped
      BY DEF ReturnInv, Typed
    <3>5. /\ JobsTyped' /\ job'[w] = Serve(next, job[w].target, job[w].amount)
          /\ \A v \in Workers : v # w => job'[v] = job[v]
      BY <3>1, <3>3, <3>4, GotoTyped
    <3>6. QED
      BY <3>3, <3>5 DEF Serve
  <2>4. CASE CancelRelease(w) \/ CancelCommit(w) \/ Crash(w)
    BY <2>4, FinishTyped, StepNames
       DEF CancelRelease, CancelCommit, Crash, ReturnInv, Typed
  <2>5. QED
    BY <2>1, <2>2, <2>3, <2>4 DEF Cancel
<1>2. RowsTyped' /\ NothingBeforeApproval' /\ CompletedIsPaid' /\ Lasting(w)
  <2>1. CASE CancelIssue(w) \/ CancelIssueFails(w)
    <3>1. job[w].target \in Orders
      BY <2>1 DEF CancelIssue, CancelIssueFails, At, CancelSteps, ReturnInv, Typed,
                  JobsTyped, JobTyped
    <3>2. job[w].target \notin Returns
      BY <3>1, ValueAssumption
    <3>3. QED
      BY <2>1, <3>1, <3>2, GiveBackKeeps DEF CancelIssue, CancelIssueFails
  <2>2. CASE UNCHANGED <<ret, back, credited, documents>>
    BY <1>1, <2>2, QuietKeeps DEF Typed
  <2>3. QED
    BY <2>1, <2>2
       DEF Cancel, CancelCheck, CancelFinalize, CancelRelease, CancelCommit, Crash
<1>3. QED
  BY <1>1, <1>2, LeavesOn, OthersOn DEF ReturnInv, Typed

LEMMA InvKept == ReturnInv /\ [Next]_vars => ReturnInv'
<1> SUFFICES ASSUME ReturnInv, [Next]_vars PROVE ReturnInv'
  OBVIOUS
<1>1. CASE UNCHANGED vars
  BY <1>1 DEF vars, ReturnInv, Typed, JobsTyped, RowsTyped, NothingBeforeApproval,
              CompletedIsPaid, JobsOn, JobOn, Exists, Approved
<1>2. ASSUME NEW w \in Workers, Request(w)
      PROVE  ReturnInv'
  BY <1>2, CreateKeeps, StaffKeeps, PushKeeps, RefundBegins DEF Request
<1>3. ASSUME NEW w \in Workers, Refund(w)
      PROVE  ReturnInv'
  BY <1>3, RefundBegins, RefundIssueKeeps, RefundEndsKeeps, RefundClosesKeeps DEF Refund
<1>4. ASSUME NEW w \in Workers, Cancel(w) \/ Crash(w)
      PROVE  ReturnInv'
  BY <1>4, CancelKeeps
<1>5. ASSUME NEW r \in Returns, Reject(r)
      PROVE  ReturnInv'
  BY <1>5, StaffKeeps
<1>6. QED
  BY <1>1, <1>2, <1>3, <1>4, <1>5 DEF Next

LEMMA InvStarts == Init => ReturnInv
<1> SUFFICES ASSUME Init PROVE ReturnInv
  OBVIOUS
<1>1. \A w \in Workers : job[w] = Idle
  BY DEF Init
<1>2. JobsTyped
  <2>1. JobTyped(Idle)
    BY DEF JobTyped, Idle, Serve, Steps, ReturnSteps, MoneySteps, RefundSteps, CancelSteps
  <2>2. job = [w \in Workers |-> job[w]]
    BY DEF Init
  <2>3. QED
    BY <1>1, <2>1, <2>2 DEF JobsTyped
<1>3. RowsTyped
  <2>1. NoReturn \in ReturnRow
    BY OrderedAssumption DEF NoReturn, ReturnRow, Claims
  <2>2. QED
    BY <2>1 DEF Init, RowsTyped
<1>4. NothingBeforeApproval /\ CompletedIsPaid
  BY DEF Init, NoReturn, NothingBeforeApproval, CompletedIsPaid
<1>5. JobsOn
  BY <1>1, StepNames DEF JobsOn, JobOn, RefundSteps, ReturnSteps
<1>6. QED
  BY <1>2, <1>3, <1>4, <1>5 DEF ReturnInv, Typed

LEMMA InvHolds == Spec => []ReturnInv
  BY InvStarts, InvKept, PTL DEF Spec

\* Whatever requests are in flight, and whatever fails, a return that nobody
\* approved was neither refunded, nor credited, nor sent to Zoho.
THEOREM ApprovalFirst == Spec => []NothingBeforeApproval
  BY InvHolds, PTL DEF ReturnInv

\* A return is completed only when it was paid back.
THEOREM CompletedPaid == Spec => []CompletedIsPaid
  BY InvHolds, PTL DEF ReturnInv

(***************************************************************************)
(* Documents: the two steps that write them do so under the lock of the    *)
(* return, and the row changes with them.                                  *)
(***************************************************************************)
Documented(r) == documents[r] = IF ret[r].salesreturn THEN 1 ELSE 0

LEMMA DocumentsKept ==
  ASSUME "lost" \notin Faults, ReturnInv, OneDocument, [Next]_vars
  PROVE  OneDocument'
<1> SUFFICES ASSUME NEW r \in Returns PROVE Documented(r)'
  BY DEF OneDocument, Documented
<1>r. /\ ret[r] \in ReturnRow /\ documents[r] \in Nat /\ Documented(r)
      /\ ret \in [Returns -> ReturnRow] /\ documents \in [Returns -> Nat]
  BY DEF ReturnInv, Typed, RowsTyped, OneDocument, Documented
<1>1. CASE UNCHANGED documents /\ ret'[r].salesreturn = ret[r].salesreturn
  BY <1>1, <1>r DEF Documented
<1>2. ASSUME NEW w \in Workers, NEW x \in Returns, CreateCommit(w, x)
      PROVE  Documented(r)'
  <2>1. UNCHANGED documents
    BY <1>2 DEF CreateCommit
  <2>2. CASE x = r
    <3>1. documents[r] = 0
      BY <1>2, <2>2 DEF CreateCommit, Exists, ReturnInv, NothingBeforeApproval
    <3>2. ~NewReturn(job[w].target, job[w].amount).salesreturn
      BY DEF NewReturn, NoReturn
    <3>3. ret'[r] = NewReturn(job[w].target, job[w].amount)
      BY <1>2, <1>r, <2>2 DEF CreateCommit
    <3>4. QED
      BY <2>1, <3>1, <3>2, <3>3 DEF Documented
  <2>3. CASE x # r
    BY <1>1, <1>2, <1>r, <2>1, <2>3 DEF CreateCommit
  <2>4. QED
    BY <2>2, <2>3
<1>3. ASSUME NEW w \in Workers, Push(w)
      PROVE  Documented(r)'
  <2>1. CASE UNCHANGED <<ret, documents>>
    BY <1>1, <2>1
  <2>2. ASSUME NEW x, Pushable(x),
               ret' = [ret EXCEPT ![x].salesreturn = TRUE],
               documents' = [documents EXCEPT ![x] = @ + 1]
        PROVE  Documented(r)'
    <3>1. CASE x = r
      <4>1. ~ret[r].salesreturn
        BY <2>2, <3>1 DEF Pushable
      <4>2. documents[r] = 0
        BY <1>r, <4>1 DEF Documented
      <4>3. documents'[r] = 1
        BY <1>r, <2>2, <3>1, <4>2
      <4>4. ret'[r].salesreturn
        BY <1>r, <2>2, <3>1 DEF ReturnRow
      <4>5. QED
        BY <4>3, <4>4 DEF Documented
    <3>2. CASE x # r
      <4>1. documents'[r] = documents[r] /\ ret'[r] = ret[r]
        BY <1>r, <2>2, <3>2
      <4>2. QED
        BY <1>r, <4>1 DEF Documented
    <3>3. QED
      BY <3>1, <3>2
  <2>3. QED
    BY <1>3, <2>1, <2>2 DEF Push
<1>4. ASSUME NEW x, UNCHANGED documents,
             \/ \E st : ret' = [ret EXCEPT ![x].status = st]
             \/ \E c : ret' = [ret EXCEPT ![x].refund = c]
             \/ UNCHANGED ret
      PROVE  Documented(r)'
  <2>1. ret'[r].salesreturn = ret[r].salesreturn
    BY <1>4, <1>r DEF ReturnRow
  <2>2. QED
    BY <1>1, <1>4, <2>1
<1>5. ASSUME NEW w \in Workers, Request(w)
      PROVE  Documented(r)'
  <2>1. ASSUME NEW x \in Returns, Approve(w, x) \/ Resync(w, x) \/ RefundCheck(w, x)
        PROVE  Documented(r)'
    BY <1>4, <2>1 DEF Approve, Resync, RefundCheck
  <2>2. ASSUME NEW o \in Orders, NEW q \in 1..Ordered, CreateCheck(w, o, q)
        PROVE  Documented(r)'
    BY <1>4, <2>2 DEF CreateCheck
  <2>3. CASE ResyncSave(w) \/ PushFails(w) \/ PushRecordFailure(w)
    BY <1>4, <2>3 DEF ResyncSave, PushFails, PushRecordFailure
  <2>4. QED
    BY <1>2, <1>3, <1>5, <2>1, <2>2, <2>3 DEF Request
<1>6. ASSUME NEW w \in Workers, Refund(w)
      PROVE  Documented(r)'
  <2>1. UNCHANGED documents
    BY <1>6 DEF Refund, RefundClaim, RefundIssue, RefundIssueFails,
                RefundFinalize, RefundRelease, RefundComplete, Credit
  <2>2. \E x : \/ \E st : ret' = [ret EXCEPT ![x].status = st]
               \/ \E c : ret' = [ret EXCEPT ![x].refund = c]
               \/ UNCHANGED ret
    <3>1. CASE RefundClaim(w) \/ RefundIssue(w) \/ RefundIssueFails(w)
      BY <3>1 DEF RefundClaim, RefundIssue, RefundIssueFails
    <3>2. CASE RefundFinalize(w) \/ RefundRelease(w)
      BY <3>2 DEF RefundFinalize, RefundRelease
    <3>3. CASE RefundComplete(w) \/ Credit(w)
      BY <3>3 DEF RefundComplete, Credit
    <3>4. QED
      BY <1>6, <3>1, <3>2, <3>3 DEF Refund
  <2>3. QED
    BY <1>4, <2>1, <2>2
<1>7. ASSUME NEW w \in Workers, Cancel(w) \/ Crash(w)
      PROVE  Documented(r)'
  BY <1>4, <1>7 DEF Cancel, CancelCheck, CancelIssue, CancelIssueFails,
                    CancelFinalize, CancelRelease, CancelCommit, Crash
<1>8. ASSUME NEW x \in Returns, Reject(x)
      PROVE  Documented(r)'
  BY <1>4, <1>8 DEF Reject
<1>9. CASE UNCHANGED vars
  BY <1>1, <1>9 DEF vars
<1>10. QED
  BY <1>5, <1>6, <1>7, <1>8, <1>9 DEF Next

\* If no answer of Zoho is lost, Zoho has one document for a return exactly if
\* the row names it, whoever approves, retries or pushes at the same time.
THEOREM OneDocumentEach == ("lost" \notin Faults) => (Spec => []OneDocument)
<1> SUFFICES ASSUME "lost" \notin Faults PROVE Spec => []OneDocument
  OBVIOUS
<1>1. Init => OneDocument
  BY DEF Init, OneDocument, NoReturn
<1>2. ReturnInv /\ OneDocument /\ [Next]_vars => OneDocument'
  BY DocumentsKept
<1>3. QED
  BY <1>1, <1>2, InvHolds, PTL DEF Spec

(***************************************************************************)
(* Refinement: seen from one return, every step is a step of RefundClaim.  *)
(***************************************************************************)
\* A step that writes no claim and lets no worker enter the refund.
ClaimUntouched ==
  /\ \A r \in Returns : ret'[r].refund = ret[r].refund
  /\ \A w \in Workers : job'[w].pc \in RefundSteps =>
       job[w].pc \in RefundSteps /\ job'[w].target = job[w].target

\* It is a stutter, or the death of the only worker inside.
LEMMA UntouchedRefines ==
  ASSUME ReturnInv, ClaimUntouched, NEW r \in Returns
  PROVE  [Claim(r)!Next]_(Claim(r)!vars)
<1>1. ret'[r].refund = ret[r].refund /\ Refunding(r)' \subseteq Refunding(r)
  BY DEF ClaimUntouched, Refunding
<1>2. CASE Refunding(r)' = Refunding(r)
  BY <1>1, <1>2 DEF Claim!vars
<1>3. CASE Refunding(r)' # Refunding(r)
  <2>1. PICK w \in Refunding(r) : w \notin Refunding(r)'
    BY <1>1, <1>3
  <2>2. \A v \in Refunding(r) : v = w
    BY <2>1 DEF ReturnInv, JobsOn, JobOn, Refunding
  <2>3. Refunding(r)' = Refunding(r) \ {w} /\ w \in Workers
    BY <1>1, <2>1, <2>2 DEF Refunding
  <2>4. Claim(r)!Die(w)
    BY <1>1, <2>1, <2>3 DEF Claim!Die
  <2>5. QED
    BY <2>3, <2>4 DEF Claim!Next
<1>4. QED
  BY <1>2, <1>3

\* A thread that moves to a step outside the refund, or moves within it.
LEMMA MovesOutside ==
  ASSUME ReturnInv, NEW w \in Workers, NEW pc, NEW x, NEW a,
         pc \notin RefundSteps, job' = [job EXCEPT ![w] = Serve(pc, x, a)]
  PROVE  \A v \in Workers : job'[v].pc \in RefundSteps =>
           job[v].pc \in RefundSteps /\ job'[v].target = job[v].target
<1>1. Serve(pc, x, a).pc \notin RefundSteps
  BY DEF Serve
<1>2. \A v \in Workers : job'[v] = IF v = w THEN Serve(pc, x, a) ELSE job[v]
  BY DEF ReturnInv, Typed, JobsTyped
<1>3. QED
  BY <1>1, <1>2

LEMMA MovesByGoto ==
  ASSUME ReturnInv, NEW w \in Workers, NEW pc, Goto(w, pc),
         pc \in RefundSteps => job[w].pc \in RefundSteps
  PROVE  \A v \in Workers : job'[v].pc \in RefundSteps =>
           job[v].pc \in RefundSteps /\ job'[v].target = job[v].target
<1> DEFINE j == [job[w] EXCEPT !.pc = pc]
<1>1. j.pc = pc /\ j.target = job[w].target
  BY DEF ReturnInv, Typed, JobsTyped, JobTyped, Serve
<1>2. job' = [job EXCEPT ![w] = j]
  BY DEF Goto
<1> HIDE DEF j
<1>3. \A v \in Workers : job'[v] = IF v = w THEN j ELSE job[v]
  BY <1>2 DEF ReturnInv, Typed, JobsTyped
<1>4. QED
  BY <1>1, <1>3

LEMMA MovesHome ==
  ASSUME ReturnInv, NEW w \in Workers, Finish(w)
  PROVE  \A v \in Workers : job'[v].pc \in RefundSteps =>
           job[v].pc \in RefundSteps /\ job'[v].target = job[v].target
<1>1. Idle = Serve("idle", None, 0) /\ "idle" \notin RefundSteps
  BY DEF Idle, Serve, RefundSteps
<1>2. QED
  BY <1>1, MovesOutside DEF Finish

\* A step of w that does not enter the refund.
StaysOutside(w) ==
  \/ \E pc \in Steps \ RefundSteps : \E x, a : job' = [job EXCEPT ![w] = Serve(pc, x, a)]
  \/ \E pc \in Steps \ RefundSteps : Goto(w, pc)
  \/ Finish(w)

LEMMA RequestUntouched ==
  ASSUME ReturnInv, NEW w \in Workers, Request(w)
  PROVE  ClaimUntouched
<1>1. StaysOutside(w)
  <2>1. {"create", "push", "push_failed", "resync", "refund_claim", "credit"}
          \subseteq Steps \ RefundSteps
    BY DEF Steps, RefundSteps
  <2>2. ASSUME NEW o \in Orders, NEW q \in 1..Ordered, CreateCheck(w, o, q)
        PROVE  StaysOutside(w)
    BY <2>1, <2>2 DEF StaysOutside, CreateCheck, Begin
  <2>3. ASSUME NEW r \in Returns, CreateCommit(w, r) \/ Approve(w, r) \/ Resync(w, r)
        PROVE  StaysOutside(w)
    BY <2>1, <2>3 DEF StaysOutside, CreateCommit, Approve, Resync, Begin
  <2>4. ASSUME NEW r \in Returns, RefundCheck(w, r)
        PROVE  StaysOutside(w)
    BY <2>1, <2>4 DEF StaysOutside, RefundCheck, Begin
  <2>5. CASE ResyncSave(w) \/ Push(w) \/ PushFails(w) \/ PushRecordFailure(w)
    BY <2>1, <2>5 DEF StaysOutside, ResyncSave, Push, PushFails, PushRecordFailure
  <2>6. QED
    BY <2>2, <2>3, <2>4, <2>5 DEF Request
<1>2. \A v \in Workers : job'[v].pc \in RefundSteps =>
        job[v].pc \in RefundSteps /\ job'[v].target = job[v].target
  BY <1>1, MovesOutside, MovesByGoto, MovesHome DEF StaysOutside
<1>3. ASSUME NEW r \in Returns PROVE ret'[r].refund = ret[r].refund
  <2>r. ret \in [Returns -> ReturnRow] /\ ret[r] \in ReturnRow
    BY DEF ReturnInv, Typed, RowsTyped
  <2>1. ASSUME NEW x \in Returns, CreateCommit(w, x)
        PROVE  ret'[r].refund = ret[r].refund
    <3>1. ret[x].refund = None
      BY <2>1 DEF CreateCommit, Exists, ReturnInv, NothingBeforeApproval
    <3>2. NewReturn(job[w].target, job[w].amount).refund = None
      BY DEF NewReturn, NoReturn
    <3>3. QED
      BY <2>1, <2>r, <3>1, <3>2 DEF CreateCommit
  <2>2. ASSUME NEW x, \/ \E st : ret' = [ret EXCEPT ![x].status = st]
                      \/ ret' = [ret EXCEPT ![x].salesreturn = TRUE]
                      \/ UNCHANGED ret
        PROVE  ret'[r].refund = ret[r].refund
    BY <2>2, <2>r DEF ReturnRow
  <2>3. ASSUME NEW x \in Returns, Approve(w, x) \/ Resync(w, x) \/ RefundCheck(w, x)
        PROVE  ret'[r].refund = ret[r].refund
    BY <2>2, <2>3 DEF Approve, Resync, RefundCheck
  <2>4. ASSUME NEW o \in Orders, NEW q \in 1..Ordered, CreateCheck(w, o, q)
        PROVE  ret'[r].refund = ret[r].refund
    BY <2>4 DEF CreateCheck
  <2>5. CASE ResyncSave(w) \/ Push(w) \/ PushFails(w) \/ PushRecordFailure(w)
    BY <2>2, <2>5 DEF ResyncSave, Push, PushFails, PushRecordFailure
  <2>6. QED
    BY <2>1, <2>3, <2>4, <2>5 DEF Request
<1>4. QED
  BY <1>2, <1>3 DEF ClaimUntouched

LEMMA OthersUntouched ==
  ASSUME ReturnInv
  PROVE  /\ \A r \in Returns : Reject(r) => ClaimUntouched
         /\ \A w \in Workers : Cancel(w) \/ Crash(w) => ClaimUntouched
<1>1. ASSUME NEW r \in Returns, Reject(r) PROVE ClaimUntouched
  <2>1. \A p \in Returns : ret'[p].refund = ret[p].refund
    BY <1>1 DEF Reject, ReturnInv, Typed, RowsTyped, ReturnRow
  <2>2. QED
    BY <1>1, <2>1 DEF Reject, ClaimUntouched
<1>2. ASSUME NEW w \in Workers, Cancel(w) \/ Crash(w) PROVE ClaimUntouched
  <2>1. StaysOutside(w)
    <3>1. CancelSteps \cup {"cancel_commit"} \subseteq Steps \ RefundSteps
      BY DEF CancelSteps, Steps, RefundSteps
    <3>2. ASSUME NEW o \in Orders, CancelCheck(w, o) PROVE StaysOutside(w)
      BY <3>1, <3>2 DEF StaysOutside, CancelCheck, Begin, CancelSteps
    <3>3. CASE CancelIssue(w) \/ CancelIssueFails(w) \/ CancelFinalize(w)
      BY <3>1, <3>3 DEF StaysOutside, CancelIssue, CancelIssueFails, CancelFinalize, CancelSteps
    <3>4. CASE CancelRelease(w) \/ CancelCommit(w) \/ Crash(w)
      BY <3>4 DEF StaysOutside, CancelRelease, CancelCommit, Crash
    <3>5. QED
      BY <1>2, <3>2, <3>3, <3>4 DEF Cancel
  <2>2. \A v \in Workers : job'[v].pc \in RefundSteps =>
          job[v].pc \in RefundSteps /\ job'[v].target = job[v].target
    BY <2>1, MovesOutside, MovesByGoto, MovesHome DEF StaysOutside
  <2>3. UNCHANGED ret
    BY <1>2 DEF Cancel, CancelCheck, CancelIssue, CancelIssueFails, CancelFinalize,
                CancelRelease, CancelCommit, Crash
  <2>4. QED
    BY <2>2, <2>3 DEF ClaimUntouched
<1>3. QED
  BY <1>1, <1>2

\* The steps of a refund that take, finish or give back a claim ...
LEMMA ClaimRefinesByRefund ==
  ASSUME ReturnInv, NEW w \in Workers, NEW r \in Returns,
         RefundClaim(w) \/ RefundFinalize(w) \/ RefundRelease(w)
  PROVE  [Claim(r)!Next]_(Claim(r)!vars)
<1>1. /\ job[w].pc \in {"refund_claim", "refund_finalize", "refund_release"}
      /\ job[w].target \in Returns
  BY TargetKnown DEF RefundClaim, RefundFinalize, RefundRelease, At, ReturnSteps
<1>r. ret \in [Returns -> ReturnRow] /\ \A p \in Returns : ret[p] \in ReturnRow
  BY DEF ReturnInv, Typed, RowsTyped
<1>2. PICK t \in Returns : t = job[w].target
  BY <1>1
<1>3. ASSUME NEW c, ret' = [ret EXCEPT ![t].refund = c]
      PROVE  \A p \in Returns : ret'[p].refund = IF p = t THEN c ELSE ret[p].refund
  BY <1>3, <1>r DEF ReturnRow
<1>4. CASE RefundClaim(w) /\ ReturnClaimFree(t)
  <2>1. ret' = [ret EXCEPT ![t].refund = w] /\ Goto(w, "refund_issue")
    BY <1>2, <1>4 DEF RefundClaim
  <2>2. job[w].pc = "refund_claim"
    BY <1>4 DEF RefundClaim, At
  <2>3. JobsTyped
    BY DEF ReturnInv, Typed
  <2>4. /\ job'[w] = Serve("refund_issue", t, job[w].amount)
        /\ \A v \in Workers : v # w => job'[v] = job[v]
    <3>1. Follows(job[w].pc, "refund_issue")
      BY <2>2 DEF Follows, ReturnSteps, MoneySteps, RefundSteps, CancelSteps, Steps
    <3>2. QED
      BY <1>2, <2>1, <2>3, <3>1, GotoTyped
  <2>5. \A v \in Workers : v \in Refunding(r)' <=> v \in Refunding(r) \/ (v = w /\ t = r)
    BY <2>2, <2>4 DEF Refunding, RefundSteps, Serve
  <2>6. CASE t = r
    <3>1. Refunding(r)' = Refunding(r) \cup {w}
      BY <2>5, <2>6 DEF Refunding
    <3>2. ret[r].refund = None /\ ret'[r].refund = w
      BY <1>3, <1>4, <2>1, <2>6 DEF ReturnClaimFree
    <3>3. Claim(r)!Take(w)
      BY <3>1, <3>2 DEF Claim!Take
    <3>4. QED
      BY <3>3 DEF Claim!Next
  <2>7. CASE t # r
    <3>1. Refunding(r)' = Refunding(r)
      BY <2>5, <2>7 DEF Refunding
    <3>2. ret'[r].refund = ret[r].refund
      BY <1>3, <2>1, <2>7
    <3>3. QED
      BY <3>1, <3>2 DEF Claim!vars
  <2>8. QED
    BY <2>6, <2>7
<1>5. CASE RefundClaim(w) /\ ~ReturnClaimFree(t)
  <2>1. Finish(w) /\ UNCHANGED ret
    BY <1>2, <1>5 DEF RefundClaim
  <2>2. ClaimUntouched
    BY <2>1, MovesHome DEF ClaimUntouched
  <2>3. QED
    BY <2>2, UntouchedRefines
<1>6. CASE RefundFinalize(w) \/ RefundRelease(w)
  <2>1. ret[t].refund = w /\ job[w].pc \in RefundSteps
    BY <1>2, <1>6, TargetKnown
       DEF RefundFinalize, RefundRelease, At, RefundSteps, ReturnSteps, JobOn
  <2>2. PICK c \in {Refunded, None} : ret' = [ret EXCEPT ![t].refund = c]
    <3>1. CASE RefundFinalize(w)
      BY <1>2, <2>1, <3>1 DEF RefundFinalize
    <3>2. CASE RefundRelease(w)
      BY <1>2, <2>1, <3>2 DEF RefundRelease
    <3>3. QED
      BY <1>6, <3>1, <3>2
  <2>3. job'[w].pc \notin RefundSteps /\ \A v \in Workers : v # w => job'[v] = job[v]
    <3>1. CASE RefundFinalize(w)
      <4>1. Goto(w, "refund_complete")
        BY <1>2, <2>1, <3>1 DEF RefundFinalize
      <4>2. QED
        BY <4>1 DEF Goto, ReturnInv, Typed, JobsTyped, JobTyped, Serve, RefundSteps
    <3>2. CASE RefundRelease(w)
      BY <3>2, FinishTyped, StepNames DEF RefundRelease, ReturnInv, Typed
    <3>3. QED
      BY <1>6, <3>1, <3>2
  <2>4. \A v \in Workers : v \in Refunding(r)' <=> v \in Refunding(r) /\ v # w
    BY <2>3 DEF Refunding
  <2>5. CASE t = r
    <3>1. w \in Refunding(r)
      BY <1>2, <2>1, <2>5 DEF Refunding
    <3>2. Refunding(r)' = Refunding(r) \ {w}
      BY <2>4 DEF Refunding
    <3>3. ret[r].refund = w /\ ret'[r].refund = c
      BY <1>3, <2>1, <2>2, <2>5
    <3>4. Claim(r)!Finalize(w) \/ Claim(r)!Release(w)
      BY <3>1, <3>2, <3>3 DEF Claim!Finalize, Claim!Release
    <3>5. QED
      BY <3>4 DEF Claim!Next
  <2>6. CASE t # r
    <3>1. w \notin Refunding(r)
      BY <1>2, <2>6 DEF Refunding
    <3>2. Refunding(r)' = Refunding(r)
      BY <2>4, <3>1 DEF Refunding
    <3>3. ret'[r].refund = ret[r].refund
      BY <1>3, <2>2, <2>6
    <3>4. QED
      BY <3>2, <3>3 DEF Claim!vars
  <2>7. QED
    BY <2>5, <2>6
<1>7. QED
  BY <1>4, <1>5, <1>6

\* ... and the others.
LEMMA RefundUntouched ==
  ASSUME ReturnInv, NEW w \in Workers,
         RefundIssue(w) \/ RefundIssueFails(w) \/ RefundComplete(w) \/ Credit(w)
  PROVE  ClaimUntouched
<1>1. \A v \in Workers : job'[v].pc \in RefundSteps =>
        job[v].pc \in RefundSteps /\ job'[v].target = job[v].target
  <2>1. CASE RefundIssue(w) \/ RefundIssueFails(w)
    <3>1. job[w].pc \in RefundSteps /\ \E pc : Goto(w, pc)
      BY <2>1 DEF RefundIssue, RefundIssueFails, At, RefundSteps
    <3>2. QED
      BY <3>1, MovesByGoto
  <2>2. CASE RefundComplete(w) \/ Credit(w)
    BY <2>2, MovesHome DEF RefundComplete, Credit
  <2>3. QED
    BY <2>1, <2>2
<1>2. UNCHANGED ret \/ \E x, st : ret' = [ret EXCEPT ![x].status = st]
  BY DEF RefundIssue, RefundIssueFails, RefundComplete, Credit
<1>3. \A p \in Returns : ret'[p].refund = ret[p].refund
  BY <1>2 DEF ReturnInv, Typed, RowsTyped, ReturnRow
<1>4. QED
  BY <1>1, <1>3 DEF ClaimUntouched

LEMMA StepRefines ==
  ASSUME ReturnInv, [Next]_vars, NEW r \in Returns
  PROVE  [Claim(r)!Next]_(Claim(r)!vars)
<1>1. CASE UNCHANGED vars
  BY <1>1, UntouchedRefines DEF vars, ClaimUntouched
<1>2. ASSUME NEW w \in Workers, Request(w) \/ Cancel(w) \/ Crash(w)
      PROVE  ClaimUntouched
  BY <1>2, RequestUntouched, OthersUntouched
<1>3. ASSUME NEW w \in Workers, Refund(w)
      PROVE  [Claim(r)!Next]_(Claim(r)!vars)
  BY <1>3, RefundUntouched, UntouchedRefines, ClaimRefinesByRefund DEF Refund
<1>4. ASSUME NEW x \in Returns, Reject(x)
      PROVE  ClaimUntouched
  BY <1>4, OthersUntouched
<1>5. QED
  BY <1>1, <1>2, <1>3, <1>4, UntouchedRefines DEF Next

\* The claim on every return implements RefundClaim, as the one on an order
\* does: one request at a time asks Geidea, a finished refund is final, and a
\* request that died never frees the row.
THEOREM ReturnClaimRefines == Spec => ReturnClaimed
<1>1. Init => \A r \in Returns : Claim(r)!Init
  <2>1. ASSUME Init, NEW r \in Returns
        PROVE  ret[r].refund = None /\ Refunding(r) = {}
    BY <2>1 DEF Init, NoReturn, Refunding, RefundSteps, Idle
  <2>2. QED
    BY <2>1 DEF Claim!Init
<1>2. ReturnInv /\ [Next]_vars => [\A r \in Returns : [Claim(r)!Next]_(Claim(r)!vars)]_vars
  BY StepRefines
<1>3. QED
  BY <1>1, <1>2, InvHolds, PTL DEF Spec, ReturnClaimed

(***************************************************************************)
(* Types.  The record of a thread is typed by its step (JobTyped, JobOn);  *)
(* what is missing is what its amount is bounded by.                       *)
(***************************************************************************)
AmountOK(w) ==
  /\ job[w].target \in Orders \cup Returns \cup {None}
  /\ job[w].amount \in 0..Ordered
  /\ job[w].pc \in MoneySteps => job[w].amount <= ret[job[w].target].qty
  /\ job[w].pc \in CancelSteps => job[w].amount > 0

Bounded ==
  /\ order \in [Orders -> [cancelled: BOOLEAN, refund: Claims]]
  /\ \A r \in Returns : RowOK(r)
  /\ back \in [Returns \cup Orders -> Nat]
  /\ \A w \in Workers : AmountOK(w)

LEMMA BoundedTyped ==
  ASSUME ReturnInv, Bounded
  PROVE  TypeOK
<1>1. ASSUME NEW w \in Workers PROVE job[w] \in Job /\ JobOK(job[w])
  <2>1. /\ JobTyped(job[w]) /\ JobOn(w) /\ AmountOK(w)
        /\ \A r \in Returns : ret[r].qty \in 0..Ordered
    BY DEF ReturnInv, Typed, JobsTyped, JobsOn, Bounded, RowsTyped, ReturnRow
  <2>2. job[w] = [pc |-> job[w].pc, target |-> job[w].target, amount |-> job[w].amount]
    BY <2>1 DEF JobTyped, Serve
  <2>3. job[w] \in Job
    BY <2>1, <2>2 DEF JobTyped, AmountOK, Job
  <2>4. job[w].pc \in MoneySteps => job[w].amount \in 1..ret[job[w].target].qty
    <3>1. MoneySteps \subseteq ReturnSteps
      BY StepNames
    <3>2. QED
      BY <2>1, <3>1, OrderedAssumption DEF JobTyped, AmountOK
  <2>5. MoneySteps = RefundSteps \cup {"refund_claim", "refund_complete", "credit"}
    BY DEF MoneySteps
  <2>6. job[w].pc = "create" => job[w].target \in Orders /\ job[w].amount > 0
    BY <2>1, OrderedAssumption DEF JobTyped
  <2>7. JobOK(job[w])
    BY <2>1, <2>4, <2>5, <2>6 DEF JobOK, JobTyped, JobOn, AmountOK
  <2>8. QED
    BY <2>3, <2>7
<1>2. job \in [Workers -> Job]
  BY <1>1 DEF ReturnInv, Typed, JobsTyped
<1>3. QED
  BY <1>1, <1>2 DEF TypeOK, Bounded, ReturnInv, Typed, RowsTyped

\* What a cancellation refunds is what the refunded returns left of the order.
LEMMA RemainingTyped ==
  ASSUME ReturnInv, NEW o \in Orders
  PROVE  Remaining(o) \in 0..Ordered
<1>1. RefundedReturns(o) \subseteq Returns
  BY DEF RefundedReturns
<1>2. \A r \in RefundedReturns(o) : Quantities[r] \in Nat
  BY <1>1, OrderedAssumption DEF Quantities, ReturnInv, Typed, RowsTyped, ReturnRow
<1>3. IsFiniteSet(RefundedReturns(o))
  BY <1>1, ReturnsAssumption, FS_Subset
<1>4. SumFunctionOnSet(Quantities, RefundedReturns(o)) \in Nat
  BY <1>2, <1>3, SumNotNegative
<1>5. QED
  BY <1>4, OrderedAssumption DEF Remaining

\* What a step of w leaves of its own record: nothing, its target and amount,
\* or a new request that is in bounds.
BoundedStep(w) ==
  \/ job'[w] = Idle
  \/ \E next : /\ Follows(job[w].pc, next)
               /\ job'[w] = Serve(next, job[w].target, job[w].amount)
  \/ \E pc \in Steps, x \in Orders \cup Returns, a \in 0..Ordered :
       /\ job'[w] = Serve(pc, x, a)
       /\ pc \in MoneySteps => x \in Returns /\ Exists(x) /\ a <= ret[x].qty
       /\ pc \in CancelSteps => a > 0

\* A return that exists keeps its order and its units.
LinesLast ==
  \A r \in Returns : Exists(r) => ret'[r].qty = ret[r].qty /\ ret'[r].order = ret[r].order

LEMMA AmountsKept ==
  ASSUME ReturnInv, Bounded, LinesLast, NEW w \in Workers, BoundedStep(w),
         \A v \in Workers : v # w => job'[v] = job[v]
  PROVE  \A v \in Workers : AmountOK(v)'
<1>1. ASSUME NEW v \in Workers, job'[v] = job[v] PROVE AmountOK(v)'
  <2>1. AmountOK(v) /\ JobOn(v)
    BY DEF Bounded, ReturnInv, JobsOn
  <2>2. job[v].pc \in MoneySteps => job[v].target \in Returns /\ Exists(job[v].target)
    BY <2>1, TargetKnown, StepNames DEF JobOn
  <2>3. QED
    BY <1>1, <2>1, <2>2 DEF AmountOK, LinesLast
<1>2. AmountOK(w)'
  <2>1. CASE job'[w] = Idle
    BY <2>1, OrderedAssumption DEF AmountOK, Idle, MoneySteps, RefundSteps, CancelSteps
  <2>2. ASSUME NEW next, Follows(job[w].pc, next),
               job'[w] = Serve(next, job[w].target, job[w].amount)
        PROVE  AmountOK(w)'
    <3>1. AmountOK(w)
      BY DEF Bounded
    <3>2. /\ job'[w].pc = next /\ job'[w].target = job[w].target
          /\ job'[w].amount = job[w].amount
      BY <2>2 DEF Serve
    <3>3. /\ next \in MoneySteps => job[w].pc \in MoneySteps
          /\ next \in CancelSteps => job[w].pc \in CancelSteps
      BY <2>2 DEF Follows
    <3>4. job[w].pc \in MoneySteps => job[w].target \in Returns /\ Exists(job[w].target)
      BY TargetKnown, StepNames DEF JobOn
    <3>5. QED
      BY <3>1, <3>2, <3>3, <3>4 DEF AmountOK, LinesLast
  <2>3. ASSUME NEW pc \in Steps, NEW x \in Orders \cup Returns, NEW a \in 0..Ordered,
               job'[w] = Serve(pc, x, a),
               pc \in MoneySteps => x \in Returns /\ Exists(x) /\ a <= ret[x].qty,
               pc \in CancelSteps => a > 0
        PROVE  AmountOK(w)'
    <3>1. job'[w].pc = pc /\ job'[w].target = x /\ job'[w].amount = a
      BY <2>3 DEF Serve
    <3>2. QED
      BY <2>3, <3>1 DEF AmountOK, LinesLast
  <2>4. QED
    BY <2>1, <2>2, <2>3 DEF BoundedStep
<1>3. QED
  BY <1>1, <1>2

LEMMA LinesKept ==
  ASSUME Bounded,
         \A r \in Returns : /\ ret'[r].qty = ret[r].qty /\ ret'[r].order = ret[r].order
                            /\ Exists(r)' => Exists(r)
  PROVE  LinesLast /\ \A r \in Returns : RowOK(r)'
  BY DEF LinesLast, RowOK, Bounded, Exists

LEMMA BoundedStart ==
  ASSUME ReturnInv, NEW w \in Workers, NEW pc \in Steps, NEW x \in Orders \cup Returns,
         NEW a \in 0..Ordered, job' = [job EXCEPT ![w] = Serve(pc, x, a)],
         pc \in MoneySteps => x \in Returns /\ Exists(x) /\ a <= ret[x].qty,
         pc \in CancelSteps => a > 0
  PROVE  BoundedStep(w) /\ \A v \in Workers : v # w => job'[v] = job[v]
<1>1. job'[w] = Serve(pc, x, a) /\ \A v \in Workers : v # w => job'[v] = job[v]
  BY DEF ReturnInv, Typed, JobsTyped
<1>2. QED
  BY <1>1 DEF BoundedStep

LEMMA BoundedGoto ==
  ASSUME ReturnInv, NEW w \in Workers, NEW next, Follows(job[w].pc, next), Goto(w, next)
  PROVE  BoundedStep(w) /\ \A v \in Workers : v # w => job'[v] = job[v]
  BY GotoTyped DEF BoundedStep, ReturnInv, Typed

LEMMA BoundedFinish ==
  ASSUME ReturnInv, NEW w \in Workers, Finish(w)
  PROVE  BoundedStep(w) /\ \A v \in Workers : v # w => job'[v] = job[v]
  BY FinishTyped DEF BoundedStep, ReturnInv, Typed

LEMMA RequestBounded ==
  ASSUME ReturnInv, Bounded, NEW w \in Workers, Request(w)
  PROVE  Bounded'
<1>0. UNCHANGED <<order, back>>
  BY DEF Request, CreateCheck, CreateCommit, Approve, Resync, RefundCheck, ResyncSave,
         Push, PushFails, PushRecordFailure
<1>r. ret \in [Returns -> ReturnRow] /\ \A r \in Returns : ret[r] \in ReturnRow
  BY DEF ReturnInv, Typed, RowsTyped
<1>s. /\ {"create", "push", "push_failed", "resync", "refund_claim", "credit"} \subseteq Steps
      /\ \A pc \in {"create", "push", "push_failed", "resync"} :
           pc \notin MoneySteps /\ pc \notin CancelSteps
      /\ "refund_claim" \notin CancelSteps /\ "credit" \notin CancelSteps
      /\ 0 \in 0..Ordered
  BY OrderedAssumption DEF Steps, MoneySteps, RefundSteps, CancelSteps
<1>t. ASSUME NEW r \in Returns, NEW s, Exists(r), ret' = [ret EXCEPT ![r].status = s]
      PROVE  LinesLast /\ \A p \in Returns : RowOK(p)'
  BY <1>r, <1>t, LinesKept DEF ReturnRow, Exists
<1>1. /\ BoundedStep(w) /\ \A v \in Workers : v # w => job'[v] = job[v]
      /\ LinesLast /\ \A p \in Returns : RowOK(p)'
  <2>1. ASSUME NEW o \in Orders, NEW q \in 1..Ordered, CreateCheck(w, o, q)
        PROVE  /\ BoundedStep(w) /\ \A v \in Workers : v # w => job'[v] = job[v]
               /\ LinesLast /\ \A p \in Returns : RowOK(p)'
    <3>1. job' = [job EXCEPT ![w] = Serve("create", o, q)] /\ UNCHANGED ret
      BY <2>1 DEF CreateCheck, Begin
    <3>2. q \in 0..Ordered
      BY OrderedAssumption
    <3>3. LinesLast /\ \A p \in Returns : RowOK(p)'
      BY <3>1, LinesKept DEF Exists
    <3>4. QED
      BY <1>s, <3>1, <3>2, <3>3, BoundedStart
  <2>2. ASSUME NEW r \in Returns, CreateCommit(w, r)
        PROVE  /\ BoundedStep(w) /\ \A v \in Workers : v # w => job'[v] = job[v]
               /\ LinesLast /\ \A p \in Returns : RowOK(p)'
    <3>1. /\ job' = [job EXCEPT ![w] = Serve("push", r, 0)]
          /\ ret' = [ret EXCEPT ![r] = NewReturn(job[w].target, job[w].amount)]
          /\ ~Exists(r)
      BY <2>2 DEF CreateCommit
    <3>2. job[w].target \in Orders /\ job[w].amount \in 1..Ordered
      BY <2>2 DEF CreateCommit, At, ReturnInv, Typed, JobsTyped, JobTyped
    <3>3. /\ NewReturn(job[w].target, job[w].amount).order = job[w].target
          /\ NewReturn(job[w].target, job[w].amount).qty = job[w].amount
      BY DEF NewReturn, NoReturn
    <3>4. LinesLast
      BY <1>r, <3>1 DEF LinesLast
    <3>5. \A p \in Returns : RowOK(p)'
      <4>1. \A p \in Returns : ret'[p] = IF p = r THEN NewReturn(job[w].target, job[w].amount)
                                                  ELSE ret[p]
        BY <1>r, <3>1
      <4>2. QED
        BY <3>2, <3>3, <4>1, OrderedAssumption DEF RowOK, Bounded
    <3>6. QED
      BY <1>s, <3>1, <3>4, <3>5, BoundedStart
  <2>3. ASSUME NEW r \in Returns, Approve(w, r)
        PROVE  /\ BoundedStep(w) /\ \A v \in Workers : v # w => job'[v] = job[v]
               /\ LinesLast /\ \A p \in Returns : RowOK(p)'
    <3>1. job' = [job EXCEPT ![w] = Serve("push", r, 0)]
      BY <2>3 DEF Approve, Begin
    <3>2. LinesLast /\ \A p \in Returns : RowOK(p)'
      BY <1>t, <2>3 DEF Approve, ApprovableStatuses, Exists
    <3>3. QED
      BY <1>s, <3>1, <3>2, BoundedStart
  <2>4. ASSUME NEW r \in Returns, Resync(w, r)
        PROVE  /\ BoundedStep(w) /\ \A v \in Workers : v # w => job'[v] = job[v]
               /\ LinesLast /\ \A p \in Returns : RowOK(p)'
    <3>1. PICK pc \in {"push", "resync"} : job' = [job EXCEPT ![w] = Serve(pc, r, 0)]
      BY <2>4 DEF Resync, Begin
    <3>2. LinesLast /\ \A p \in Returns : RowOK(p)'
      BY <2>4, LinesKept DEF Resync, Exists
    <3>3. QED
      BY <1>s, <3>1, <3>2, BoundedStart
  <2>5. ASSUME NEW r \in Returns, RefundCheck(w, r)
        PROVE  /\ BoundedStep(w) /\ \A v \in Workers : v # w => job'[v] = job[v]
               /\ LinesLast /\ \A p \in Returns : RowOK(p)'
    <3>1. PICK pc \in {"refund_claim", "credit"}, a \in 1..ret[r].qty :
                 job' = [job EXCEPT ![w] = Serve(pc, r, a)]
      BY <2>5 DEF RefundCheck, RefundAmounts, Begin
    <3>2. LinesLast /\ \A p \in Returns : RowOK(p)'
      BY <2>5, LinesKept DEF RefundCheck, Exists
    <3>3. Exists(r) /\ a \in 0..Ordered /\ a <= ret[r].qty
      <4>1. ret[r].qty \in 0..Ordered
        BY <1>r DEF ReturnRow
      <4>2. QED
        BY <2>5, <4>1, OrderedAssumption DEF RefundCheck, Refundable, Exists
    <3>4. QED
      BY <1>s, <3>1, <3>2, <3>3, BoundedStart
  <2>6. CASE ResyncSave(w) \/ PushRecordFailure(w)
    <3>1. job[w].pc \in {"resync", "push_failed"}
      BY <2>6 DEF ResyncSave, PushRecordFailure, At
    <3>2. PICK r \in Returns : r = job[w].target
      BY <3>1, TargetKnown DEF ReturnSteps
    <3>3. Exists(r)
      BY <3>1, <3>2, TargetKnown DEF ReturnSteps, JobOn
    <3>4. LinesLast /\ \A p \in Returns : RowOK(p)'
      BY <1>t, <2>6, <3>2, <3>3 DEF ResyncSave, PushRecordFailure
    <3>5. CASE ResyncSave(w)
      <4>1. Follows(job[w].pc, "push")
        BY <3>1 DEF Follows, ReturnSteps, MoneySteps, RefundSteps, CancelSteps, Steps
      <4>2. QED
        BY <3>4, <3>5, <4>1, BoundedGoto DEF ResyncSave
    <3>6. CASE PushRecordFailure(w)
      BY <3>4, <3>6, BoundedFinish DEF PushRecordFailure
    <3>7. QED
      BY <2>6, <3>5, <3>6
  <2>7. CASE Push(w)
    <3>1. UNCHANGED ret \/ \E r : ret' = [ret EXCEPT ![r].salesreturn = TRUE]
      BY <2>7 DEF Push
    <3>2. LinesLast /\ \A p \in Returns : RowOK(p)'
      BY <1>r, <3>1, LinesKept DEF ReturnRow, Exists
    <3>3. QED
      BY <2>7, <3>2, BoundedFinish DEF Push
  <2>8. CASE PushFails(w)
    <3>1. job[w].pc = "push" /\ UNCHANGED ret /\ Goto(w, "push_failed")
      BY <2>8 DEF PushFails, At
    <3>2. Follows(job[w].pc, "push_failed")
      BY <3>1 DEF Follows, ReturnSteps, MoneySteps, RefundSteps, CancelSteps, Steps
    <3>3. LinesLast /\ \A p \in Returns : RowOK(p)'
      BY <3>1, LinesKept DEF Exists
    <3>4. QED
      BY <3>1, <3>2, <3>3, BoundedGoto
  <2>9. QED
    BY <2>1, <2>2, <2>3, <2>4, <2>5, <2>6, <2>7, <2>8 DEF Request
<1>2. \A v \in Workers : AmountOK(v)'
  BY <1>1, AmountsKept
<1>3. QED
  BY <1>0, <1>1, <1>2 DEF Bounded

LEMMA BackKept ==
  ASSUME ReturnInv, Bounded, NEW x \in Returns \cup Orders, NEW a \in 0..Ordered, NEW o,
         GiveBack(o, x, a) \/ GiveBackFails(o, x, a)
  PROVE  back' \in [Returns \cup Orders -> Nat]
<1>1. UNCHANGED back \/ back' = [back EXCEPT ![x] = @ + a]
  BY DEF GiveBack, GiveBackFails
<1>2. QED
  BY <1>1, OrderedAssumption DEF Bounded

LEMMA RefundBounded ==
  ASSUME ReturnInv, Bounded, NEW w \in Workers, Refund(w)
  PROVE  Bounded'
<1>r. ret \in [Returns -> ReturnRow] /\ \A r \in Returns : ret[r] \in ReturnRow
  BY DEF ReturnInv, Typed, RowsTyped
<1>1. job[w].pc \in {"refund_claim", "refund_issue", "refund_finalize", "refund_release",
                     "refund_complete", "credit"}
  BY DEF Refund, RefundClaim, RefundIssue, RefundIssueFails, RefundFinalize,
         RefundRelease, RefundComplete, Credit, At
<1>2. PICK t \in Returns : t = job[w].target
  BY <1>1, TargetKnown DEF ReturnSteps
<1>3. Exists(t) /\ job[w].amount \in 0..Ordered
  BY <1>1, <1>2, TargetKnown DEF ReturnSteps, JobOn, Bounded, AmountOK
<1>4. BoundedStep(w) /\ \A v \in Workers : v # w => job'[v] = job[v]
  <2>1. Finish(w) \/ \E next \in {"refund_issue", "refund_finalize", "refund_release",
                                  "refund_complete"} : Goto(w, next)
    <3>1. CASE RefundClaim(w) \/ RefundIssue(w) \/ RefundIssueFails(w)
      BY <3>1 DEF RefundClaim, RefundIssue, RefundIssueFails
    <3>2. CASE RefundFinalize(w)
      BY <3>2 DEF RefundFinalize
    <3>3. CASE RefundRelease(w) \/ RefundComplete(w) \/ Credit(w)
      BY <3>3 DEF RefundRelease, RefundComplete, Credit
    <3>4. QED
      BY <3>1, <3>2, <3>3 DEF Refund
  <2>2. \A next \in {"refund_issue", "refund_finalize", "refund_release",
                     "refund_complete"} : Follows(job[w].pc, next)
    BY <1>1 DEF Follows, ReturnSteps, MoneySteps, RefundSteps, CancelSteps, Steps
  <2>3. QED
    BY <2>1, <2>2, BoundedGoto, BoundedFinish
<1>5. LinesLast /\ \A p \in Returns : RowOK(p)'
  <2>1. \/ UNCHANGED ret
        \/ \E s : ret' = [ret EXCEPT ![t].status = s]
        \/ \E c : ret' = [ret EXCEPT ![t].refund = c]
    <3>1. CASE RefundClaim(w) \/ RefundIssue(w) \/ RefundIssueFails(w)
      BY <1>2, <3>1 DEF RefundClaim, RefundIssue, RefundIssueFails
    <3>2. CASE RefundFinalize(w) \/ RefundRelease(w)
      BY <1>2, <3>2 DEF RefundFinalize, RefundRelease
    <3>3. CASE RefundComplete(w) \/ Credit(w)
      BY <1>2, <3>3 DEF RefundComplete, Credit
    <3>4. QED
      BY <3>1, <3>2, <3>3 DEF Refund
  <2>2. \A r \in Returns : /\ ret'[r].qty = ret[r].qty /\ ret'[r].order = ret[r].order
                           /\ r # t => ret'[r].status = ret[r].status
    BY <1>r, <2>1 DEF ReturnRow
  <2>3. QED
    BY <1>3, <2>2, LinesKept DEF Exists
<1>6. back' \in [Returns \cup Orders -> Nat] /\ UNCHANGED order
  <2>1. CASE RefundIssue(w) \/ RefundIssueFails(w)
    BY <1>2, <1>3, <2>1, BackKept DEF RefundIssue, RefundIssueFails
  <2>2. CASE RefundClaim(w) \/ RefundFinalize(w) \/ RefundRelease(w) \/ RefundComplete(w)
             \/ Credit(w)
    BY <2>2 DEF RefundClaim, RefundFinalize, RefundRelease, RefundComplete, Credit, Bounded
  <2>3. QED
    BY <2>1, <2>2 DEF Refund, RefundIssue, RefundIssueFails
<1>7. \A v \in Workers : AmountOK(v)'
  BY <1>4, <1>5, AmountsKept
<1>8. QED
  BY <1>5, <1>6, <1>7 DEF Bounded

LEMMA CancelBounded ==
  ASSUME ReturnInv, Bounded, NEW w \in Workers, Cancel(w) \/ Crash(w)
  PROVE  Bounded'
<1>1. UNCHANGED ret /\ LinesLast /\ \A r \in Returns : RowOK(r)'
  <2>1. UNCHANGED ret
    BY DEF Cancel, CancelCheck, CancelIssue, CancelIssueFails, CancelFinalize,
           CancelRelease, CancelCommit, Crash
  <2>2. QED
    BY <2>1, LinesKept DEF Exists
<1>c. w \in Claims /\ Refunded \in Claims /\ None \in Claims
  BY DEF Claims
<1>2. /\ BoundedStep(w) /\ \A v \in Workers : v # w => job'[v] = job[v]
      /\ order' \in [Orders -> [cancelled: BOOLEAN, refund: Claims]]
      /\ back' \in [Returns \cup Orders -> Nat]
  <2>1. ASSUME NEW o \in Orders, CancelCheck(w, o)
        PROVE  /\ BoundedStep(w) /\ \A v \in Workers : v # w => job'[v] = job[v]
               /\ order' \in [Orders -> [cancelled: BOOLEAN, refund: Claims]]
               /\ back' \in [Returns \cup Orders -> Nat]
    <3>1. UNCHANGED back
      BY <2>1 DEF CancelCheck
    <3>2. order' \in [Orders -> [cancelled: BOOLEAN, refund: Claims]]
      BY <1>c, <2>1 DEF CancelCheck, Bounded
    <3>3. PICK pc \in {"cancel_issue", "cancel_commit"}, a \in 0..Ordered :
                 /\ job' = [job EXCEPT ![w] = Serve(pc, o, a)]
                 /\ pc = "cancel_issue" => a > 0
      BY <2>1, RemainingTyped, OrderedAssumption DEF CancelCheck, CancelNeedsRefund, Begin
    <3>4. pc \in Steps /\ pc \notin MoneySteps /\ (pc \in CancelSteps => a > 0)
      BY <3>3 DEF Steps, MoneySteps, RefundSteps, CancelSteps
    <3>5. BoundedStep(w) /\ \A v \in Workers : v # w => job'[v] = job[v]
      BY <3>3, <3>4, BoundedStart
    <3>6. QED
      BY <3>1, <3>2, <3>5 DEF Bounded
  <2>2. CASE CancelIssue(w) \/ CancelIssueFails(w)
    <3>1. job[w].pc = "cancel_issue" /\ job[w].target \in Orders /\ job[w].amount \in 0..Ordered
      BY <2>2 DEF CancelIssue, CancelIssueFails, At, CancelSteps, ReturnInv, Typed,
                  JobsTyped, JobTyped, Bounded, AmountOK
    <3>2. back' \in [Returns \cup Orders -> Nat]
      BY <2>2, <3>1, BackKept DEF CancelIssue, CancelIssueFails
    <3>3. PICK next \in {"cancel_finalize", "cancel_release"} : Goto(w, next)
      BY <2>2 DEF CancelIssue, CancelIssueFails
    <3>4. Follows(job[w].pc, next)
      BY <3>1 DEF Follows, ReturnSteps, MoneySteps, RefundSteps, CancelSteps, Steps
    <3>5. UNCHANGED order
      BY <2>2 DEF CancelIssue, CancelIssueFails
    <3>6. QED
      BY <3>2, <3>3, <3>4, <3>5, BoundedGoto DEF Bounded
  <2>3. CASE CancelFinalize(w)
    <3>1. job[w].pc = "cancel_finalize"
      BY <2>3 DEF CancelFinalize, At
    <3>2. PICK next \in {"cancel_commit", "cancel_release"} : Goto(w, next)
      BY <2>3 DEF CancelFinalize
    <3>3. Follows(job[w].pc, next)
      BY <3>1 DEF Follows, ReturnSteps, MoneySteps, RefundSteps, CancelSteps, Steps
    <3>4. order' \in [Orders -> [cancelled: BOOLEAN, refund: Claims]]
      BY <1>c, <2>3 DEF CancelFinalize, Bounded
    <3>5. UNCHANGED back
      BY <2>3 DEF CancelFinalize
    <3>6. QED
      BY <3>2, <3>3, <3>4, <3>5, BoundedGoto DEF Bounded
  <2>4. CASE CancelRelease(w) \/ CancelCommit(w) \/ Crash(w)
    <3>1. Finish(w) /\ UNCHANGED back
      BY <2>4 DEF CancelRelease, CancelCommit, Crash
    <3>2. order' \in [Orders -> [cancelled: BOOLEAN, refund: Claims]]
      BY <1>c, <2>4 DEF CancelRelease, CancelCommit, Crash, Bounded
    <3>3. QED
      BY <3>1, <3>2, BoundedFinish DEF Bounded
  <2>5. QED
    BY <2>1, <2>2, <2>3, <2>4 DEF Cancel
<1>3. \A v \in Workers : AmountOK(v)'
  BY <1>1, <1>2, AmountsKept
<1>4. QED
  BY <1>1, <1>2, <1>3 DEF Bounded

LEMMA RejectBounded ==
  ASSUME ReturnInv, Bounded, NEW r \in Returns, Reject(r)
  PROVE  Bounded'
<1>1. Exists(r)
  BY DEF Reject, RejectableStatuses, Exists
<1>2. \A p \in Returns : /\ ret'[p].qty = ret[p].qty /\ ret'[p].order = ret[p].order
                         /\ p # r => ret'[p].status = ret[p].status
  BY DEF Reject, ReturnInv, Typed, RowsTyped, ReturnRow
<1>3. LinesLast /\ \A p \in Returns : RowOK(p)'
  BY <1>1, <1>2, LinesKept DEF Exists
<1>4. ASSUME NEW v \in Workers PROVE AmountOK(v)'
  <2>1. AmountOK(v) /\ UNCHANGED job
    BY DEF Bounded, Reject
  <2>2. job[v].pc \in MoneySteps => job[v].target \in Returns /\ Exists(job[v].target)
    BY TargetKnown, StepNames DEF JobOn
  <2>3. QED
    BY <1>3, <2>1, <2>2 DEF AmountOK, LinesLast
<1>5. QED
  BY <1>3, <1>4 DEF Bounded, Reject

LEMMA BoundedKept == ReturnInv /\ Bounded /\ [Next]_vars => Bounded'
<1>1. ReturnInv /\ Bounded /\ UNCHANGED vars => Bounded'
  BY DEF Bounded, RowOK, AmountOK, vars
<1>2. QED
  BY <1>1, RequestBounded, RefundBounded, CancelBounded, RejectBounded DEF Next

LEMMA BoundedHolds == Spec => []Bounded
<1>1. Init => Bounded
  <2> SUFFICES ASSUME Init PROVE Bounded
    OBVIOUS
  <2>1. \A w \in Workers : AmountOK(w)
    BY OrderedAssumption DEF Init, AmountOK, Idle, MoneySteps, RefundSteps, CancelSteps
  <2>2. \A r \in Returns : RowOK(r)
    BY DEF Init, RowOK, NoReturn
  <2>3. order \in [Orders -> [cancelled: BOOLEAN, refund: Claims]]
    BY DEF Init, Claims
  <2>4. back \in [Returns \cup Orders -> Nat]
    BY DEF Init
  <2>5. QED
    BY <2>1, <2>2, <2>3, <2>4 DEF Bounded
<1>2. QED
  BY <1>1, BoundedKept, InvHolds, PTL DEF Spec

\* Every row and every request is of its type: a request in flight works on an
\* order or a return that exists, a refund asks for at most the units that came
\* back, and a cancellation for what the refunded returns left of the order.
THEOREM ReturnsTyped == Spec => []TypeOK
  BY InvHolds, BoundedHolds, BoundedTyped, PTL

(***************************************************************************)
(* Money: who holds the claim is the only one to move it, and what it did  *)
(* with Geidea shows in the step it is at.                                 *)
(***************************************************************************)
MoneyOn(w) ==
  LET r == job[w].target IN
  /\ job[w].pc \in {"refund_issue", "refund_release"} => back[r] = 0
  /\ job[w].pc = "refund_finalize" => back[r] > 0

MoneyInv == CardRefundedOnce /\ \A w \in Workers : MoneyOn(w)

\* Two requests are not in the refund of one return.
LEMMA OneInside ==
  ASSUME ReturnInv, NEW v \in Workers, NEW w \in Workers, job[v].pc \in RefundSteps,
         job[w].pc \in RefundSteps, job[v].target = job[w].target
  PROVE  v = w
  BY DEF ReturnInv, JobsOn, JobOn

\* A step that moves no money of a return, and leaves claims and units alone.
LEMMA MoneyUntouched ==
  ASSUME ReturnInv, MoneyInv, ClaimUntouched,
         \A v \in Workers : job'[v].pc \in RefundSteps => job'[v] = job[v],
         \A r \in Returns : back'[r] = back[r],
         \A r \in Returns : ret'[r].qty = ret[r].qty \/ (back[r] = 0 /\ ret'[r].qty \in Nat)
  PROVE  MoneyInv'
<1>1. CardRefundedOnce'
  BY DEF MoneyInv, CardRefundedOnce, ClaimUntouched
<1>2. ASSUME NEW v \in Workers, job'[v].pc \in RefundSteps
      PROVE  MoneyOn(v)'
  <2>1. job'[v] = job[v] /\ job[v].target \in Returns /\ MoneyOn(v)
    BY <1>2, TargetKnown, StepNames DEF MoneyInv
  <2>2. QED
    BY <2>1 DEF MoneyOn
<1>3. \A v \in Workers : MoneyOn(v)'
  BY <1>2 DEF MoneyOn, RefundSteps
<1>4. QED
  BY <1>1, <1>3 DEF MoneyInv

LEMMA OthersStay ==
  ASSUME NEW w \in Workers, ClaimUntouched, job[w].pc \notin RefundSteps,
         \A v \in Workers : v # w => job'[v] = job[v]
  PROVE  \A v \in Workers : job'[v].pc \in RefundSteps => job'[v] = job[v]
  BY DEF ClaimUntouched

\* A thread that moves leaves the records of the others alone.
LEMMA OneMoves ==
  ASSUME ReturnInv, NEW w \in Workers, Request(w) \/ Refund(w) \/ Cancel(w) \/ Crash(w)
  PROVE  \A v \in Workers : v # w => job'[v] = job[v]
<1>1. \E j : job' = [job EXCEPT ![w] = j]
  <2>1. CASE Request(w)
    BY <2>1 DEF Request, CreateCheck, CreateCommit, Approve, Resync, RefundCheck, ResyncSave,
                Push, PushFails, PushRecordFailure, Begin, Goto, Finish
  <2>2. CASE Refund(w)
    BY <2>2 DEF Refund, RefundClaim, RefundIssue, RefundIssueFails, RefundFinalize,
                RefundRelease, RefundComplete, Credit, Goto, Finish
  <2>3. CASE Cancel(w) \/ Crash(w)
    BY <2>3 DEF Cancel, CancelCheck, CancelIssue, CancelIssueFails, CancelFinalize,
                CancelRelease, CancelCommit, Crash, Begin, Goto, Finish
  <2>4. QED
    BY <2>1, <2>2, <2>3
<1>2. QED
  BY <1>1 DEF ReturnInv, Typed, JobsTyped

LEMMA RequestMoney ==
  ASSUME ReturnInv, ReturnInv', MoneyInv, NEW w \in Workers, Request(w)
  PROVE  MoneyInv'
<1>1. job[w].pc \notin RefundSteps
  BY DEF Request, CreateCheck, CreateCommit, Approve, Resync, RefundCheck, ResyncSave,
         Push, PushFails, PushRecordFailure, Begin, At, Idle, RefundSteps
<1>2. ClaimUntouched /\ \A v \in Workers : v # w => job'[v] = job[v]
  BY RequestUntouched, OneMoves
<1>3. UNCHANGED back
  BY DEF Request, CreateCheck, CreateCommit, Approve, Resync, RefundCheck, ResyncSave,
         Push, PushFails, PushRecordFailure
<1>4. ASSUME NEW r \in Returns
      PROVE  ret'[r].qty = ret[r].qty \/ (back[r] = 0 /\ ret'[r].qty \in Nat)
  <2>1. /\ ret \in [Returns -> ReturnRow] /\ ret[r] \in ReturnRow
        /\ ret'[r].qty \in Nat
    BY OrderedAssumption DEF ReturnInv, Typed, RowsTyped, ReturnRow
  <2>2. ASSUME NEW x \in Returns, CreateCommit(w, x)
        PROVE  ret'[r].qty = ret[r].qty \/ back[r] = 0
    BY <2>1, <2>2 DEF CreateCommit, Exists, ReturnInv, NothingBeforeApproval
  <2>3. CASE \/ \E x, s : ret' = [ret EXCEPT ![x].status = s]
             \/ \E x : ret' = [ret EXCEPT ![x].salesreturn = TRUE]
             \/ UNCHANGED ret
    BY <2>1, <2>3 DEF ReturnRow
  <2>4. \/ \E x \in Returns : CreateCommit(w, x)
        \/ \E x, s : ret' = [ret EXCEPT ![x].status = s]
        \/ \E x : ret' = [ret EXCEPT ![x].salesreturn = TRUE]
        \/ UNCHANGED ret
    BY DEF Request, CreateCheck, Approve, Resync, RefundCheck, ResyncSave, Push, PushFails,
           PushRecordFailure
  <2>5. QED
    BY <2>1, <2>2, <2>3, <2>4
<1>5. QED
  BY <1>1, <1>2, <1>3, <1>4, OthersStay, MoneyUntouched

LEMMA CancelMoney ==
  ASSUME ReturnInv, MoneyInv
  PROVE  /\ \A w \in Workers : Cancel(w) \/ Crash(w) => MoneyInv'
         /\ \A r \in Returns : Reject(r) => MoneyInv'
<1>1. ASSUME NEW w \in Workers, Cancel(w) \/ Crash(w)
      PROVE  MoneyInv'
  <2>1. ClaimUntouched /\ \A v \in Workers : v # w => job'[v] = job[v]
    BY <1>1, OthersUntouched, OneMoves
  <2>2. UNCHANGED ret
    BY <1>1 DEF Cancel, CancelCheck, CancelIssue, CancelIssueFails, CancelFinalize,
                CancelRelease, CancelCommit, Crash
  <2>3. \A r \in Returns : back'[r] = back[r]
    <3>1. CASE CancelIssue(w) \/ CancelIssueFails(w)
      <4>1. job[w].target \in Orders
        BY <3>1 DEF CancelIssue, CancelIssueFails, At, CancelSteps, ReturnInv, Typed,
                    JobsTyped, JobTyped
      <4>2. UNCHANGED back \/ \E a : back' = [back EXCEPT ![job[w].target] = @ + a]
        BY <3>1 DEF CancelIssue, CancelIssueFails, GiveBack, GiveBackFails
      <4>3. QED
        BY <4>1, <4>2, ValueAssumption DEF ReturnInv, Typed, RowsTyped
    <3>2. CASE UNCHANGED back
      BY <3>2
    <3>3. QED
      BY <1>1, <3>1, <3>2 DEF Cancel, CancelCheck, CancelFinalize, CancelRelease,
                              CancelCommit, Crash
  <2>4. \A v \in Workers : job'[v].pc \in RefundSteps => job'[v] = job[v]
    <3>1. CASE Crash(w)
      BY <2>1, <3>1, FinishTyped, StepNames DEF Crash, ReturnInv, Typed
    <3>2. CASE Cancel(w)
      <4>1. job[w].pc \notin RefundSteps
        BY <3>2 DEF Cancel, CancelCheck, CancelIssue, CancelIssueFails, CancelFinalize,
                    CancelRelease, CancelCommit, Begin, At, Idle, RefundSteps
      <4>2. QED
        BY <2>1, <4>1, OthersStay
    <3>3. QED
      BY <1>1, <3>1, <3>2
  <2>5. QED
    BY <2>1, <2>2, <2>3, <2>4, MoneyUntouched
<1>2. ASSUME NEW r \in Returns, Reject(r)
      PROVE  MoneyInv'
  <2>1. ClaimUntouched
    BY <1>2, OthersUntouched
  <2>2. UNCHANGED <<job, back>> /\ \A p \in Returns : ret'[p].qty = ret[p].qty
    BY <1>2 DEF Reject, ReturnInv, Typed, RowsTyped, ReturnRow
  <2>3. QED
    BY <2>1, <2>2, MoneyUntouched
<1>3. QED
  BY <1>1, <1>2

\* The steps of a refund, none of whose answers is lost.
LEMMA RefundMoney ==
  ASSUME ReturnInv, Bounded, MoneyInv, "lost" \notin Faults, NEW w \in Workers, Refund(w)
  PROVE  MoneyInv'
<1>r. ret \in [Returns -> ReturnRow] /\ \A r \in Returns : ret[r] \in ReturnRow
  BY DEF ReturnInv, Typed, RowsTyped
<1>1. job[w].pc \in {"refund_claim", "refund_issue", "refund_finalize", "refund_release",
                     "refund_complete", "credit"}
  BY DEF Refund, RefundClaim, RefundIssue, RefundIssueFails, RefundFinalize,
         RefundRelease, RefundComplete, Credit, At
<1>2. PICK t \in Returns : t = job[w].target
  BY <1>1, TargetKnown DEF ReturnSteps
<1>3. \A v \in Workers : v # w => job'[v] = job[v]
  BY OneMoves
<1>4. job[w].pc \in RefundSteps =>
        /\ ret[t].refund = w
        /\ \A v \in Workers : v # w /\ job[v].pc \in RefundSteps => job[v].target # t
  BY <1>2, OneInside DEF ReturnInv, JobsOn, JobOn
<1>v. w # None /\ w # Refunded /\ None # Refunded
  BY ValueAssumption
\* How a step that writes the claim, and no money, keeps the invariant.
<1>5. ASSUME NEW c, ret' = [ret EXCEPT ![t].refund = c], UNCHANGED back,
             c = Refunded => back[t] > 0, c = None => back[t] = 0,
             MoneyOn(w)'
      PROVE  MoneyInv'
  <2>1. \A r \in Returns : /\ ret'[r].qty = ret[r].qty
                           /\ ret'[r].refund = IF r = t THEN c ELSE ret[r].refund
    BY <1>5, <1>r DEF ReturnRow
  <2>2. CardRefundedOnce'
    BY <1>5, <2>1 DEF MoneyInv, CardRefundedOnce
  <2>3. \A v \in Workers : v # w => MoneyOn(v)'
    BY <1>3, <1>5 DEF MoneyInv, MoneyOn
  <2>4. QED
    BY <1>5, <2>2, <2>3 DEF MoneyInv
<1>6. CASE RefundClaim(w)
  <2>1. CASE Finish(w) /\ UNCHANGED ret
    <3>1. ClaimUntouched
      BY <2>1, MovesHome DEF ClaimUntouched
    <3>2. job[w].pc \notin RefundSteps /\ UNCHANGED back
      BY <1>6 DEF RefundClaim, At, RefundSteps
    <3>3. QED
      BY <1>3, <2>1, <3>1, <3>2, OthersStay, MoneyUntouched
  <2>2. CASE /\ ReturnClaimFree(t) /\ ret' = [ret EXCEPT ![t].refund = w]
             /\ Goto(w, "refund_issue")
    <3>1. back[t] = 0 /\ UNCHANGED back
      BY <1>6, <2>2 DEF RefundClaim, ReturnClaimFree, MoneyInv, CardRefundedOnce
    <3>2. job'[w].pc = "refund_issue" /\ job'[w].target = t
      BY <1>2, <2>2 DEF Goto, ReturnInv, Typed, JobsTyped, JobTyped, Serve
    <3>3. MoneyOn(w)'
      BY <3>1, <3>2 DEF MoneyOn
    <3>4. QED
      BY <1>5, <1>v, <2>2, <3>1, <3>3
  <2>3. QED
    BY <1>2, <1>6, <2>1, <2>2 DEF RefundClaim
<1>7. CASE RefundIssue(w)
  <2>1. /\ back[t] = 0 /\ job[w].amount \in 1..Ordered /\ job[w].amount <= ret[t].qty
        /\ ret[t].refund = w
    <3>1. job[w].pc = "refund_issue"
      BY <1>7 DEF RefundIssue, At
    <3>2. MoneyOn(w) /\ AmountOK(w)
      BY DEF MoneyInv, Bounded
    <3>3. QED
      BY <1>2, <1>4, <3>1, <3>2, TargetKnown
         DEF MoneyOn, AmountOK, RefundSteps, MoneySteps, ReturnSteps
  <2>2. /\ \A r \in Returns : back'[r] = IF r = t THEN job[w].amount ELSE back[r]
        /\ UNCHANGED ret
    <3>1. back' = [back EXCEPT ![t] = @ + job[w].amount] /\ UNCHANGED ret
      BY <1>2, <1>7 DEF RefundIssue, GiveBack
    <3>2. QED
      BY <2>1, <3>1, OrderedAssumption DEF Bounded
  <2>3. job'[w].pc = "refund_finalize" /\ job'[w].target = t
    BY <1>2, <1>7 DEF RefundIssue, Goto, ReturnInv, Typed, JobsTyped, JobTyped, Serve
  <2>4. CardRefundedOnce'
    BY <1>v, <2>1, <2>2 DEF MoneyInv, CardRefundedOnce
  <2>5. MoneyOn(w)'
    BY <2>1, <2>2, <2>3, OrderedAssumption DEF MoneyOn
  <2>6. ASSUME NEW v \in Workers, v # w PROVE MoneyOn(v)'
    <3>1. job'[v] = job[v] /\ MoneyOn(v)
      BY <1>3, <2>6 DEF MoneyInv
    <3>2. job[v].pc \in RefundSteps => job[v].target \in Returns /\ job[v].target # t
      BY <1>4, <1>7, <2>6, TargetKnown, StepNames DEF RefundIssue, At, RefundSteps
    <3>3. QED
      BY <2>2, <3>1, <3>2 DEF MoneyOn, RefundSteps
  <2>7. QED
    BY <2>4, <2>5, <2>6 DEF MoneyInv
<1>8. CASE RefundIssueFails(w)
  <2>1. job[w].pc = "refund_issue" /\ UNCHANGED <<ret, back>>
    BY <1>8 DEF RefundIssueFails, GiveBackFails, At
  <2>2. back[t] = 0
    BY <1>2, <2>1 DEF MoneyInv, MoneyOn
  <2>3. job'[w].pc = "refund_release" /\ job'[w].target = t
    BY <1>2, <1>8 DEF RefundIssueFails, Goto, ReturnInv, Typed, JobsTyped, JobTyped, Serve
  <2>4. MoneyOn(w)'
    BY <2>1, <2>2, <2>3 DEF MoneyOn
  <2>5. CardRefundedOnce' /\ \A v \in Workers : v # w => MoneyOn(v)'
    BY <1>3, <2>1 DEF MoneyInv, CardRefundedOnce, MoneyOn
  <2>6. QED
    BY <2>4, <2>5 DEF MoneyInv
<1>9. CASE RefundFinalize(w)
  <2>1. /\ ret[t].refund = w /\ back[t] > 0
    BY <1>2, <1>4, <1>9 DEF RefundFinalize, At, RefundSteps, MoneyInv, MoneyOn
  <2>2. /\ ret' = [ret EXCEPT ![t].refund = Refunded] /\ UNCHANGED back
        /\ Goto(w, "refund_complete")
    BY <1>2, <1>9, <2>1 DEF RefundFinalize
  <2>3. job'[w].pc = "refund_complete"
    BY <2>2 DEF Goto, ReturnInv, Typed, JobsTyped, JobTyped, Serve
  <2>4. MoneyOn(w)'
    BY <2>3 DEF MoneyOn
  <2>5. QED
    BY <1>5, <1>v, <2>1, <2>2, <2>4
<1>10. CASE RefundRelease(w)
  <2>1. /\ ret[t].refund = w /\ back[t] = 0
    BY <1>2, <1>4, <1>10 DEF RefundRelease, At, RefundSteps, MoneyInv, MoneyOn
  <2>2. ret' = [ret EXCEPT ![t].refund = None] /\ UNCHANGED back /\ job'[w] = Idle
    BY <1>2, <1>10, <2>1, FinishTyped DEF RefundRelease, ReturnInv, Typed
  <2>3. MoneyOn(w)'
    BY <2>2 DEF MoneyOn, Idle
  <2>4. QED
    BY <1>5, <1>v, <2>1, <2>2, <2>3
<1>11. CASE RefundComplete(w) \/ Credit(w)
  <2>1. ClaimUntouched
    BY <1>11, RefundUntouched
  <2>2. job[w].pc \notin RefundSteps /\ UNCHANGED back
    BY <1>11 DEF RefundComplete, Credit, At, RefundSteps
  <2>3. \A r \in Returns : ret'[r].qty = ret[r].qty
    <3>1. \E s : ret' = [ret EXCEPT ![t].status = s]
      BY <1>2, <1>11 DEF RefundComplete, Credit
    <3>2. QED
      BY <1>r, <3>1 DEF ReturnRow
  <2>4. QED
    BY <1>3, <2>1, <2>2, <2>3, OthersStay, MoneyUntouched
<1>12. QED
  BY <1>6, <1>7, <1>8, <1>9, <1>10, <1>11 DEF Refund

LEMMA MoneyKept ==
  ASSUME "lost" \notin Faults, ReturnInv, ReturnInv', Bounded, MoneyInv, [Next]_vars
  PROVE  MoneyInv'
<1>1. CASE UNCHANGED vars
  BY <1>1 DEF vars, MoneyInv, CardRefundedOnce, MoneyOn
<1>2. QED
  BY <1>1, RequestMoney, RefundMoney, CancelMoney DEF Next

\* If no answer of Geidea is lost, a return is refunded to the card once, for no
\* more than the units that came back; a refund id on the row says that it was,
\* an empty column that it was not, whoever asks at the same time and dies.
THEOREM CardIsRefundedOnce == ("lost" \notin Faults) => (Spec => []CardRefundedOnce)
<1> SUFFICES ASSUME "lost" \notin Faults PROVE Spec => []CardRefundedOnce
  OBVIOUS
<1>1. Init => MoneyInv
  <2> SUFFICES ASSUME Init PROVE MoneyInv
    OBVIOUS
  <2>1. CardRefundedOnce
    BY ValueAssumption DEF Init, CardRefundedOnce, NoReturn
  <2>2. \A w \in Workers : MoneyOn(w)
    BY DEF Init, MoneyOn, Idle
  <2>3. QED
    BY <2>1, <2>2 DEF MoneyInv
<1>2. ReturnInv /\ ReturnInv' /\ Bounded /\ MoneyInv /\ [Next]_vars => MoneyInv'
  BY MoneyKept
<1>3. MoneyInv => CardRefundedOnce
  BY DEF MoneyInv
<1>4. QED
  BY <1>1, <1>2, <1>3, InvHolds, BoundedHolds, PTL DEF Spec
=============================================================================
