--------------------------- MODULE Delivery_proofs ---------------------------
(***************************************************************************)
(* TypeOK, CardDeliveredIsPaid, CashPaidIsBooked, JournalsMatchPayments    *)
(* and BookedKeepsInvoice for any number of threads, requests, invoices,   *)
(* sessions and faults.                                                    *)
(*                                                                         *)
(* What makes them hold is the order of the steps in the plans: a step     *)
(* that hands the order over or says that it is paid is never reached      *)
(* without the step before it that charged the card or booked the money.   *)
(* An answered step leaves the plan, so PlanFits speaks of the steps that  *)
(* are left, and of what the row and Books say by now.                     *)
(***************************************************************************)
EXTENDS Delivery, SequenceTheorems, FiniteSetTheorems, TLAPS

CardGates == {"charge", "verify"}
CashGates == {"post", "mark_post"}
Settles == {"save", "cash", "mark_save"}
CardSteps == {"session", "given", "charge", "verify"}

\* None of these steps is taken before one of the gates.
Before(gates, steps, plan) ==
  \A k \in 1..Len(plan) : plan[k] \in steps => \E j \in 1..(k - 1) : plan[j] \in gates

\* A stage is only ever written by the next step.
WriteFirst(plan) == \A k \in 1..Len(plan) : plan[k] = "write" => k = 1

Pairs == {<<"mail", "mailed">>, <<"charge_journal", "charge_log">>,
          <<"vat_journal", "vat_log">>}

\* A step that may be skipped together with the next one.
Followed(plan) ==
  \A k \in 1..Len(plan), pair \in Pairs :
    plan[k] = pair[1] => k < Len(plan) /\ plan[k + 1] = pair[2]

PlanFits(plan, target, row, payments) ==
  /\ WriteFirst(plan)
  /\ Followed(plan)
  /\ row.method = Card /\ ~row.paid =>
       /\ Before(CardGates, {"deliver"}, plan)
       /\ plan # <<>> /\ Head(plan) = "write" => target # "delivered"
  /\ row.method = Cash =>
       /\ \A k \in 1..Len(plan) : plan[k] \notin CardSteps
       /\ payments = 0 => Before(CashGates, Settles, plan)

\* What the row says, for a number of payments booked and the sessions in which was paid.
RowFits(row, payments, taps) ==
  /\ row.method = Card /\ row.stage = "delivered" => row.paid
  /\ row.method = Cash => row.ref = 0 /\ (row.paid \/ row.payment => payments > 0)
  /\ taps \subseteq 1..row.ref

Gated ==
  /\ TypeOK
  /\ RowFits(order, booked.payments, charged)
  /\ \A w \in Workers : PlanFits(job[w].plan, job[w].target, order, booked.payments)

-----------------------------------------------------------------------------
(***************************************************************************)
(* Plans.                                                                  *)
(***************************************************************************)
LEMMA RestOfPlan ==
  ASSUME NEW S, NEW s \in Seq(S), s # <<>>
  PROVE  /\ Tail(s) \in Seq(S) /\ Len(s) \in Nat \ {0} /\ Len(Tail(s)) = Len(s) - 1
         /\ \A k \in 1..Len(Tail(s)) : Tail(s)[k] = s[k + 1]
         /\ Head(s) = s[1] /\ s[1] \in S
OBVIOUS

\* A step is done: a gate only if what it stands for was done.
LEMMA TailFits ==
  ASSUME NEW s \in Seq(Steps), s # <<>>, NEW t, NEW t2, NEW row, NEW row2,
         NEW p \in Nat, NEW p2 \in Nat,
         PlanFits(s, t, row, p),
         row2.method = row.method, row.paid => row2.paid, p2 >= p,
         row.method = Card /\ Head(s) \in CardGates => row2.paid,
         Head(s) \in CashGates => p2 > 0
  PROVE  PlanFits(Tail(s), t2, row2, p2)
<1> DEFINE r == Tail(s)
<1>1. /\ r \in Seq(Steps) /\ Len(s) \in Nat \ {0} /\ Len(r) = Len(s) - 1
      /\ \A k \in 1..Len(r) : r[k] = s[k + 1]
      /\ Head(s) = s[1]
  BY RestOfPlan
<1> HIDE DEF r
<1>2. WriteFirst(r) /\ \A k \in 1..Len(r) : r[k] # "write"
  BY <1>1 DEF PlanFits, WriteFirst
<1>3. Followed(r)
  BY <1>1 DEF PlanFits, Followed
<1>4. ASSUME NEW gates, NEW steps, Before(gates, steps, s), Head(s) \notin gates
      PROVE  Before(gates, steps, r)
  <2>1. ASSUME NEW k \in 1..Len(r), r[k] \in steps PROVE \E j \in 1..(k - 1) : r[j] \in gates
    <3>1. k + 1 \in 1..Len(s) /\ s[k + 1] \in steps
      BY <1>1, <2>1
    <3>2. PICK j \in 1..k : s[j] \in gates
      BY <3>1, <1>4 DEF Before
    <3>3. j # 1
      BY <3>2, <1>1, <1>4
    <3>4. j - 1 \in 1..(k - 1) /\ r[j - 1] = s[j]
      BY <1>1, <2>1, <3>2, <3>3, SMTT(60)
    <3>5. QED BY <3>2, <3>4
  <2>2. QED BY <2>1 DEF Before
<1>5. ASSUME row2.method = Card, ~row2.paid
      PROVE  Before(CardGates, {"deliver"}, r) /\ (r # <<>> => Head(r) # "write")
  <2>1. Before(CardGates, {"deliver"}, s) /\ Head(s) \notin CardGates
    BY <1>5 DEF PlanFits
  <2>2. Before(CardGates, {"deliver"}, r)
    BY <2>1, <1>4
  <2>3. r # <<>> => Head(r) # "write"
    BY <1>1, <1>2
  <2>4. QED BY <2>2, <2>3
<1>6. ASSUME row2.method = Cash
      PROVE  /\ \A k \in 1..Len(r) : r[k] \notin CardSteps
             /\ p2 = 0 => Before(CashGates, Settles, r)
  <2>1. \A k \in 1..Len(s) : s[k] \notin CardSteps
    BY <1>6 DEF PlanFits
  <2>2. \A k \in 1..Len(r) : r[k] \notin CardSteps
    BY <2>1, <1>1
  <2>3. ASSUME p2 = 0 PROVE Before(CashGates, Settles, r)
    <3>1. p = 0 /\ Head(s) \notin CashGates
      BY <2>3
    <3>2. Before(CashGates, Settles, s)
      BY <3>1, <1>6 DEF PlanFits
    <3>3. QED BY <3>1, <3>2, <1>4
  <2>4. QED BY <2>2, <2>3
<1>7. QED BY <1>2, <1>3, <1>5, <1>6 DEF PlanFits, r

\* Another thread pays or books.
LEMMA LastingFits ==
  ASSUME NEW s, NEW t, NEW row, NEW row2, NEW p \in Nat, NEW p2 \in Nat,
         PlanFits(s, t, row, p),
         row2.method = row.method, row.paid => row2.paid, p2 >= p
  PROVE  PlanFits(s, t, row2, p2)
BY DEF PlanFits

\* One more step before the others.
LEMMA PrependFits ==
  ASSUME NEW s \in Seq(Steps), NEW x \in Steps, NEW t, NEW t2, NEW row, NEW p \in Nat,
         PlanFits(s, t, row, p),
         \A k \in 1..Len(s) : s[k] # "write",
         x \notin CardSteps \cup Settles \cup {"deliver"},
         \A pair \in Pairs : x = pair[1] => s # <<>> /\ Head(s) = pair[2],
         x = "write" /\ row.method = Card /\ ~row.paid => t2 # "delivered"
  PROVE  <<x>> \o s \in Seq(Steps) /\ PlanFits(<<x>> \o s, t2, row, p)
<1> DEFINE q == <<x>> \o s
<1>1. /\ q \in Seq(Steps) /\ Len(s) \in Nat /\ Len(q) = Len(s) + 1 /\ q[1] = x /\ Head(q) = x
      /\ \A k \in 2..Len(q) : q[k] = s[k - 1] /\ k - 1 \in 1..Len(s)
  OBVIOUS
<1>2. s # <<>> => Len(s) > 0 /\ Head(s) = s[1]
  OBVIOUS
<1> HIDE DEF q
<1>3. WriteFirst(q)
  BY <1>1 DEF WriteFirst
<1>4. Followed(q)
  <2>1. ASSUME NEW k \in 1..Len(q), NEW pair \in Pairs, q[k] = pair[1]
        PROVE  k < Len(q) /\ q[k + 1] = pair[2]
    <3>1. CASE k = 1
      BY <3>1, <2>1, <1>1, <1>2
    <3>2. CASE k # 1
      <4>1. s[k - 1] = pair[1] /\ k - 1 \in 1..Len(s) /\ k \in Int
        BY <3>2, <2>1, <1>1
      <4>2. k - 1 < Len(s) /\ s[k - 1 + 1] = pair[2]
        BY <4>1 DEF PlanFits, Followed
      <4>3. k + 1 \in 2..Len(q) /\ k - 1 + 1 = k + 1 - 1
        BY <4>1, <4>2, <1>1
      <4>4. QED BY <4>2, <4>3, <1>1
    <3>3. QED BY <3>1, <3>2
  <2>2. QED BY <2>1 DEF Followed
<1>5. ASSUME NEW gates, NEW steps, Before(gates, steps, s), x \notin steps
      PROVE  Before(gates, steps, q)
  <2>1. ASSUME NEW k \in 1..Len(q), q[k] \in steps PROVE \E j \in 1..(k - 1) : q[j] \in gates
    <3>1. k # 1 /\ k - 1 \in 1..Len(s) /\ s[k - 1] \in steps
      BY <2>1, <1>1, <1>5
    <3>2. PICK j \in 1..(k - 1 - 1) : s[j] \in gates
      BY <3>1, <1>5 DEF Before
    <3>3. j \in Int /\ j + 1 \in 1..(k - 1) /\ j + 1 \in 2..Len(q) /\ j + 1 - 1 = j
      BY <2>1, <1>1, <3>2
    <3>4. q[j + 1] = s[j]
      BY <3>3, <1>1
    <3>5. QED BY <3>2, <3>3, <3>4
  <2>2. QED BY <2>1 DEF Before
<1>6. ASSUME row.method = Card, ~row.paid
      PROVE  Before(CardGates, {"deliver"}, q) /\ (Head(q) = "write" => t2 # "delivered")
  <2>1. Before(CardGates, {"deliver"}, s)
    BY <1>6 DEF PlanFits
  <2>2. Before(CardGates, {"deliver"}, q)
    BY <2>1, <1>5
  <2>3. QED BY <2>2, <1>1, <1>6
<1>7. ASSUME row.method = Cash
      PROVE  /\ \A k \in 1..Len(q) : q[k] \notin CardSteps
             /\ p = 0 => Before(CashGates, Settles, q)
  <2>1. \A k \in 1..Len(s) : s[k] \notin CardSteps
    BY <1>7 DEF PlanFits
  <2>2. ASSUME NEW k \in 1..Len(q) PROVE q[k] \notin CardSteps
    <3>1. CASE k = 1
      BY <3>1, <1>1
    <3>2. CASE k # 1
      <4>1. k \in 2..Len(q)
        BY <3>2, <1>1
      <4>2. QED BY <4>1, <2>1, <1>1
    <3>3. QED BY <3>1, <3>2
  <2>3. p = 0 => Before(CashGates, Settles, q)
    BY <1>5, <1>7 DEF PlanFits
  <2>4. QED BY <2>2, <2>3
<1>8. QED BY <1>1, <1>3, <1>4, <1>6, <1>7 DEF PlanFits, q

-----------------------------------------------------------------------------
(***************************************************************************)
(* The plans that requests start with.                                     *)
(***************************************************************************)
LEMMA NoPlanFits ==
  ASSUME NEW t, NEW row, NEW p
  PROVE  <<>> \in Seq(Steps) /\ PlanFits(<<>>, t, row, p)
BY DEF PlanFits, WriteFirst, Followed, Before

\* A plan that hands nothing over, writes no stage and settles nothing.
LEMMA ShortPlans ==
  ASSUME NEW t, NEW row, NEW p, NEW s,
         \/ s = <<"invoice">>
         \/ s = <<"charge_retry", "charge_log">>
         \/ s = <<"vat_retry", "vat_log">>
  PROVE  s \in Seq(Steps) /\ PlanFits(s, t, row, p)
<1>1. CASE s = <<"invoice">>
  BY <1>1 DEF PlanFits, WriteFirst, Followed, Before, Pairs, CardSteps, Settles, Steps
<1>2. CASE s = <<"charge_retry", "charge_log">>
  BY <1>2 DEF PlanFits, WriteFirst, Followed, Before, Pairs, CardSteps, Settles, Steps
<1>3. CASE s = <<"vat_retry", "vat_log">>
  BY <1>3 DEF PlanFits, WriteFirst, Followed, Before, Pairs, CardSteps, Settles, Steps
<1>4. QED BY <1>1, <1>2, <1>3

LEMMA WritePlan ==
  ASSUME NEW t, NEW row, NEW p, row.method = Card /\ ~row.paid => t # "delivered"
  PROVE  <<"write">> \in Seq(Steps) /\ PlanFits(<<"write">>, t, row, p)
BY DEF PlanFits, WriteFirst, Followed, Before, Pairs, CardSteps, Settles, Steps

LEMMA CashPlan ==
  ASSUME NEW t, NEW row, NEW p, row.method = Cash,
         NEW s, s = <<"ensure", "ready", "deliver", "book">>
  PROVE  s \in Seq(Steps) /\ PlanFits(s, t, row, p)
<1>1. /\ s \in Seq(Steps) /\ Len(s) = 4 /\ s[1] = "ensure" /\ s[2] = "ready"
      /\ s[3] = "deliver" /\ s[4] = "book"
  BY DEF Steps
<1>2. WriteFirst(s) /\ Before(CashGates, Settles, s)
  BY <1>1 DEF WriteFirst, Before, Settles
<1>3. Followed(s)
  BY <1>1 DEF Followed, Pairs
<1>4. \A k \in 1..Len(s) : s[k] \notin CardSteps
  BY <1>1 DEF CardSteps
<1>5. QED BY <1>1, <1>2, <1>3, <1>4 DEF PlanFits, Cash, Card

LEMMA BookPlan ==
  ASSUME NEW t, NEW row, NEW p,
         NEW s, s = <<"ensure", "invoiced", "record", "post", "save", "cash">>
  PROVE  s \in Seq(Steps) /\ PlanFits(s, t, row, p)
<1>1. /\ s \in Seq(Steps) /\ Len(s) = 6 /\ s[1] = "ensure" /\ s[2] = "invoiced"
      /\ s[3] = "record" /\ s[4] = "post" /\ s[5] = "save" /\ s[6] = "cash"
  BY DEF Steps
<1>2. Before(CashGates, Settles, s)
  BY <1>1 DEF Before, CashGates, Settles
<1>3. WriteFirst(s) /\ Followed(s)
  BY <1>1 DEF WriteFirst, Followed, Pairs
<1>4. Before(CardGates, {"deliver"}, s) /\ Head(s) # "write"
  BY <1>1 DEF Before
<1>5. \A k \in 1..Len(s) : s[k] \notin CardSteps
  BY <1>1 DEF CardSteps
<1>6. QED BY <1>1, <1>2, <1>3, <1>4, <1>5 DEF PlanFits

LEMMA SettledPlan ==
  ASSUME NEW t, NEW row, NEW p, row.method = Cash => p # 0
  PROVE  <<"cash">> \in Seq(Steps) /\ PlanFits(<<"cash">>, t, row, p)
BY DEF PlanFits, WriteFirst, Followed, Before, Pairs, CardSteps, Settles, Steps

LEMMA MarkPlan ==
  ASSUME NEW t, NEW row, NEW p, NEW s, s = <<"mark", "mark_post", "mark_save">> \o Journals
  PROVE  s \in Seq(Steps) /\ PlanFits(s, t, row, p)
<1>1. /\ s \in Seq(Steps) /\ Len(s) = 7 /\ s[1] = "mark" /\ s[2] = "mark_post"
      /\ s[3] = "mark_save" /\ s[4] = "charge_journal" /\ s[5] = "charge_log"
      /\ s[6] = "vat_journal" /\ s[7] = "vat_log"
  BY DEF Steps, Journals
<1>2. Before(CashGates, Settles, s)
  BY <1>1 DEF Before, CashGates, Settles
<1>3. WriteFirst(s) /\ Followed(s)
  <2>1. WriteFirst(s)
    BY <1>1 DEF WriteFirst
  <2>2. Followed(s)
    BY <1>1 DEF Followed, Pairs
  <2>3. QED BY <2>1, <2>2
<1>4. Before(CardGates, {"deliver"}, s) /\ Head(s) # "write"
  BY <1>1 DEF Before
<1>5. \A k \in 1..Len(s) : s[k] \notin CardSteps
  BY <1>1 DEF CardSteps
<1>6. QED BY <1>1, <1>2, <1>3, <1>4, <1>5 DEF PlanFits

LEMMA SessionPlan ==
  ASSUME NEW t, NEW row, NEW p, row.method = Card,
         NEW s, s = <<"ensure", "invoiced", "session">>
  PROVE  s \in Seq(Steps) /\ PlanFits(s, t, row, p)
BY DEF PlanFits, WriteFirst, Followed, Before, Pairs, CardSteps, Settles, Steps, Cash, Card

LEMMA VerifyPlan ==
  ASSUME NEW t, NEW row, NEW p, row.method = Card, row.paid,
         NEW s, s = <<"record", "post", "save", "deliver">>
  PROVE  s \in Seq(Steps) /\ PlanFits(s, t, row, p)
BY DEF PlanFits, WriteFirst, Followed, Before, Pairs, CardSteps, Settles, Steps, Cash, Card

\* The last steps of a plan.
LEMMA FinalizeAfter ==
  ASSUME NEW g \in Seq(Steps)
  PROVE  /\ g \o Finalize \in Seq(Steps) /\ Len(g \o Finalize) = Len(g) + 8
         /\ \A k \in 1..Len(g) : (g \o Finalize)[k] = g[k]
         /\ \A k \in 1..8 : (g \o Finalize)[k + Len(g)] = Finalize[k]
<1> DEFINE f == Finalize
           s == g \o f
<1>1. f \in Seq(Steps)
  BY DEF Finalize, Journals, Steps
<1>2. Len(f) = 8 /\ Len(g) \in Nat
  BY DEF Finalize, Journals
<1> HIDE DEF f
<1>3. /\ s \in Seq(Steps) /\ Len(s) = Len(g) + Len(f)
      /\ \A i \in 1..(Len(g) + Len(f)) :
           s[i] = IF i <= Len(g) THEN g[i] ELSE f[i - Len(g)]
  BY <1>1, ConcatProperties
<1> HIDE DEF s
<1>4. /\ s \in Seq(Steps) /\ Len(s) = Len(g) + 8 /\ Len(g) \in Nat
      /\ \A i \in 1..(Len(g) + 8) : s[i] = IF i <= Len(g) THEN g[i] ELSE f[i - Len(g)]
  BY <1>2, <1>3
<1>5. \A k \in 1..Len(g) : s[k] = g[k]
  BY <1>4
<1>6. ASSUME NEW k \in 1..8 PROVE s[k + Len(g)] = f[k]
  <2>1. k + Len(g) \in 1..(Len(g) + 8) /\ ~(k + Len(g) <= Len(g)) /\ k + Len(g) - Len(g) = k
    BY <1>4
  <2>2. QED BY <1>4, <2>1
<1>7. /\ s \in Seq(Steps) /\ Len(s) = Len(g) + 8
      /\ \A k \in 1..Len(g) : s[k] = g[k]
      /\ \A k \in 1..8 : s[k + Len(g)] = f[k]
  BY <1>4, <1>5, <1>6
<1>8. QED BY <1>7, Zenon DEF f, s

\* "deliver" comes first once the card has paid, after the step that says so otherwise.
LEMMA FinalizePlans ==
  ASSUME NEW t, NEW row, NEW p, row.method = Card,
         NEW s, \/ s = Finalize /\ row.paid
                \/ s = <<"charge">> \o Finalize
                \/ s = <<"given", "verify">> \o Finalize
                \/ s = <<"ensure", "invoiced", "given", "verify">> \o Finalize
  PROVE  s \in Seq(Steps) /\ PlanFits(s, t, row, p)
<1> DEFINE f == Finalize
<1>1. /\ f \in Seq(Steps) /\ Len(f) = 8
      /\ f[1] = "deliver" /\ f[2] = "record" /\ f[3] = "post" /\ f[4] = "save"
      /\ f[5] = "charge_journal" /\ f[6] = "charge_log"
      /\ f[7] = "vat_journal" /\ f[8] = "vat_log"
  BY DEF Finalize, Journals, Steps
<1> HIDE DEF f
<1>2. CASE s = f /\ row.paid
  <2>1. /\ s \in Seq(Steps) /\ Len(s) = 8
        /\ s[1] = "deliver" /\ s[2] = "record" /\ s[3] = "post"
        /\ s[4] = "save" /\ s[5] = "charge_journal" /\ s[6] = "charge_log"
        /\ s[7] = "vat_journal" /\ s[8] = "vat_log"
    BY <1>1, <1>2 DEF Steps
  <2>2. WriteFirst(s)
    BY <2>1 DEF WriteFirst
  <2>3. Followed(s)
    BY <2>1 DEF Followed, Pairs
  <2>4. QED BY <1>2, <2>1, <2>2, <2>3 DEF PlanFits, Cash, Card
<1>3. CASE s = <<"charge">> \o f
  <2>1. /\ s \in Seq(Steps) /\ Len(s) = 9
        /\ s[1] = "charge" /\ s[2] = "deliver" /\ s[3] = "record"
        /\ s[4] = "post" /\ s[5] = "save" /\ s[6] = "charge_journal"
        /\ s[7] = "charge_log" /\ s[8] = "vat_journal" /\ s[9] = "vat_log"
    <3> DEFINE g == <<"charge">>
    <3>1. g \in Seq(Steps) /\ Len(g) = 1 /\ g[1] = "charge"
      BY DEF Steps
    <3>2. s = g \o f
      BY <1>3
    <3> HIDE DEF g
    <3>3. /\ s \in Seq(Steps) /\ Len(s) = Len(g) + 8
          /\ \A k \in 1..Len(g) : s[k] = g[k]
          /\ \A k \in 1..8 : s[k + Len(g)] = f[k]
      BY <3>1, <3>2, FinalizeAfter, Zenon DEF f
    <3>4. /\ s[1] = "charge"
          /\ s \in Seq(Steps) /\ Len(s) = 9
          /\ \A k \in 1..8 : s[k + 1] = f[k]
      BY <1>1, <3>1, <3>3
    <3>5. /\ s[2] = f[1] /\ s[3] = f[2] /\ s[4] = f[3] /\ s[5] = f[4]
          /\ s[6] = f[5] /\ s[7] = f[6] /\ s[8] = f[7] /\ s[9] = f[8]
      BY <3>4
    <3>6. QED BY <1>1, <3>4, <3>5
  <2>2. WriteFirst(s)
    BY <2>1 DEF WriteFirst
  <2>3. Followed(s)
    BY <2>1 DEF Followed, Pairs
  <2>4. Before(CardGates, {"deliver"}, s) /\ Head(s) # "write"
    BY <2>1 DEF Before, CardGates
  <2>5. QED BY <2>1, <2>2, <2>3, <2>4 DEF PlanFits, Cash, Card
<1>4. CASE s = <<"given", "verify">> \o f
  <2>1. /\ s \in Seq(Steps) /\ Len(s) = 10
        /\ s[1] = "given" /\ s[2] = "verify" /\ s[3] = "deliver"
        /\ s[4] = "record" /\ s[5] = "post" /\ s[6] = "save"
        /\ s[7] = "charge_journal" /\ s[8] = "charge_log"
        /\ s[9] = "vat_journal" /\ s[10] = "vat_log"
    <3> DEFINE g == <<"given", "verify">>
    <3>1. g \in Seq(Steps) /\ Len(g) = 2 /\ g[1] = "given" /\ g[2] = "verify"
      BY DEF Steps
    <3>2. s = g \o f
      BY <1>4
    <3> HIDE DEF g
    <3>3. /\ s \in Seq(Steps) /\ Len(s) = Len(g) + 8
          /\ \A k \in 1..Len(g) : s[k] = g[k]
          /\ \A k \in 1..8 : s[k + Len(g)] = f[k]
      BY <3>1, <3>2, FinalizeAfter, Zenon DEF f
    <3>4. /\ s[1] = "given" /\ s[2] = "verify"
          /\ s \in Seq(Steps) /\ Len(s) = 10
          /\ \A k \in 1..8 : s[k + 2] = f[k]
      BY <1>1, <3>1, <3>3
    <3>5. /\ s[3] = f[1] /\ s[4] = f[2] /\ s[5] = f[3] /\ s[6] = f[4]
          /\ s[7] = f[5] /\ s[8] = f[6] /\ s[9] = f[7] /\ s[10] = f[8]
      BY <3>4
    <3>6. QED BY <1>1, <3>4, <3>5
  <2>2. WriteFirst(s)
    BY <2>1 DEF WriteFirst
  <2>3. Followed(s)
    BY <2>1 DEF Followed, Pairs
  <2>4. Before(CardGates, {"deliver"}, s) /\ Head(s) # "write"
    BY <2>1 DEF Before, CardGates
  <2>5. QED BY <2>1, <2>2, <2>3, <2>4 DEF PlanFits, Cash, Card
<1>5. CASE s = <<"ensure", "invoiced", "given", "verify">> \o f
  <2>1. /\ s \in Seq(Steps) /\ Len(s) = 12
        /\ s[1] = "ensure" /\ s[2] = "invoiced" /\ s[3] = "given"
        /\ s[4] = "verify" /\ s[5] = "deliver" /\ s[6] = "record"
        /\ s[7] = "post" /\ s[8] = "save" /\ s[9] = "charge_journal"
        /\ s[10] = "charge_log" /\ s[11] = "vat_journal" /\ s[12] = "vat_log"
    <3> DEFINE g == <<"ensure", "invoiced", "given", "verify">>
    <3>1. g \in Seq(Steps) /\ Len(g) = 4
          /\ g[1] = "ensure" /\ g[2] = "invoiced" /\ g[3] = "given" /\ g[4] = "verify"
      BY DEF Steps
    <3>2. s = g \o f
      BY <1>5
    <3> HIDE DEF g
    <3>3. /\ s \in Seq(Steps) /\ Len(s) = Len(g) + 8
          /\ \A k \in 1..Len(g) : s[k] = g[k]
          /\ \A k \in 1..8 : s[k + Len(g)] = f[k]
      BY <3>1, <3>2, FinalizeAfter, Zenon DEF f
    <3>4. /\ s[1] = "ensure" /\ s[2] = "invoiced" /\ s[3] = "given" /\ s[4] = "verify"
          /\ s \in Seq(Steps) /\ Len(s) = 12
          /\ \A k \in 1..8 : s[k + 4] = f[k]
      BY <1>1, <3>1, <3>3
    <3>5. /\ s[5] = f[1] /\ s[6] = f[2] /\ s[7] = f[3] /\ s[8] = f[4]
          /\ s[9] = f[5] /\ s[10] = f[6] /\ s[11] = f[7] /\ s[12] = f[8]
      BY <3>4
    <3>6. QED BY <1>1, <3>4, <3>5
  <2>2. WriteFirst(s)
    BY <2>1 DEF WriteFirst
  <2>3. Followed(s)
    BY <2>1 DEF Followed, Pairs
  <2>4. Before(CardGates, {"deliver"}, s) /\ Head(s) # "write"
    BY <2>1 DEF Before, CardGates
  <2>5. QED BY <2>1, <2>2, <2>3, <2>4 DEF PlanFits, Cash, Card
<1>6. QED BY <1>2, <1>3, <1>4, <1>5 DEF f

-----------------------------------------------------------------------------
(***************************************************************************)
(* What a step does to the requests that are being served.                 *)
(***************************************************************************)
JobsFit ==
  /\ job \in [Workers -> JobState]
  /\ \A w \in Workers : PlanFits(job[w].plan, job[w].target, order, booked.payments)

RestTyped ==
  /\ lock \in Workers \cup {None}
  /\ log \in [JournalTypes -> Outcomes]
  /\ invoices \in Seq(Invoice) /\ Len(invoices) <= MaxInvoices
  /\ booked \in [payments : Nat, journals : [JournalTypes -> Nat], retried : BOOLEAN]
  /\ charged \subseteq 1..MaxSessions /\ mails \in Nat
  /\ faults \in 0..MaxFaults /\ raced \in BOOLEAN

LEMMA GatedParts ==
  Gated <=> /\ RestTyped /\ order \in OrderRow /\ RowFits(order, booked.payments, charged)
            /\ JobsFit
BY DEF Gated, TypeOK, RestTyped, JobsFit

LEMMA GatedLater ==
  RestTyped' /\ order' \in OrderRow /\ RowFits(order, booked.payments, charged)' /\ JobsFit'
    => Gated'
BY DEF Gated, TypeOK, RestTyped, JobsFit

\* The order only gets paid, and payments are only added.
Moves ==
  /\ order' \in OrderRow /\ order'.method = order.method /\ (order.paid => order'.paid)
  /\ booked'.payments \in Nat /\ booked'.payments >= booked.payments

LEMMA PaymentsTyped == Gated => booked.payments \in Nat /\ booked.payments >= booked.payments
BY DEF Gated, TypeOK

LEMMA StaysMoves == Gated /\ UNCHANGED <<order, booked>> => Moves
BY PaymentsTyped DEF Gated, TypeOK, Moves

LEMMA IdleTyped == Idle \in JobState /\ Idle.plan = <<>>
<1>1. Idle.seen \in SeenRow /\ <<>> \in Seq(Steps) /\ 0 \in 0..MaxInvoices
  BY BoundAssumption DEF Idle, SeenRow, Stages
<1>2. QED BY <1>1 DEF Idle, JobState, Stages, Outcomes

LEMMA SeenTyped == order \in OrderRow => Seen \in SeenRow
BY DEF Seen, OrderRow, SeenRow

LEMMA KeptTyped ==
  ASSUME NEW state \in JobState, NEW plan \in Seq(Steps)
  PROVE  Kept(state, plan) \in JobState /\ Kept(state, plan).plan = plan
<1>1. /\ state.outcome \in Outcomes /\ state.seen \in SeenRow /\ state.target \in Stages
      /\ state.invoice \in 0..MaxInvoices
  BY DEF JobState
<1>2. /\ Idle.seen \in SeenRow /\ Idle.target \in Stages /\ 0 \in 0..MaxInvoices
  BY IdleTyped, BoundAssumption DEF JobState
<1>3. ASSUME NEW S, NEW steps, NEW value \in S, NEW none \in S
      PROVE  Needed(plan, steps, value, none) \in S
  BY DEF Needed
<1>4. Kept(state, plan).plan = plan
  BY DEF Kept
<1>5. /\ Needed(plan, {"write", "ensure", "link", "mark"}, state.seen, Idle.seen) \in SeenRow
      /\ Needed(plan, {"write"}, state.target, Idle.target) \in Stages
      /\ Needed(plan, {"post", "mark_post"}, state.invoice, 0) \in 0..MaxInvoices
  BY <1>1, <1>2, <1>3
<1>6. QED BY <1>1, <1>4, <1>5 DEF Kept, JobState

\* One request changes, the others are served on.
LEMMA OneJob ==
  ASSUME Gated, Moves, NEW w \in Workers, NEW new \in JobState,
         job' = [job EXCEPT ![w] = new],
         PlanFits(new.plan, new.target, order', booked'.payments)
  PROVE  JobsFit'
<1>1. job \in [Workers -> JobState] /\ booked.payments \in Nat
  BY PaymentsTyped DEF Gated, TypeOK
<1>2. ASSUME NEW v \in Workers
      PROVE  PlanFits(job'[v].plan, job'[v].target, order', booked'.payments)
  <2>1. CASE v = w
    BY <2>1, <1>1
  <2>2. CASE v # w
    <3>1. job'[v] = job[v] /\ PlanFits(job[v].plan, job[v].target, order, booked.payments)
      BY <2>2, <1>1 DEF Gated
    <3>2. QED BY <3>1, <1>1, LastingFits DEF Moves
  <2>3. QED BY <2>1, <2>2
<1>3. QED BY <1>1, <1>2 DEF JobsFit

LEMMA NoJob ==
  ASSUME Gated, Moves, UNCHANGED job
  PROVE  JobsFit'
<1>1. job \in [Workers -> JobState] /\ booked.payments \in Nat
  BY PaymentsTyped DEF Gated, TypeOK
<1>2. ASSUME NEW v \in Workers
      PROVE  PlanFits(job'[v].plan, job'[v].target, order', booked'.payments)
  BY <1>1, LastingFits DEF Moves, Gated
<1>3. QED BY <1>1, <1>2 DEF JobsFit

LEMMA EndFits ==
  ASSUME Gated, Moves, NEW w \in Workers, End(w)
  PROVE  JobsFit'
BY IdleTyped, NoPlanFits, OneJob DEF End

LEMMA AtPlan ==
  ASSUME Gated, NEW w \in Workers, job[w].plan # <<>>
  PROVE  /\ job[w] \in JobState /\ job[w].plan \in Seq(Steps) /\ Rest(w) \in Seq(Steps)
         /\ Len(job[w].plan) \in Nat \ {0} /\ Len(Rest(w)) = Len(job[w].plan) - 1
         /\ \A k \in 1..Len(Rest(w)) : Rest(w)[k] = job[w].plan[k + 1]
         /\ Head(job[w].plan) = job[w].plan[1]
         /\ PlanFits(job[w].plan, job[w].target, order, booked.payments)
<1>1. job[w] \in JobState /\ job[w].plan \in Seq(Steps)
  BY DEF Gated, TypeOK, JobState
<1>2. QED BY <1>1, RestOfPlan DEF Gated, Rest

\* A step is done.
LEMMA RestFits ==
  ASSUME Gated, Moves, NEW w \in Workers, job[w].plan # <<>>, NEW t,
         order.method = Card /\ Head(job[w].plan) \in CardGates => order'.paid,
         Head(job[w].plan) \in CashGates => booked'.payments > 0
  PROVE  /\ Rest(w) \in Seq(Steps) /\ PlanFits(Rest(w), t, order', booked'.payments)
         /\ \A k \in 1..Len(Rest(w)) : Rest(w)[k] # "write"
<1> DEFINE s == job[w].plan
<1>1. /\ s \in Seq(Steps) /\ PlanFits(s, job[w].target, order, booked.payments)
      /\ Rest(w) = Tail(s) /\ Rest(w) \in Seq(Steps)
      /\ Len(s) \in Nat \ {0} /\ Len(Rest(w)) = Len(s) - 1
      /\ \A k \in 1..Len(Rest(w)) : Rest(w)[k] = s[k + 1]
  BY AtPlan DEF Rest
<1> HIDE DEF s
<1>2. PlanFits(Rest(w), t, order', booked'.payments)
  BY <1>1, PaymentsTyped, TailFits DEF Moves, s
<1>3. \A k \in 1..Len(Rest(w)) : Rest(w)[k] # "write"
  BY <1>1 DEF PlanFits, WriteFirst
<1>4. QED BY <1>1, <1>2, <1>3

LEMMA ProceedFits ==
  ASSUME Gated, Moves, NEW w \in Workers, NEW plan \in Seq(Steps), Proceed(w, plan),
         \A t : PlanFits(plan, t, order', booked'.payments)
  PROVE  JobsFit'
<1>1. job[w] \in JobState /\ job' = [job EXCEPT ![w] = Kept(job[w], plan)]
  BY DEF Gated, TypeOK, Proceed
<1>2. Kept(job[w], plan) \in JobState /\ Kept(job[w], plan).plan = plan
  BY <1>1, KeptTyped
<1>3. QED BY <1>1, <1>2, OneJob

LEMMA ContinueFits ==
  ASSUME Gated, Moves, NEW w \in Workers, job[w].plan # <<>>, Continue(w),
         order.method = Card /\ Head(job[w].plan) \in CardGates => order'.paid,
         Head(job[w].plan) \in CashGates => booked'.payments > 0
  PROVE  JobsFit'
<1>1. Rest(w) \in Seq(Steps) /\ \A t : PlanFits(Rest(w), t, order', booked'.payments)
  BY RestFits
<1>2. QED BY <1>1, ProceedFits DEF Continue

\* A step is skipped with the next one.
LEMMA SkipFits ==
  ASSUME Gated, Moves, UNCHANGED <<order, booked>>, NEW w \in Workers,
         job[w].plan # <<>>,
         NEW pair \in Pairs, Head(job[w].plan) = pair[1], Proceed(w, Tail(Rest(w)))
  PROVE  JobsFit'
<1>1. /\ Len(job[w].plan) \in Nat \ {0} /\ Followed(job[w].plan)
      /\ Len(Rest(w)) = Len(job[w].plan) - 1
      /\ \A k \in 1..Len(Rest(w)) : Rest(w)[k] = job[w].plan[k + 1]
      /\ job[w].plan[1] = pair[1] /\ Rest(w) \in Seq(Steps)
  BY AtPlan DEF PlanFits
<1>2. 1 < Len(job[w].plan) /\ job[w].plan[1 + 1] = pair[2]
  BY <1>1 DEF Followed
<1>3. Rest(w) # <<>> /\ Head(Rest(w)) = pair[2]
  BY <1>1, <1>2
<1>4. /\ pair[1] \notin CardGates \cup CashGates /\ pair[2] \notin CardGates \cup CashGates
  BY DEF Pairs, CardGates, CashGates
<1>5. \A t : PlanFits(Rest(w), t, order, booked.payments)
  BY <1>4, RestFits
<1>6. Tail(Rest(w)) \in Seq(Steps)
  BY <1>1, <1>3
<1>7. \A t : PlanFits(Tail(Rest(w)), t, order', booked'.payments)
  BY <1>1, <1>3, <1>4, <1>5, PaymentsTyped, TailFits
<1>8. QED BY <1>6, <1>7, ProceedFits

\* A step that is neither a gate nor changes what the gates are about.
LEMMA QuietContinue ==
  ASSUME Gated, Moves, NEW w \in Workers, NEW step, At(w, step), Continue(w),
         step \notin CardGates \cup CashGates
  PROVE  JobsFit'
<1>1. job[w].plan # <<>> /\ Head(job[w].plan) = step
  BY DEF At
<1>2. QED BY <1>1, ContinueFits

\* The next step starts from the row as it is.
LEMMA RefreshFits ==
  ASSUME Gated, Moves, NEW w \in Workers, NEW plan \in Seq(Steps), Refresh(w, plan),
         \A t : PlanFits(plan, t, order', booked'.payments)
  PROVE  JobsFit'
<1> DEFINE new == [job[w] EXCEPT !.plan = plan, !.seen = Seen]
<1>1. job[w] \in JobState /\ Seen \in SeenRow /\ job \in [Workers -> JobState]
  BY SeenTyped DEF Gated, TypeOK
<1>2. new \in JobState /\ new.plan = plan
  BY <1>1 DEF JobState
<1>3. job' = [job EXCEPT ![w] = new]
  BY <1>1 DEF Refresh
<1> HIDE DEF new
<1>4. QED BY <1>2, <1>3, OneJob

\* A request starts.
LEMMA StartedTyped ==
  ASSUME Gated, NEW plan \in Seq(Steps), NEW stage \in Stages
  PROVE  /\ [Idle EXCEPT !.plan = plan, !.target = stage, !.seen = Seen] \in JobState
         /\ [Idle EXCEPT !.plan = plan, !.seen = Seen] \in JobState
<1>1. Seen \in SeenRow /\ Idle \in JobState
  BY SeenTyped, IdleTyped DEF Gated, TypeOK
<1>2. QED BY <1>1 DEF JobState

LEMMA StartFits ==
  ASSUME Gated, NEW w \in Workers, NEW plan \in Seq(Steps), Start(w, plan),
         \A t : PlanFits(plan, t, order, booked.payments)
  PROVE  Gated'
<1> DEFINE new == [Idle EXCEPT !.plan = plan, !.seen = Seen]
<1>1. "delivered" \in Stages
  BY DEF Stages
<1>2. new \in JobState
  BY <1>1, StartedTyped
<1>3. new.plan = plan
  BY DEF Idle
<1>4. /\ job' = [job EXCEPT ![w] = new]
      /\ UNCHANGED <<order, lock, booksVars, doorVars, faults>>
  BY DEF Start
<1> HIDE DEF new
<1>5. UNCHANGED <<order, lock, invoices, booked, log, raced, charged, mails, faults>>
  BY <1>4 DEF booksVars, doorVars
<1>6. Moves
  BY <1>5, StaysMoves
<1>7. JobsFit'
  BY <1>2, <1>3, <1>4, <1>5, <1>6, OneJob
<1>8. RestTyped' /\ order' \in OrderRow /\ RowFits(order, booked.payments, charged)'
  BY <1>5, GatedParts DEF RestTyped, RowFits
<1>9. QED BY <1>7, <1>8, GatedLater

-----------------------------------------------------------------------------
(***************************************************************************)
(* Steps after which the row, the payments and the taps are the same.      *)
(***************************************************************************)
LEMMA QuietGated ==
  ASSUME Gated, UNCHANGED <<order, charged>>, booked'.payments = booked.payments,
         RestTyped', JobsFit'
  PROVE  Gated'
<1>1. order' \in OrderRow /\ RowFits(order, booked.payments, charged)'
  BY GatedParts DEF RowFits
<1>2. QED BY <1>1, GatedLater

\* ... and nothing but the request changes.
LEMMA JobGated ==
  ASSUME Gated, UNCHANGED <<order, booksVars, charged>>, JobsFit',
         mails' \in Nat, faults' \in 0..MaxFaults, lock' \in Workers \cup {None}
  PROVE  Gated'
<1>1. RestTyped'
  BY GatedParts DEF RestTyped, booksVars
<1>2. QED BY <1>1, QuietGated DEF booksVars

LEMMA FaultTyped == Gated /\ (Fault \/ NoFault) => faults' \in 0..MaxFaults
BY BoundAssumption DEF Gated, TypeOK, Fault, NoFault

LEMMA RestParts ==
  Gated => /\ lock \in Workers \cup {None} /\ mails \in Nat /\ faults \in 0..MaxFaults
           /\ order \in OrderRow
BY DEF Gated, TypeOK

LEMMA RequestGated ==
  ASSUME Gated, NEW w \in Workers,
         \/ CreateInvoice(w) \/ CollectCash(w) \/ GeideaCollect(w) \/ Reconcile(w)
         \/ CollectCard(w) \/ VerifyPayment(w) \/ MarkCodPaid(w)
         \/ \E t \in JournalTypes : RetryJournal(w, t)
  PROVE  Gated'
<1> DEFINE Fits(plan) ==
             plan \in Seq(Steps) /\ \A t : PlanFits(plan, t, order, booked.payments)
<1>1. CASE CreateInvoice(w)
  <2>1. Fits(<<"invoice">>)
    BY ShortPlans
  <2>2. QED BY <1>1, <2>1, StartFits DEF CreateInvoice
<1>2. CASE CollectCash(w)
  <2>1. order.method = Cash /\ Start(w, <<"ensure", "ready", "deliver", "book">>)
    BY <1>2 DEF CollectCash
  <2>2. Fits(<<"ensure", "ready", "deliver", "book">>)
    BY <2>1, CashPlan
  <2>3. QED BY <2>1, <2>2, StartFits
<1>3. CASE GeideaCollect(w)
  <2>1. order.method = Card /\ Start(w, <<"ensure", "invoiced", "session">>)
    BY <1>3 DEF GeideaCollect, AwaitsCard
  <2>2. Fits(<<"ensure", "invoiced", "session">>)
    BY <2>1, SessionPlan
  <2>3. QED BY <2>1, <2>2, StartFits
<1>4. CASE Reconcile(w)
  <2>1. order.method = Card /\ Start(w, <<"charge">> \o Finalize)
    BY <1>4 DEF Reconcile
  <2>2. Fits(<<"charge">> \o Finalize)
    BY <2>1, FinalizePlans
  <2>3. QED BY <2>1, <2>2, StartFits
<1>5. CASE CollectCard(w)
  <2>1. /\ order.method = Card
        /\ \/ Start(w, <<"ensure", "invoiced", "given", "verify">> \o Finalize)
           \/ Start(w, <<"given", "verify">> \o Finalize)
    BY <1>5 DEF CollectCard
  <2>2. Fits(<<"ensure", "invoiced", "given", "verify">> \o Finalize)
    BY <2>1, FinalizePlans
  <2>3. Fits(<<"given", "verify">> \o Finalize)
    BY <2>1, FinalizePlans
  <2>4. QED BY <2>1, <2>2, <2>3, StartFits
<1>6. CASE VerifyPayment(w)
  <2>1. order.method = Card /\ order.paid /\ Start(w, <<"record", "post", "save", "deliver">>)
    BY <1>6 DEF VerifyPayment
  <2>2. Fits(<<"record", "post", "save", "deliver">>)
    BY <2>1, VerifyPlan
  <2>3. QED BY <2>1, <2>2, StartFits
<1>7. CASE MarkCodPaid(w)
  <2>1. Fits(<<"mark", "mark_post", "mark_save">> \o Journals)
    BY MarkPlan
  <2>2. QED BY <1>7, <2>1, StartFits DEF MarkCodPaid
<1>8. CASE \E t \in JournalTypes : RetryJournal(w, t)
  <2>1. Fits(<<"charge_retry", "charge_log">>) /\ Fits(<<"vat_retry", "vat_log">>)
    BY ShortPlans
  <2>2. \/ Start(w, <<"charge_retry", "charge_log">>)
        \/ Start(w, <<"vat_retry", "vat_log">>)
    BY <1>8 DEF RetryJournal
  <2>3. QED BY <2>1, <2>2, StartFits
<1>9. QED BY <1>1, <1>2, <1>3, <1>4, <1>5, <1>6, <1>7, <1>8

\* A stage that staff choose: a card order is only called delivered once it is paid.
LEMMA PatchStatusGated ==
  ASSUME Gated, NEW w \in Workers, NEW stage \in Stages, PatchStatus(w, stage)
  PROVE  Gated'
<1> DEFINE new == [Idle EXCEPT !.plan = <<"write">>, !.target = stage, !.seen = Seen]
<1>1. /\ <<"write">> \in Seq(Steps)
      /\ PlanFits(<<"write">>, stage, order, booked.payments)
  BY WritePlan DEF PatchStatus, MayBeDelivered
<1>2. new \in JobState
  BY <1>1, StartedTyped
<1>3. new.plan = <<"write">> /\ new.target = stage
  BY DEF Idle
<1>4. job' = [job EXCEPT ![w] = new]
  BY DEF PatchStatus
<1> HIDE DEF new
<1>5. UNCHANGED <<order, lock, booksVars, booked, charged, mails, faults>>
  BY DEF PatchStatus, booksVars, doorVars
<1>6. JobsFit'
  BY <1>1, <1>2, <1>3, <1>4, <1>5, StaysMoves, OneJob
<1>7. QED BY <1>5, <1>6, JobGated, RestParts

LEMMA DeliverGated ==
  ASSUME Gated, NEW w \in Workers, Deliver(w)
  PROVE  Gated'
<1>1. /\ UNCHANGED <<order, lock, booksVars, booked, charged, mails, faults>>
      /\ At(w, "deliver") /\ job[w].plan # <<>> /\ Head(job[w].plan) = "deliver"
  BY DEF Deliver, At, booksVars, doorVars
<1>2. Moves
  BY <1>1, StaysMoves
<1>3. ASSUME Continue(w) PROVE JobsFit'
  BY <1>1, <1>2, <1>3, QuietContinue DEF CardGates, CashGates
<1>4. ASSUME job' = [job EXCEPT ![w].plan = <<"write">> \o Rest(w), ![w].seen = Seen,
                                ![w].target = "delivered"]
      PROVE  JobsFit'
  <2>1. /\ Rest(w) \in Seq(Steps) /\ PlanFits(Rest(w), "delivered", order, booked.payments)
        /\ \A k \in 1..Len(Rest(w)) : Rest(w)[k] # "write"
    BY <1>1, <1>2, RestFits DEF CardGates, CashGates
  <2>2. ~(order.method = Card /\ ~order.paid)
    BY <1>1, AtPlan DEF PlanFits, Before
  <2>3. /\ <<"write">> \o Rest(w) \in Seq(Steps)
        /\ PlanFits(<<"write">> \o Rest(w), "delivered", order, booked.payments)
    <3>1. /\ "write" \in Steps /\ "write" \notin CardSteps \cup Settles \cup {"deliver"}
          /\ \A pair \in Pairs : "write" # pair[1]
      BY DEF Steps, CardSteps, Settles, Pairs
    <3>2. QED BY <2>1, <2>2, <3>1, PaymentsTyped, PrependFits
  <2> DEFINE new == [job[w] EXCEPT !.plan = <<"write">> \o Rest(w), !.seen = Seen,
                                   !.target = "delivered"]
  <2>4. job[w] \in JobState /\ Seen \in SeenRow /\ job \in [Workers -> JobState]
        /\ "delivered" \in Stages
    BY SeenTyped DEF Gated, TypeOK, Stages
  <2>5. new \in JobState /\ new.plan = <<"write">> \o Rest(w) /\ new.target = "delivered"
    BY <2>3, <2>4 DEF JobState
  <2>6. job' = [job EXCEPT ![w] = new]
    BY <1>4, <2>4
  <2> HIDE DEF new
  <2>7. QED BY <1>1, <1>2, <2>3, <2>5, <2>6, OneJob
<1>5. JobsFit'
  BY <1>3, <1>4 DEF Deliver
<1>6. QED BY <1>1, <1>5, JobGated, RestParts

LEMMA SendMailGated ==
  ASSUME Gated, NEW w \in Workers, SendMail(w)
  PROVE  Gated'
<1>1. /\ UNCHANGED <<order, lock, booksVars, booked, charged>>
      /\ At(w, "mail") /\ job[w].plan # <<>> /\ Head(job[w].plan) = "mail"
  BY DEF SendMail, At, booksVars
<1>2. Moves
  BY <1>1, StaysMoves
<1>3. ASSUME Continue(w) PROVE JobsFit'
  BY <1>1, <1>2, <1>3, QuietContinue DEF CardGates, CashGates
<1>4. ASSUME Proceed(w, Tail(Rest(w))) PROVE JobsFit'
  BY <1>1, <1>2, <1>4, SkipFits, <<"mail", "mailed">> \in Pairs DEF Pairs
<1>5. mails' \in Nat /\ faults' \in 0..MaxFaults
  BY RestParts, FaultTyped DEF SendMail
<1>6. QED BY <1>1, <1>3, <1>4, <1>5, JobGated, RestParts DEF SendMail

LEMMA ReadyGated ==
  ASSUME Gated, NEW w \in Workers, Ready(w)
  PROVE  Gated'
<1>1. UNCHANGED <<order, lock, booksVars, booked, charged, mails, faults>>
  BY DEF Ready, booksVars, doorVars
<1>2. Moves
  BY <1>1, StaysMoves
<1>3. JobsFit'
  BY <1>2, QuietContinue, EndFits DEF Ready, CardGates, CashGates
<1>4. QED BY <1>1, <1>3, JobGated, RestParts

LEMMA RecordPaymentGated ==
  ASSUME Gated, NEW w \in Workers, RecordPayment(w)
  PROVE  Gated'
<1>1. /\ UNCHANGED <<order, booksVars, booked, charged, mails>> /\ At(w, "record")
      /\ (Fault \/ NoFault)
  BY DEF RecordPayment, booksVars, doorVars
<1>2. Moves
  BY <1>1, StaysMoves
<1>3. ASSUME job' = [job EXCEPT ![w].plan = Rest(w), ![w].invoice = order.invoice]
      PROVE  JobsFit'
  <2> DEFINE new == [job[w] EXCEPT !.plan = Rest(w), !.invoice = order.invoice]
  <2>1. /\ Rest(w) \in Seq(Steps)
        /\ PlanFits(Rest(w), job[w].target, order, booked.payments)
    BY <1>1, <1>2, RestFits DEF At, CardGates, CashGates
  <2>2. /\ job \in [Workers -> JobState] /\ job[w] \in JobState
        /\ order.invoice \in 0..MaxInvoices
    BY DEF Gated, TypeOK, OrderRow
  <2>3. new \in JobState /\ new.plan = Rest(w) /\ new.target = job[w].target
    BY <2>1, <2>2 DEF JobState
  <2>4. job' = [job EXCEPT ![w] = new]
    BY <1>3, <2>2
  <2> HIDE DEF new
  <2>5. QED BY <1>1, <1>2, <2>1, <2>3, <2>4, OneJob
<1>4. JobsFit'
  BY <1>2, <1>3, EndFits DEF RecordPayment
<1>5. lock' \in Workers \cup {None}
  BY RestParts DEF RecordPayment
<1>6. QED BY <1>1, <1>4, <1>5, JobGated, RestParts, FaultTyped

LEMMA BookCashGated ==
  ASSUME Gated, NEW w \in Workers, BookCash(w)
  PROVE  Gated'
<1>1. UNCHANGED <<order, lock, booksVars, booked, charged, mails, faults>>
  BY DEF BookCash, booksVars, doorVars
<1>2. Moves
  BY <1>1, StaysMoves
<1>3. CASE order.payment
  <2>1. order.method = Cash => booked.payments > 0
    BY <1>3 DEF Gated, RowFits
  <2>2. /\ <<"cash">> \in Seq(Steps)
        /\ \A t : PlanFits(<<"cash">>, t, order, booked.payments)
    BY <2>1, PaymentsTyped, SettledPlan
  <2>3. Refresh(w, <<"cash">>)
    BY <1>3 DEF BookCash
  <2>4. QED BY <1>1, <1>2, <2>2, <2>3, RefreshFits, JobGated, RestParts
<1>4. CASE ~order.payment
  <2> DEFINE plan == <<"ensure", "invoiced", "record", "post", "save", "cash">>
  <2>1. plan \in Seq(Steps) /\ \A t : PlanFits(plan, t, order, booked.payments)
    BY BookPlan
  <2>2. Refresh(w, plan)
    BY <1>4 DEF BookCash
  <2> HIDE DEF plan
  <2>3. QED BY <1>1, <1>2, <2>1, <2>2, RefreshFits, JobGated, RestParts
<1>5. QED BY <1>3, <1>4

LEMMA MarkNotFoundGated ==
  ASSUME Gated, NEW w \in Workers, MarkNotFound(w)
  PROVE  Gated'
<1>1. UNCHANGED <<order, lock, booksVars, booked, charged, mails, faults>>
  BY DEF MarkNotFound, booksVars, doorVars
<1>2. QED BY <1>1, StaysMoves, EndFits, JobGated, RestParts DEF MarkNotFound

LEMMA DieGated ==
  ASSUME Gated, NEW w \in Workers, Die(w)
  PROVE  Gated'
<1>1. UNCHANGED <<order, booksVars, booked, charged, mails>> /\ Fault /\ End(w)
  BY DEF Die, booksVars, doorVars
<1>2. lock' \in Workers \cup {None}
  BY RestParts DEF Die
<1>3. QED BY <1>1, <1>2, StaysMoves, EndFits, JobGated, RestParts, FaultTyped

-----------------------------------------------------------------------------
(***************************************************************************)
(* Steps that write the row.                                               *)
(***************************************************************************)
LEMMA RowGated ==
  ASSUME Gated, JobsFit', order' \in OrderRow,
         UNCHANGED <<log, booked, raced, mails, charged>>,
         invoices' \in Seq(Invoice), Len(invoices') <= MaxInvoices,
         faults' \in 0..MaxFaults, lock' \in Workers \cup {None},
         RowFits(order', booked.payments, charged)
  PROVE  Gated'
<1>1. RestTyped'
  BY GatedParts DEF RestTyped
<1>2. RowFits(order, booked.payments, charged)'
  BY DEF RowFits
<1>3. QED BY <1>1, <1>2, GatedLater

LEMMA BooksTyped ==
  Gated => /\ invoices \in Seq(Invoice) /\ Len(invoices) \in Nat /\ Len(invoices) <= MaxInvoices
           /\ order \in OrderRow /\ RowFits(order, booked.payments, charged)
           /\ \A w \in Workers : job[w] \in JobState
BY DEF Gated, TypeOK

LEMMA LinkTyped ==
  ASSUME Gated, NEW i \in DOMAIN invoices
  PROVE  i \in 0..MaxInvoices
BY BooksTyped, BoundAssumption

\* The row keeps its method and what it says of the money.
LEMMA LinkMoves ==
  ASSUME Gated, UNCHANGED booked, NEW i \in 0..MaxInvoices,
         order' = [order EXCEPT !.invoice = i]
  PROVE  /\ order' \in OrderRow /\ Moves
         /\ RowFits(order', booked.payments, charged)
<1>1. order' \in OrderRow
  BY BooksTyped DEF OrderRow
<1>2. order'.method = order.method /\ order'.paid = order.paid /\ order'.stage = order.stage
      /\ order'.ref = order.ref /\ order'.payment = order.payment
  BY BooksTyped DEF OrderRow
<1>3. QED BY <1>1, <1>2, BooksTyped, PaymentsTyped DEF Moves, RowFits

LEMMA WriteStageGated ==
  ASSUME Gated, NEW w \in Workers, WriteStage(w)
  PROVE  Gated'
<1> DEFINE stage == job[w].target
           status == IF job[w].seen.status = "pending_zoho_sync" THEN "synced" ELSE order.status
<1>1. /\ order' = [order EXCEPT !.stage = stage, !.status = status]
      /\ UNCHANGED <<lock, log, booked, raced, invoices, mails, charged, faults>>
      /\ At(w, "write") /\ job[w].plan # <<>> /\ Head(job[w].plan) = "write"
  BY BooksTyped DEF WriteStage, At, booksVars, doorVars
<1>2. order \in OrderRow /\ job[w] \in JobState /\ stage \in Stages
      /\ status \in {"pending_zoho_sync", "synced", "cancelled"}
  BY BooksTyped DEF OrderRow, JobState
<1> HIDE DEF status
<1>3. order' \in OrderRow
  BY <1>1, <1>2 DEF OrderRow
<1>4. /\ order'.method = order.method /\ order'.paid = order.paid /\ order'.stage = stage
      /\ order'.ref = order.ref /\ order'.payment = order.payment
  BY <1>1, <1>2 DEF OrderRow
<1>5. order.method = Card /\ stage = "delivered" => order.paid
  BY <1>1, <1>2, AtPlan DEF PlanFits, OrderRow
<1>6. RowFits(order', booked.payments, charged) /\ Moves
  BY <1>1, <1>3, <1>4, <1>5, BooksTyped, PaymentsTyped DEF RowFits, Moves
<1>7. ASSUME Continue(w) PROVE JobsFit'
  BY <1>1, <1>6, <1>7, QuietContinue DEF CardGates, CashGates
<1>8. ASSUME Proceed(w, <<"mail", "mailed">> \o Rest(w)) PROVE JobsFit'
  <2> DEFINE r == Rest(w)
             m == <<"mailed">> \o r
             fits(plan) == plan \in Seq(Steps)
                           /\ \A t : PlanFits(plan, t, order', booked'.payments)
  <2>1. fits(r) /\ \A k \in 1..Len(r) : r[k] # "write"
    BY <1>1, <1>6, RestFits DEF CardGates, CashGates
  <2>2. /\ {"mail", "mailed"} \subseteq Steps
        /\ {"mail", "mailed"} \cap (CardSteps \cup Settles \cup {"deliver", "write"}) = {}
        /\ \A pair \in Pairs : /\ "mailed" # pair[1]
                               /\ "mail" = pair[1] => pair[2] = "mailed"
    BY DEF Steps, CardSteps, Settles, Pairs
  <2> HIDE DEF r
  <2>3. fits(m)
    BY <2>1, <2>2, <1>6, PrependFits DEF Moves
  <2>4. m # <<>> /\ Head(m) = "mailed" /\ \A k \in 1..Len(m) : m[k] # "write"
    <3>1. Len(r) \in Nat /\ Len(m) = Len(r) + 1 /\ m[1] = "mailed" /\ Head(m) = "mailed"
          /\ \A k \in 2..Len(m) : m[k] = r[k - 1] /\ k - 1 \in 1..Len(r)
      BY <2>1
    <3>2. QED BY <2>1, <3>1
  <2>5. <<"mail", "mailed">> \o r = <<"mail">> \o m
    BY <2>1
  <2> HIDE DEF m
  <2>6. fits(<<"mail">> \o m)
    BY <2>2, <2>3, <2>4, <1>6, PrependFits DEF Moves
  <2>7. Proceed(w, <<"mail">> \o m)
    BY <1>8, <2>5 DEF r
  <2>8. QED BY <2>6, <2>7, <1>6, ProceedFits
<1>9. JobsFit'
  BY <1>7, <1>8 DEF WriteStage
<1>10. QED
  BY <1>1, <1>3, <1>6, <1>9, BooksTyped, RestParts, RowGated

LEMMA SaveMailedGated ==
  ASSUME Gated, NEW w \in Workers, SaveMailed(w)
  PROVE  Gated'
<1>1. /\ order' = [order EXCEPT !.mailed = TRUE] /\ Continue(w) /\ At(w, "mailed")
      /\ UNCHANGED <<lock, log, booked, raced, invoices, mails, charged, faults>>
  BY DEF SaveMailed, booksVars, doorVars
<1>2. order' \in OrderRow
  BY <1>1, BooksTyped DEF OrderRow
<1>3. /\ order'.method = order.method /\ order'.paid = order.paid
      /\ order'.stage = order.stage /\ order'.ref = order.ref
      /\ order'.payment = order.payment
  BY <1>1, BooksTyped DEF OrderRow
<1>4. RowFits(order', booked.payments, charged) /\ Moves
  BY <1>1, <1>2, <1>3, BooksTyped, PaymentsTyped DEF RowFits, Moves
<1>5. JobsFit'
  BY <1>1, <1>4, QuietContinue DEF CardGates, CashGates
<1>6. QED BY <1>1, <1>2, <1>4, <1>5, BooksTyped, RestParts, RowGated

LEMMA SaveInvoiceGated ==
  ASSUME Gated, NEW w \in Workers, SaveInvoice(w)
  PROVE  Gated'
<1>1. /\ End(w) /\ UNCHANGED <<lock, booked, log, raced, mails, charged>>
  BY DEF SaveInvoice, doorVars
<1>2. CASE order.invoice # 0
  <2>1. UNCHANGED <<order, invoices, faults>>
    BY <1>2 DEF SaveInvoice
  <2>2. JobsFit'
    BY <1>1, <2>1, StaysMoves, EndFits
  <2>3. QED BY <1>1, <2>1, <2>2, BooksTyped, RestParts, RowGated
<1>3. CASE order.invoice = 0
  <2>1. PICK known \in BOOLEAN, status \in {"draft", "sent"} :
          /\ Len(invoices) < MaxInvoices
          /\ invoices' = Append(invoices, [own |-> TRUE, status |-> status])
          /\ order' = [order EXCEPT !.invoice = IF known THEN Len(invoices) + 1 ELSE 0]
          /\ Fault \/ NoFault
    BY <1>3 DEF SaveInvoice
  <2> DEFINE i == IF known THEN Len(invoices) + 1 ELSE 0
  <2>2. i \in 0..MaxInvoices
    BY <2>1, BooksTyped, BoundAssumption
  <2> HIDE DEF i
  <2>3. order' = [order EXCEPT !.invoice = i]
    BY <2>1 DEF i
  <2>4. /\ order' \in OrderRow /\ Moves /\ RowFits(order', booked.payments, charged)
    BY <1>1, <2>2, <2>3, LinkMoves
  <2>5. [own |-> TRUE, status |-> status] \in Invoice
    BY DEF Invoice
  <2>6. invoices' \in Seq(Invoice) /\ Len(invoices') <= MaxInvoices
    BY <2>1, <2>5, BooksTyped, BoundAssumption
  <2>7. JobsFit'
    BY <1>1, <2>4, EndFits
  <2>8. QED BY <1>1, <2>1, <2>4, <2>6, <2>7, FaultTyped, RestParts, RowGated
<1>4. QED BY <1>2, <1>3

\* The link step goes on, or ends the request.
LEMMA LinkInvoiceGated ==
  ASSUME Gated, NEW w \in Workers, LinkInvoice(w)
  PROVE  Gated'
<1>1. /\ At(w, "link") /\ UNCHANGED <<lock, log, booked, raced, invoices, mails, charged>>
      /\ Fault \/ NoFault
  BY DEF LinkInvoice, booksVars, doorVars
<1>2. ASSUME Moves, Continue(w) \/ End(w) PROVE JobsFit'
  BY <1>1, <1>2, QuietContinue, EndFits DEF CardGates, CashGates
<1>3. CASE UNCHANGED order /\ LinkFails(w)
  <2>1. JobsFit'
    BY <1>1, <1>2, <1>3, StaysMoves DEF LinkFails
  <2>2. QED BY <1>1, <1>3, <2>1, BooksTyped, FaultTyped, RestParts, RowGated
<1>4. ASSUME NEW i \in Pick, order' = [order EXCEPT !.invoice = i], Continue(w)
      PROVE  Gated'
  <2>1. i \in DOMAIN invoices
    BY <1>4 DEF Pick, Unpaid, Candidates
  <2>2. order' \in OrderRow /\ Moves /\ RowFits(order', booked.payments, charged)
    BY <1>1, <1>4, <2>1, LinkTyped, LinkMoves
  <2>3. JobsFit'
    BY <1>2, <1>4, <2>2
  <2>4. QED BY <1>1, <2>2, <2>3, BooksTyped, FaultTyped, RestParts, RowGated
<1>5. QED BY <1>3, <1>4 DEF LinkInvoice

LEMMA EnsureInvoiceGated ==
  ASSUME Gated, NEW w \in Workers, EnsureInvoice(w)
  PROVE  Gated'
<1>1. /\ At(w, "ensure") /\ job[w].plan # <<>> /\ Head(job[w].plan) = "ensure"
      /\ UNCHANGED <<lock, log, booked, raced, invoices, mails, charged>>
      /\ Fault \/ NoFault
  BY DEF EnsureInvoice, At, booksVars, doorVars
<1>2. ASSUME Moves, Proceed(w, <<"link">> \o Rest(w)) PROVE JobsFit'
  <2>1. /\ Rest(w) \in Seq(Steps) /\ \A t : PlanFits(Rest(w), t, order', booked'.payments)
        /\ \A k \in 1..Len(Rest(w)) : Rest(w)[k] # "write"
    BY <1>1, <1>2, RestFits DEF CardGates, CashGates
  <2>2. /\ "link" \in Steps /\ "link" \notin CardSteps \cup Settles \cup {"deliver", "write"}
        /\ \A pair \in Pairs : "link" # pair[1]
    BY DEF Steps, CardSteps, Settles, Pairs
  <2>3. /\ <<"link">> \o Rest(w) \in Seq(Steps)
        /\ \A t : PlanFits(<<"link">> \o Rest(w), t, order', booked'.payments)
    BY <2>1, <2>2, <1>2, PrependFits DEF Moves
  <2>4. QED BY <1>2, <2>3, ProceedFits
<1>3. CASE UNCHANGED order
  <2>1. JobsFit'
    BY <1>1, <1>2, <1>3, StaysMoves, QuietContinue DEF EnsureInvoice, CardGates, CashGates
  <2>2. QED BY <1>1, <1>3, <2>1, BooksTyped, FaultTyped, RestParts, RowGated
<1>4. CASE order' = [order EXCEPT !.invoice = 0] /\ Proceed(w, <<"link">> \o Rest(w))
  <2>1. order' \in OrderRow /\ Moves /\ RowFits(order', booked.payments, charged)
    BY <1>1, <1>4, BoundAssumption, LinkMoves
  <2>2. JobsFit'
    BY <1>2, <1>4, <2>1
  <2>3. QED BY <1>1, <2>1, <2>2, BooksTyped, FaultTyped, RestParts, RowGated
<1>5. QED BY <1>3, <1>4 DEF EnsureInvoice

LEMMA LinkGivenGated ==
  ASSUME Gated, NEW w \in Workers, LinkGiven(w)
  PROVE  Gated'
<1>1. /\ At(w, "given")
      /\ UNCHANGED <<lock, log, booked, raced, invoices, mails, charged, faults>>
      /\ Continue(w) \/ End(w)
  BY DEF LinkGiven, booksVars, doorVars
<1>2. ASSUME Moves PROVE JobsFit'
  BY <1>1, <1>2, QuietContinue, EndFits DEF CardGates, CashGates
<1>3. CASE UNCHANGED order
  BY <1>1, <1>2, <1>3, StaysMoves, BooksTyped, RestParts, RowGated
<1>4. ASSUME NEW i \in DOMAIN invoices, order' = [order EXCEPT !.invoice = i]
      PROVE  Gated'
  <2>1. order' \in OrderRow /\ Moves /\ RowFits(order', booked.payments, charged)
    BY <1>1, <1>4, LinkTyped, LinkMoves
  <2>2. QED BY <1>1, <1>2, <2>1, BooksTyped, RestParts, RowGated
<1>5. QED BY <1>3, <1>4 DEF LinkGiven

-----------------------------------------------------------------------------
(***************************************************************************)
(* Steps that say that the order is paid or its payment booked.            *)
(***************************************************************************)
\* By the time a step that settles a cash order is reached, a payment is in Books.
LEMMA SettlesBooked ==
  ASSUME Gated, NEW w \in Workers, NEW step \in Settles, At(w, step), order.method = Cash
  PROVE  booked.payments > 0
<1>1. /\ Len(job[w].plan) \in Nat \ {0} /\ job[w].plan[1] \in Settles
      /\ PlanFits(job[w].plan, job[w].target, order, booked.payments)
  BY AtPlan DEF At
<1>2. ~Before(CashGates, Settles, job[w].plan)
  BY <1>1 DEF Before
<1>3. booked.payments # 0
  BY <1>1, <1>2 DEF PlanFits
<1>4. QED BY <1>3, PaymentsTyped

LEMMA CardStepsOfCard ==
  ASSUME Gated, NEW w \in Workers, NEW step \in CardSteps, At(w, step)
  PROVE  order.method = Card
<1>1. /\ Len(job[w].plan) \in Nat \ {0} /\ job[w].plan[1] \in CardSteps
      /\ PlanFits(job[w].plan, job[w].target, order, booked.payments)
  BY AtPlan DEF At
<1>2. order.method # Cash
  BY <1>1 DEF PlanFits
<1>3. QED BY <1>2, BooksTyped DEF OrderRow

\* The order is paid from now on: a card order, or one whose payment is booked.
LEMMA PaidMoves ==
  ASSUME Gated, UNCHANGED booked, NEW payment \in BOOLEAN,
         order' = [order EXCEPT !.paid = TRUE, !.payment = payment],
         order.method = Cash => booked.payments > 0
  PROVE  /\ order' \in OrderRow /\ Moves /\ order'.paid
         /\ RowFits(order', booked.payments, charged)
<1>1. order' \in OrderRow
  BY BooksTyped DEF OrderRow
<1>2. order'.method = order.method /\ order'.paid /\ order'.ref = order.ref
  BY BooksTyped DEF OrderRow
<1>3. QED BY <1>1, <1>2, BooksTyped, PaymentsTyped DEF Moves, RowFits

LEMMA OnlyPaid ==
  Gated => /\ [order EXCEPT !.paid = TRUE]
                = [order EXCEPT !.paid = TRUE, !.payment = order.payment]
           /\ order.payment \in BOOLEAN
BY BooksTyped DEF OrderRow

LEMMA SavePaymentGated ==
  ASSUME Gated, NEW w \in Workers, SavePayment(w)
  PROVE  Gated'
<1>1. /\ order' = [order EXCEPT !.payment = TRUE] /\ Continue(w) /\ At(w, "save")
      /\ lock' = None
      /\ UNCHANGED <<log, booked, raced, invoices, mails, charged, faults>>
  BY DEF SavePayment, booksVars, doorVars
<1>2. order' \in OrderRow
  BY <1>1, BooksTyped DEF OrderRow
<1>3. order'.method = order.method /\ order'.paid = order.paid /\ order'.stage = order.stage
      /\ order'.ref = order.ref
  BY <1>1, BooksTyped DEF OrderRow
<1>4. order.method = Cash => booked.payments > 0
  BY <1>1, SettlesBooked DEF Settles
<1>5. RowFits(order', booked.payments, charged) /\ Moves
  BY <1>1, <1>2, <1>3, <1>4, BooksTyped, PaymentsTyped DEF RowFits, Moves
<1>6. JobsFit'
  BY <1>1, <1>5, QuietContinue DEF CardGates, CashGates
<1>7. QED BY <1>1, <1>2, <1>5, <1>6, BooksTyped, RestParts, RowGated

LEMMA MarkCashPaidGated ==
  ASSUME Gated, NEW w \in Workers, MarkCashPaid(w)
  PROVE  Gated'
<1>1. /\ order' = [order EXCEPT !.paid = TRUE] /\ Continue(w) /\ At(w, "cash")
      /\ UNCHANGED <<lock, log, booked, raced, invoices, mails, charged, faults>>
  BY DEF MarkCashPaid, booksVars, doorVars
<1>2. order.method = Cash => booked.payments > 0
  BY <1>1, SettlesBooked DEF Settles
<1>3. order' \in OrderRow /\ Moves /\ RowFits(order', booked.payments, charged)
  BY <1>1, <1>2, OnlyPaid, PaidMoves
<1>4. JobsFit'
  BY <1>1, <1>3, QuietContinue DEF CardGates, CashGates
<1>5. QED BY <1>1, <1>3, <1>4, BooksTyped, RestParts, RowGated

LEMMA MarkSaveGated ==
  ASSUME Gated, NEW w \in Workers, MarkSave(w)
  PROVE  Gated'
<1>1. /\ order' = [order EXCEPT !.payment = TRUE, !.paid = TRUE] /\ Continue(w)
      /\ At(w, "mark_save")
      /\ UNCHANGED <<lock, log, booked, raced, invoices, mails, charged, faults>>
  BY DEF MarkSave, booksVars, doorVars
<1>2. order.method = Cash => booked.payments > 0
  BY <1>1, SettlesBooked DEF Settles
<1>3. order' = [order EXCEPT !.paid = TRUE, !.payment = TRUE]
  BY <1>1, BooksTyped DEF OrderRow
<1>4. order' \in OrderRow /\ Moves /\ RowFits(order', booked.payments, charged)
  BY <1>1, <1>2, <1>3, PaidMoves
<1>5. JobsFit'
  BY <1>1, <1>4, QuietContinue DEF CardGates, CashGates
<1>6. QED BY <1>1, <1>4, <1>5, BooksTyped, RestParts, RowGated

\* "charge" and "verify" leave the plan once the order is paid, or end it.
LEMMA ChargedGated ==
  ASSUME Gated, NEW w \in Workers, RecordCharge(w) \/ VerifyCharge(w)
  PROVE  Gated'
<1>1. PICK step \in CardGates : At(w, step)
  BY DEF RecordCharge, VerifyCharge, CardGates
<1>2. UNCHANGED <<lock, log, booked, raced, invoices, mails, charged, faults>>
  BY DEF RecordCharge, VerifyCharge, booksVars, doorVars
<1>3. order.method = Card
  BY <1>1, CardStepsOfCard DEF CardGates, CardSteps
<1>4. CASE End(w) /\ UNCHANGED order
  BY <1>2, <1>4, StaysMoves, EndFits, BooksTyped, RestParts, RowGated
<1>5. CASE order' = [order EXCEPT !.paid = TRUE] /\ Continue(w)
  <2>1. /\ order' \in OrderRow /\ Moves /\ order'.paid
        /\ RowFits(order', booked.payments, charged)
    BY <1>2, <1>3, <1>5, OnlyPaid, PaidMoves DEF Cash, Card
  <2>2. job[w].plan # <<>> /\ Head(job[w].plan) \notin CashGates
    BY <1>1 DEF At, CardGates, CashGates
  <2>3. JobsFit'
    BY <1>5, <2>1, <2>2, ContinueFits
  <2>4. QED BY <1>2, <2>1, <2>3, BooksTyped, RestParts, RowGated
<1>6. QED BY <1>4, <1>5 DEF RecordCharge, VerifyCharge

LEMMA OpenSessionGated ==
  ASSUME Gated, NEW w \in Workers, OpenSession(w)
  PROVE  Gated'
<1>1. /\ order' = [order EXCEPT !.ref = order.ref + 1] /\ order.ref < MaxSessions
      /\ Continue(w) /\ At(w, "session")
      /\ UNCHANGED <<lock, log, booked, raced, invoices, mails, charged, faults>>
  BY BooksTyped DEF OpenSession, booksVars, doorVars
<1>2. order.method = Card
  BY <1>1, CardStepsOfCard DEF CardSteps
<1>3. order.ref \in Nat /\ order.ref + 1 \in 0..MaxSessions
  BY <1>1, BooksTyped, BoundAssumption DEF OrderRow
<1>4. order' \in OrderRow
  BY <1>1, <1>3, BooksTyped DEF OrderRow
<1>5. order'.method = order.method /\ order'.paid = order.paid /\ order'.stage = order.stage
      /\ order'.ref = order.ref + 1
  BY <1>1, BooksTyped DEF OrderRow
<1>6. RowFits(order', booked.payments, charged) /\ Moves
  BY <1>1, <1>2, <1>3, <1>4, <1>5, BooksTyped, PaymentsTyped DEF RowFits, Moves, Cash, Card
<1>7. JobsFit'
  BY <1>1, <1>6, QuietContinue DEF CardGates, CashGates
<1>8. QED BY <1>1, <1>4, <1>6, <1>7, BooksTyped, RestParts, RowGated

\* The callback finds a session in which a card paid, so the order is a card order.
LEMMA CallbackGated ==
  ASSUME Gated, NEW w \in Workers, Callback(w)
  PROVE  Gated'
<1>1. /\ order' = [order EXCEPT !.paid = TRUE] /\ order.ref \in charged
      /\ job' = [job EXCEPT ![w] = [Idle EXCEPT !.plan = Finalize, !.seen = Seen]]
      /\ UNCHANGED <<lock, log, booked, raced, invoices, mails, charged, faults>>
  BY DEF Callback, booksVars, doorVars
<1>2. order.method = Card
  BY <1>1, BooksTyped DEF RowFits, OrderRow
<1>3. /\ order' \in OrderRow /\ Moves /\ order'.paid
      /\ RowFits(order', booked.payments, charged)
  BY <1>1, <1>2, OnlyPaid, PaidMoves DEF Cash, Card
<1> DEFINE new == [Idle EXCEPT !.plan = Finalize, !.seen = Seen]
<1>4. order'.method = Card
  BY <1>2, <1>3 DEF Moves
<1>5. /\ Finalize \in Seq(Steps)
      /\ \A t : PlanFits(Finalize, t, order', booked'.payments)
  BY <1>3, <1>4, FinalizePlans, SMTT(60)
<1>6. new \in JobState
  <2>1. "delivered" \in Stages
    BY DEF Stages
  <2>2. Finalize \in Seq(Steps)
    BY <1>5
  <2>3. QED BY <2>1, <2>2, StartedTyped
<1>7. new.plan = Finalize
  BY DEF Idle
<1> HIDE DEF new
<1>8. JobsFit'
  BY <1>1, <1>3, <1>5, <1>6, <1>7, OneJob, ZenonT(60) DEF new
<1>9. QED BY <1>1, <1>3, <1>8, BooksTyped, RestParts, RowGated

LEMMA MarkFindInvoiceGated ==
  ASSUME Gated, NEW w \in Workers, MarkFindInvoice(w)
  PROVE  Gated'
<1>1. PICK i \in DOMAIN invoices, named \in BOOLEAN :
        /\ invoices' = IF named THEN invoices ELSE [invoices EXCEPT ![i].status = "sent"]
        /\ IF job[w].seen.invoice # 0 THEN UNCHANGED order
           ELSE Unlocked /\ order' = [order EXCEPT !.invoice = i]
        /\ job' = [job EXCEPT ![w].plan = Rest(w), ![w].invoice = i]
  BY DEF MarkFindInvoice
<1>2. /\ At(w, "mark") /\ UNCHANGED <<lock, log, booked, raced, mails, charged, faults>>
  BY DEF MarkFindInvoice, doorVars
<1>3. i \in 0..MaxInvoices
  BY <1>1, LinkTyped
<1>4. order' \in OrderRow /\ Moves /\ RowFits(order', booked.payments, charged)
  <2>1. CASE UNCHANGED order
    BY <1>2, <2>1, StaysMoves, BooksTyped
  <2>2. CASE order' = [order EXCEPT !.invoice = i]
    BY <1>2, <1>3, <2>2, LinkMoves
  <2>3. QED BY <1>1, <2>1, <2>2
<1>5. invoices' \in Seq(Invoice) /\ Len(invoices') <= MaxInvoices
  <2>1. invoices[i] \in Invoice /\ i \in 1..Len(invoices)
    BY <1>1, BooksTyped
  <2>2. [invoices[i] EXCEPT !.status = "sent"] \in Invoice
    BY <2>1 DEF Invoice
  <2>3. [invoices EXCEPT ![i].status = "sent"]
          = [invoices EXCEPT ![i] = [invoices[i] EXCEPT !.status = "sent"]]
    BY BooksTyped
  <2>4. QED BY <1>1, <2>1, <2>2, <2>3, BooksTyped, ExceptSeq
<1>6. JobsFit'
  <2> DEFINE new == [job[w] EXCEPT !.plan = Rest(w), !.invoice = i]
  <2>1. Rest(w) \in Seq(Steps) /\ PlanFits(Rest(w), job[w].target, order', booked'.payments)
    BY <1>2, <1>4, RestFits DEF At, CardGates, CashGates
  <2>2. job \in [Workers -> JobState] /\ job[w] \in JobState
    BY DEF Gated, TypeOK
  <2>3. new \in JobState /\ new.plan = Rest(w) /\ new.target = job[w].target
    BY <1>3, <2>1, <2>2 DEF JobState
  <2>4. job' = [job EXCEPT ![w] = new]
    BY <1>1, <2>2
  <2> HIDE DEF new
  <2>5. QED BY <1>4, <2>1, <2>3, <2>4, OneJob
<1>7. QED BY <1>2, <1>4, <1>5, <1>6, RestParts, RowGated

LEMMA CancelGated ==
  ASSUME Gated, NEW customer, Cancel(customer)
  PROVE  Gated'
<1>1. /\ order' = [order EXCEPT !.status = "cancelled"]
      /\ UNCHANGED <<lock, log, booked, raced, invoices, mails, charged, faults, job>>
  BY DEF Cancel, booksVars, doorVars
<1>2. order' \in OrderRow
  BY <1>1, BooksTyped DEF OrderRow
<1>3. /\ order'.method = order.method /\ order'.paid = order.paid
      /\ order'.stage = order.stage /\ order'.ref = order.ref
      /\ order'.payment = order.payment
  BY <1>1, BooksTyped DEF OrderRow
<1>4. RowFits(order', booked.payments, charged) /\ Moves
  BY <1>1, <1>2, <1>3, BooksTyped, PaymentsTyped DEF RowFits, Moves
<1>5. JobsFit'
  BY <1>1, <1>4, NoJob
<1>6. QED BY <1>1, <1>2, <1>4, <1>5, BooksTyped, RestParts, RowGated

-----------------------------------------------------------------------------
(***************************************************************************)
(* Steps that book something in Books, and what happens around the shop.   *)
(***************************************************************************)
LEMMA BookedGated ==
  ASSUME Gated, JobsFit', Moves, UNCHANGED <<order, charged, mails>>,
         booked' \in [payments : Nat, journals : [JournalTypes -> Nat], retried : BOOLEAN],
         log' \in [JournalTypes -> Outcomes], raced' \in BOOLEAN,
         invoices' \in Seq(Invoice), Len(invoices') <= MaxInvoices,
         faults' \in 0..MaxFaults, lock' \in Workers \cup {None}
  PROVE  Gated'
<1>1. RestTyped'
  BY GatedParts DEF RestTyped
<1>2. RowFits(order, booked.payments, charged)'
  BY BooksTyped, PaymentsTyped DEF RowFits, Moves
<1>3. QED BY <1>1, <1>2, GatedLater DEF Moves

LEMMA BookedTyped ==
  Gated => /\ booked \in [payments : Nat, journals : [JournalTypes -> Nat], retried : BOOLEAN]
           /\ log \in [JournalTypes -> Outcomes] /\ raced \in BOOLEAN
BY DEF Gated, TypeOK

LEMMA InvoiceStatusTyped ==
  ASSUME Gated, NEW i, NEW status \in {"draft", "sent", "paid", "void"},
         invoices' = [invoices EXCEPT ![i].status = status]
  PROVE  invoices' \in Seq(Invoice) /\ Len(invoices') <= MaxInvoices
<1>1. CASE i \in DOMAIN invoices
  <2>1. invoices[i] \in Invoice /\ i \in 1..Len(invoices)
    BY <1>1, BooksTyped
  <2>2. [invoices[i] EXCEPT !.status = status] \in Invoice
    BY <2>1 DEF Invoice
  <2>3. invoices' = [invoices EXCEPT ![i] = [invoices[i] EXCEPT !.status = status]]
    BY BooksTyped
  <2>4. QED BY <2>1, <2>2, <2>3, BooksTyped, ExceptSeq
<1>2. CASE i \notin DOMAIN invoices
  <2>1. invoices' = invoices
    BY <1>2, BooksTyped
  <2>2. QED BY <2>1, BooksTyped
<1>3. QED BY <1>1, <1>2

LEMMA PayMoves ==
  ASSUME Gated, NEW i, Pay(i), UNCHANGED order
  PROVE  /\ Moves /\ booked'.payments > 0
         /\ booked' \in [payments : Nat, journals : [JournalTypes -> Nat], retried : BOOLEAN]
         /\ invoices' \in Seq(Invoice) /\ Len(invoices') <= MaxInvoices
<1>1. invoices' \in Seq(Invoice) /\ Len(invoices') <= MaxInvoices
  BY InvoiceStatusTyped DEF Pay
<1>2. /\ booked' \in [payments : Nat, journals : [JournalTypes -> Nat], retried : BOOLEAN]
      /\ booked'.payments = booked.payments + 1
  BY BookedTyped DEF Pay
<1>3. QED BY <1>1, <1>2, PaymentsTyped, BooksTyped DEF Moves

\* The payment is booked and its step done, or the request ends.
LEMMA PostGated ==
  ASSUME Gated, NEW w \in Workers, PostPayment(w) \/ MarkPost(w)
  PROVE  Gated'
<1>1. PICK step \in CashGates : At(w, step)
  BY DEF PostPayment, MarkPost, CashGates
<1>2. UNCHANGED <<order, log, raced, mails, charged>> /\ (Fault \/ NoFault)
  BY DEF PostPayment, MarkPost, doorVars
<1>3. lock' \in Workers \cup {None}
  BY RestParts DEF PostPayment, MarkPost
<1>4. CASE Pay(job[w].invoice) /\ (Continue(w) \/ End(w))
  <2>1. /\ Moves /\ booked'.payments > 0
        /\ booked' \in [payments : Nat, journals : [JournalTypes -> Nat], retried : BOOLEAN]
        /\ invoices' \in Seq(Invoice) /\ Len(invoices') <= MaxInvoices
    BY <1>2, <1>4, PayMoves
  <2>2. job[w].plan # <<>> /\ Head(job[w].plan) \notin CardGates
    BY <1>1 DEF At, CardGates, CashGates
  <2>3. JobsFit'
    BY <1>4, <2>1, <2>2, ContinueFits, EndFits
  <2>4. QED BY <1>2, <1>3, <2>1, <2>3, BookedTyped, FaultTyped, BookedGated
<1>5. CASE UNCHANGED <<invoices, booked>> /\ End(w)
  <2>1. Moves
    BY <1>2, <1>5, StaysMoves
  <2>2. JobsFit'
    BY <1>5, <2>1, EndFits
  <2>3. QED BY <1>2, <1>3, <1>5, <2>1, <2>2, BooksTyped, BookedTyped, FaultTyped, BookedGated
<1>6. QED BY <1>4, <1>5 DEF PostPayment, MarkPost

LEMMA AttemptFits ==
  ASSUME Gated, NEW w \in Workers, NEW t \in JournalTypes, NEW step, At(w, step),
         step \notin CardGates \cup CashGates, Attempt(w, t), UNCHANGED order
  PROVE  /\ JobsFit' /\ Moves /\ faults' \in 0..MaxFaults /\ raced' \in BOOLEAN
         /\ booked' \in [payments : Nat, journals : [JournalTypes -> Nat], retried : BOOLEAN]
<1>1. PICK made \in BOOLEAN, answered \in BOOLEAN :
        /\ IF answered THEN NoFault ELSE Fault
        /\ booked' = [booked EXCEPT !.journals[t] = IF made THEN @ + 1 ELSE @,
                                    !.retried = @ \/ Retrying(w, t)]
        /\ raced' = (raced \/ \E v \in Workers \ {w} : Logging(v, t))
        /\ job' = [job EXCEPT ![w].plan = Rest(w),
                              ![w].outcome = IF answered THEN "posted" ELSE "failed"]
  BY DEF Attempt
<1>2. /\ booked' \in [payments : Nat, journals : [JournalTypes -> Nat], retried : BOOLEAN]
      /\ booked'.payments = booked.payments
  <2> DEFINE n == IF made THEN booked.journals[t] + 1 ELSE booked.journals[t]
             journals == [booked.journals EXCEPT ![t] = n]
             retried == booked.retried \/ Retrying(w, t)
  <2>1. n \in Nat /\ retried \in BOOLEAN
    BY BookedTyped
  <2>2. journals \in [JournalTypes -> Nat]
    BY <2>1, BookedTyped
  <2>3. booked' = [booked EXCEPT !.journals = journals, !.retried = retried]
    BY <1>1, BookedTyped
  <2> HIDE DEF journals, retried
  <2>4. QED BY <2>1, <2>2, <2>3, BookedTyped
<1>3. Moves
  BY <1>2, PaymentsTyped, BooksTyped DEF Moves
<1>4. JobsFit'
  <2> DEFINE outcome == IF answered THEN "posted" ELSE "failed"
             new == [job[w] EXCEPT !.plan = Rest(w), !.outcome = outcome]
  <2>1. Rest(w) \in Seq(Steps) /\ PlanFits(Rest(w), job[w].target, order', booked'.payments)
    BY <1>3, RestFits DEF At
  <2>2. job \in [Workers -> JobState] /\ job[w] \in JobState /\ outcome \in Outcomes
    BY DEF Gated, TypeOK, Outcomes
  <2>3. job' = [job EXCEPT ![w] = new]
    BY <1>1, <2>2
  <2> HIDE DEF outcome
  <2>4. new \in JobState /\ new.plan = Rest(w) /\ new.target = job[w].target
    BY <2>1, <2>2 DEF JobState
  <2> HIDE DEF new
  <2>5. QED BY <1>3, <2>1, <2>3, <2>4, OneJob
<1>5. faults' \in 0..MaxFaults /\ raced' \in BOOLEAN
  BY <1>1, FaultTyped, BookedTyped
<1>6. QED BY <1>2, <1>3, <1>4, <1>5

LEMMA JournalGated ==
  ASSUME Gated, NEW w \in Workers, NEW t \in JournalTypes, PostJournal(w, t) \/ PostRetry(w, t)
  PROVE  Gated'
<1>1. UNCHANGED <<order, lock, invoices, log, charged, mails>>
  BY DEF PostJournal, PostRetry, doorVars
<1>2. PICK step \in {"charge_journal", "vat_journal", "charge_retry", "vat_retry"} : At(w, step)
  BY DEF PostJournal, PostRetry, Posting, Retrying
<1>3. step \notin CardGates \cup CashGates
  BY <1>2 DEF CardGates, CashGates
<1>4. CASE Attempt(w, t)
  BY <1>1, <1>2, <1>3, <1>4, AttemptFits, BooksTyped, BookedTyped, RestParts, BookedGated
<1>5. CASE /\ Posting(w, t) /\ Proceed(w, Tail(Rest(w))) /\ NoFault
           /\ UNCHANGED <<booked, raced>>
  <2>1. Moves
    BY <1>1, <1>5, StaysMoves
  <2>2. PICK pair \in Pairs : job[w].plan # <<>> /\ Head(job[w].plan) = pair[1]
    BY <1>5 DEF Posting, At, Pairs
  <2>3. JobsFit'
    BY <1>1, <1>5, <2>1, <2>2, SkipFits
  <2>4. QED
    BY <1>1, <1>5, <2>1, <2>3, BooksTyped, BookedTyped, FaultTyped, RestParts, BookedGated
<1>6. QED BY <1>4, <1>5 DEF PostJournal, PostRetry

LEMMA LogJournalGated ==
  ASSUME Gated, NEW w \in Workers, NEW t \in JournalTypes, LogJournal(w, t)
  PROVE  Gated'
<1>1. /\ UNCHANGED <<order, lock, invoices, booked, raced, charged, mails, faults>>
      /\ log' = [log EXCEPT ![t] = job[w].outcome]
      /\ job' = [job EXCEPT ![w] = [Kept(job[w], Rest(w)) EXCEPT !.outcome = "none"]]
  BY BooksTyped DEF LogJournal, doorVars, Gated, TypeOK
<1>2. PICK step \in {"charge_log", "vat_log"} : At(w, step)
  BY DEF LogJournal, Logging
<1>3. Moves
  BY <1>1, StaysMoves
<1>4. Rest(w) \in Seq(Steps) /\ \A k : PlanFits(Rest(w), k, order', booked'.payments)
  BY <1>2, <1>3, RestFits DEF At, CardGates, CashGates
<1> DEFINE new == [Kept(job[w], Rest(w)) EXCEPT !.outcome = "none"]
<1>5. job[w] \in JobState /\ job[w].outcome \in Outcomes
  BY BooksTyped DEF JobState
<1>6. Kept(job[w], Rest(w)) \in JobState /\ Kept(job[w], Rest(w)).plan = Rest(w)
  BY <1>4, <1>5, KeptTyped
<1>7. new \in JobState /\ new.plan = Rest(w)
  BY <1>6 DEF JobState, Outcomes
<1> HIDE DEF new
<1>8. JobsFit'
  BY <1>1, <1>3, <1>4, <1>7, OneJob DEF new
<1>9. log' \in [JournalTypes -> Outcomes]
  BY <1>1, <1>5, BookedTyped
<1>10. QED
  BY <1>1, <1>3, <1>8, <1>9, BooksTyped, BookedTyped, RestParts, BookedGated

LEMMA BooksStaffGated ==
  ASSUME Gated,
         \/ \E own \in BOOLEAN, status \in {"draft", "sent"} : StaffInvoiceInBooks(own, status)
         \/ \E i \in DOMAIN invoices : StaffVoidInBooks(i)
  PROVE  Gated'
<1>1. UNCHANGED <<order, lock, booked, log, raced, charged, mails, faults, job>>
  BY DEF StaffInvoiceInBooks, StaffVoidInBooks, doorVars
<1>2. invoices' \in Seq(Invoice) /\ Len(invoices') <= MaxInvoices
  <2>1. CASE \E i \in DOMAIN invoices : StaffVoidInBooks(i)
    BY <2>1, InvoiceStatusTyped DEF StaffVoidInBooks
  <2>2. ASSUME NEW own \in BOOLEAN, NEW status \in {"draft", "sent"},
               StaffInvoiceInBooks(own, status)
        PROVE  invoices' \in Seq(Invoice) /\ Len(invoices') <= MaxInvoices
    <3>1. [own |-> own, status |-> status] \in Invoice
      BY DEF Invoice
    <3>2. QED BY <2>2, <3>1, BooksTyped, BoundAssumption DEF StaffInvoiceInBooks
  <2>3. QED BY <2>1, <2>2
<1>3. JobsFit'
  BY <1>1, StaysMoves, NoJob
<1>4. QED BY <1>1, <1>2, <1>3, BooksTyped, RestParts, RowGated

LEMMA CustomerTapsGated ==
  ASSUME Gated, NEW ref \in 1..order.ref, CustomerTaps(ref)
  PROVE  Gated'
<1>1. /\ charged' = charged \cup {ref}
      /\ UNCHANGED <<order, lock, invoices, booked, log, raced, mails, faults, job>>
  BY DEF CustomerTaps, booksVars
<1>2. order.ref \in Nat /\ order.ref <= MaxSessions /\ MaxSessions \in Nat
  BY BooksTyped, BoundAssumption DEF OrderRow
<1>3. JobsFit'
  BY <1>1, StaysMoves, NoJob
<1>4. RestTyped'
  BY <1>1, <1>2, GatedParts DEF RestTyped
<1>5. order' \in OrderRow /\ RowFits(order, booked.payments, charged)'
  BY <1>1, <1>2, BooksTyped DEF RowFits
<1>6. QED BY <1>3, <1>4, <1>5, GatedLater

-----------------------------------------------------------------------------
LEMMA NextGated ==
  ASSUME Gated, [Next]_vars
  PROVE  Gated'
<1>1. CASE UNCHANGED vars
  <2>1. UNCHANGED <<order, lock, log, invoices, booked, charged, mails, faults, raced, job>>
    BY <1>1 DEF vars
  <2>2. JobsFit'
    BY <2>1, StaysMoves, NoJob
  <2>3. QED BY <2>1, <2>2, BooksTyped, RestParts, RowGated
<1>2. ASSUME NEW w \in Workers, Request(w) PROVE Gated'
  BY <1>2, PatchStatusGated, RequestGated, CallbackGated DEF Request
<1>3. ASSUME NEW w \in Workers, Step(w) PROVE Gated'
  BY <1>3, DeliverGated, WriteStageGated, SendMailGated, SaveMailedGated, SaveInvoiceGated,
     EnsureInvoiceGated, LinkInvoiceGated, ReadyGated, RecordPaymentGated, PostGated,
     SavePaymentGated, BookCashGated, MarkCashPaidGated, OpenSessionGated, ChargedGated,
     LinkGivenGated, MarkFindInvoiceGated, MarkNotFoundGated, MarkSaveGated, JournalGated,
     LogJournalGated
     DEF Step
<1>4. ASSUME NEW w \in Workers, Die(w) PROVE Gated'
  BY <1>4, DieGated
<1>5. ASSUME NEW customer \in BOOLEAN, Cancel(customer) PROVE Gated'
  BY <1>5, CancelGated
<1>6. ASSUME NEW ref \in 1..order.ref, CustomerTaps(ref) PROVE Gated'
  BY <1>6, CustomerTapsGated
<1>7. QED
  BY <1>1, <1>2, <1>3, <1>4, <1>5, <1>6, BooksStaffGated DEF Next

LEMMA InitGated == Init => Gated
<1> SUFFICES ASSUME Init PROVE Gated
  OBVIOUS
<1>1. PICK method \in Methods :
        order = [method |-> method, status |-> "pending_zoho_sync", stage |-> "pending",
                 paid |-> FALSE, invoice |-> 0, payment |-> FALSE, mailed |-> FALSE, ref |-> 0]
  BY DEF Init
<1>2. order \in OrderRow /\ 0 \in 0..MaxFaults
  BY <1>1, MethodAssumption, BoundAssumption DEF OrderRow, Stages
<1>3. RestTyped
  <2>1. <<>> \in Seq(Invoice) /\ Len(<<>>) <= MaxInvoices
    BY BoundAssumption
  <2>2. [t \in JournalTypes |-> "none"] \in [JournalTypes -> Outcomes]
    BY DEF Outcomes
  <2>3. booked \in [payments : Nat, journals : [JournalTypes -> Nat], retried : BOOLEAN]
    BY DEF Init
  <2>4. QED BY <1>2, <2>1, <2>2, <2>3 DEF Init, RestTyped
<1>4. RowFits(order, booked.payments, charged)
  BY <1>1 DEF Init, RowFits
<1>5. JobsFit
  BY IdleTyped, NoPlanFits DEF Init, JobsFit
<1>6. QED BY <1>2, <1>3, <1>4, <1>5, GatedParts

\* The rows, the logs and the requests keep their types, for any number of threads.
THEOREM DeliveryTyped == Spec => []TypeOK
<1>1. Gated => TypeOK
  BY DEF Gated
<1>2. QED BY <1>1, InitGated, NextGated, PTL DEF Spec

\* A card order is delivered only when it is paid, whatever the callback, the
\* reconciliation, the driver and the staff do at the same time and whatever they had
\* read: finalize_card_on_delivery only follows a charge that was saved.
THEOREM CardOrdersArePaid == Spec => []CardDeliveredIsPaid
<1>1. Gated => CardDeliveredIsPaid
  BY DEF Gated, RowFits, CardDeliveredIsPaid
<1>2. QED BY <1>1, InitGated, NextGated, PTL DEF Spec

\* A cash order is paid only when Books has its payment: no failure, lost answer, death or
\* second thread takes _mark_cod_payment_collected past the booking.
THEOREM CashOrdersAreBooked == Spec => []CashPaidIsBooked
<1>1. Gated => CashPaidIsBooked
  BY DEF Gated, RowFits, CashPaidIsBooked
<1>2. QED BY <1>1, InitGated, NextGated, PTL DEF Spec

-----------------------------------------------------------------------------
(***************************************************************************)
(* The journals and the link to the invoice.                               *)
(*                                                                         *)
(* A thread that has booked a payment and still has a journal to post owes *)
(* it: journals made and owed together are never more than payments.  A    *)
(* thread whose plan has the save of a payment but no longer the step that *)
(* looked at the invoice counts on the link, and in a clean run a link is  *)
(* never cleared.  Both rest on the order of the steps in a plan.          *)
(***************************************************************************)
JournalStep(t) == IF t = "payment_charge" THEN "charge_journal" ELSE "vat_journal"

JournalSteps == {"charge_journal", "vat_journal"}
RetrySteps == {"charge_retry", "vat_retry"}
LogSteps == {"charge_log", "vat_log"}
Attempts == JournalSteps \cup RetrySteps
Looks == {"record", "mark"}
Saves == {"save", "mark_save"}
Telling == Attempts \cup LogSteps \cup CashGates \cup Looks \cup Saves

Has(plan, step) == \E k \in 1..Len(plan) : plan[k] = step

Sooner(A, B, plan) == \A j \in 1..Len(plan), k \in 1..Len(plan) :
                        plan[j] \in A /\ plan[k] \in B => j < k

\* A journal is posted once in a plan.
Once(plan) == \A j \in 1..Len(plan), k \in 1..Len(plan) :
                plan[j] = plan[k] /\ plan[j] \in JournalSteps => j = k

\* An attempt comes right before its log.
Preceded(plan) == \A k \in 2..Len(plan) : plan[k] \in LogSteps => plan[k - 1] \in Attempts

Shape(plan) == /\ Once(plan) /\ Preceded(plan)
               /\ Sooner(CashGates, JournalSteps, plan) /\ Sooner(Looks, Saves, plan)

LogFirst(plan) == Len(plan) > 0 /\ plan[1] \in LogSteps

Owes(plan, t) == Has(plan, JournalStep(t)) /\ ~Has(plan, "post") /\ ~Has(plan, "mark_post")

Retries(plan) == Has(plan, "charge_retry") \/ Has(plan, "vat_retry")

Settling(plan) == /\ Has(plan, "save") \/ Has(plan, "mark_save")
                  /\ ~Has(plan, "record") /\ ~Has(plan, "mark")

\* A plan that owes nothing and counts on nothing.
Fresh(plan) == /\ Shape(plan) /\ ~LogFirst(plan)
               /\ ~Settling(plan) /\ \A t : ~Owes(plan, t)

\* What is left of a plan owes what the plan did.
Onward(old, plan) ==
  /\ Shape(plan) /\ ~LogFirst(plan)
  /\ \A t : Owes(plan, t) => Owes(old, t)
  /\ Retries(plan) => Retries(old)

LEMMA TailHas ==
  ASSUME NEW s \in Seq(Steps), s # <<>>
  PROVE  /\ Tail(s) \in Seq(Steps) /\ Len(s) \in Nat \ {0} /\ s[1] = Head(s)
         /\ \A x : Has(s, x) <=> (Head(s) = x \/ Has(Tail(s), x))
<1> DEFINE r == Tail(s)
<1>1. /\ r \in Seq(Steps) /\ Len(s) \in Nat \ {0} /\ Len(r) = Len(s) - 1
      /\ \A k \in 1..Len(r) : r[k] = s[k + 1]
      /\ Head(s) = s[1]
  BY RestOfPlan
<1> HIDE DEF r
<1>2. ASSUME NEW x, Has(s, x), Head(s) # x PROVE Has(r, x)
  <2>1. PICK k \in 1..Len(s) : s[k] = x
    BY <1>2 DEF Has
  <2>2. k - 1 \in 1..Len(r) /\ r[k - 1] = x
    BY <1>1, <1>2, <2>1
  <2>3. QED BY <2>2 DEF Has
<1>3. ASSUME NEW x, Has(r, x) PROVE Has(s, x)
  <2>1. PICK k \in 1..Len(r) : r[k] = x
    BY <1>3 DEF Has
  <2>2. k + 1 \in 1..Len(s) /\ s[k + 1] = x
    BY <1>1, <2>1
  <2>3. QED BY <2>2 DEF Has
<1>4. ASSUME NEW x, Head(s) = x PROVE Has(s, x)
  BY <1>1, <1>4 DEF Has
<1>5. QED BY <1>1, <1>2, <1>3, <1>4 DEF r

LEMMA TailShape ==
  ASSUME NEW s \in Seq(Steps), s # <<>>, Shape(s)
  PROVE  /\ Shape(Tail(s))
         /\ Head(s) \notin Attempts => ~LogFirst(Tail(s))
         /\ \A t : Head(s) = JournalStep(t) => ~Owes(Tail(s), t) /\ Owes(s, t)
         /\ Head(s) \in Saves => Settling(s)
<1> DEFINE r == Tail(s)
<1>1. /\ r \in Seq(Steps) /\ Len(s) \in Nat \ {0} /\ Len(r) \in Nat /\ Len(r) = Len(s) - 1
      /\ \A k \in 1..Len(r) : r[k] = s[k + 1]
      /\ Head(s) = s[1]
  BY RestOfPlan
<1> HIDE DEF r
<1>2. \A k \in 1..Len(r) : k + 1 \in 1..Len(s) /\ k \in Nat
  BY <1>1
<1>3. Once(r)
  <2>1. SUFFICES ASSUME NEW j \in 1..Len(r), NEW k \in 1..Len(r), r[j] = r[k],
                        r[j] \in JournalSteps
                 PROVE  j = k
    BY DEF Once
  <2>2. j + 1 = k + 1
    BY <1>1, <1>2, <2>1 DEF Shape, Once
  <2>3. QED BY <1>2, <2>2
<1>4. Preceded(r)
  <2>1. SUFFICES ASSUME NEW k \in 2..Len(r), r[k] \in LogSteps PROVE r[k - 1] \in Attempts
    BY DEF Preceded
  <2>2. k + 1 \in 2..Len(s) /\ s[k + 1] \in LogSteps /\ k - 1 \in 1..Len(r) /\ k + 1 - 1 = k
        /\ k - 1 + 1 = k
    BY <1>1, <2>1
  <2>3. s[k] \in Attempts
    BY <2>2 DEF Shape, Preceded
  <2>4. QED BY <1>1, <2>2, <2>3
<1>5. ASSUME NEW A, NEW B, Sooner(A, B, s) PROVE Sooner(A, B, r)
  <2>1. SUFFICES ASSUME NEW j \in 1..Len(r), NEW k \in 1..Len(r), r[j] \in A, r[k] \in B
                 PROVE  j < k
    BY DEF Sooner
  <2>2. j + 1 < k + 1
    BY <1>1, <1>2, <1>5, <2>1 DEF Sooner
  <2>3. QED BY <1>2, <2>2
<1>6. Shape(r)
  BY <1>3, <1>4, <1>5 DEF Shape
<1>7. ASSUME LogFirst(r) PROVE Head(s) \in Attempts
  <2>1. 2 \in 2..Len(s) /\ s[2] \in LogSteps /\ 2 - 1 = 1 /\ 1 \in 1..Len(r) /\ 1 + 1 = 2
    BY <1>1, <1>7 DEF LogFirst
  <2>2. QED BY <1>1, <2>1 DEF Shape, Preceded
<1>8. ASSUME NEW t, Head(s) = JournalStep(t) PROVE ~Owes(r, t) /\ Owes(s, t)
  <2>1. s[1] \in JournalSteps /\ 1 \in 1..Len(s)
    BY <1>1, <1>8 DEF JournalStep, JournalSteps
  <2>2. ASSUME NEW k \in 1..Len(r), r[k] = JournalStep(t) PROVE FALSE
    <3>1. k + 1 = 1
      BY <1>1, <1>2, <1>8, <2>1, <2>2 DEF Shape, Once
    <3>2. QED BY <1>2, <3>1
  <2>3. ASSUME NEW k \in 1..Len(s), s[k] \in CashGates PROVE FALSE
    <3>1. k < 1
      BY <2>1, <2>3 DEF Shape, Sooner
    <3>2. QED BY <3>1
  <2>4. ~Has(s, "post") /\ ~Has(s, "mark_post")
    BY <2>3 DEF Has, CashGates
  <2>5. QED BY <1>1, <1>8, <2>1, <2>2, <2>4 DEF Owes, Has
<1>9. ASSUME Head(s) \in Saves PROVE Settling(s)
  <2>1. 1 \in 1..Len(s)
    BY <1>1
  <2>2. ASSUME NEW k \in 1..Len(s), s[k] \in Looks PROVE FALSE
    <3>1. k < 1
      BY <1>1, <1>9, <2>1, <2>2 DEF Shape, Sooner
    <3>2. QED BY <3>1
  <2>3. ~Has(s, "record") /\ ~Has(s, "mark")
    BY <2>2 DEF Has, Looks
  <2>4. QED BY <1>1, <1>9, <2>1, <2>3 DEF Settling, Has, Saves
<1>10. QED BY <1>6, <1>7, <1>8, <1>9 DEF r

\* A step that is neither an attempt nor a booking is done.
LEMMA OnwardTail ==
  ASSUME NEW s \in Seq(Steps), s # <<>>, Shape(s), Head(s) \notin Attempts \cup CashGates
  PROVE  Onward(s, Tail(s))
<1>1. Shape(Tail(s)) /\ ~LogFirst(Tail(s))
  BY TailShape
<1>2. \A x : Has(s, x) <=> (Head(s) = x \/ Has(Tail(s), x))
  BY TailHas
<1>3. QED BY <1>1, <1>2 DEF Onward, Owes, Retries, CashGates

\* ... and one that books a payment: from now on the journals are owed.
LEMMA PaidTail ==
  ASSUME NEW s \in Seq(Steps), s # <<>>, Shape(s), Head(s) \in CashGates
  PROVE  /\ Shape(Tail(s)) /\ ~LogFirst(Tail(s))
         /\ Retries(Tail(s)) => Retries(s)
<1>1. Shape(Tail(s)) /\ ~LogFirst(Tail(s))
  BY TailShape DEF CashGates, Attempts, JournalSteps, RetrySteps
<1>2. \A x : Has(s, x) <=> (Head(s) = x \/ Has(Tail(s), x))
  BY TailHas
<1>3. QED BY <1>1, <1>2 DEF Retries

\* ... and an attempt.
LEMMA AttemptTail ==
  ASSUME NEW s \in Seq(Steps), s # <<>>, Shape(s), Head(s) \in Attempts
  PROVE  /\ Shape(Tail(s))
         /\ \A t : Owes(Tail(s), t) => Owes(s, t) /\ Head(s) # JournalStep(t)
         /\ Retries(Tail(s)) => Retries(s)
<1>1. Shape(Tail(s)) /\ \A t : Head(s) = JournalStep(t) => ~Owes(Tail(s), t)
  BY TailShape
<1>2. \A x : Has(s, x) <=> (Head(s) = x \/ Has(Tail(s), x))
  BY TailHas
<1>3. Head(s) \notin CashGates
  BY DEF CashGates, Attempts, JournalSteps, RetrySteps
<1>4. QED BY <1>1, <1>2, <1>3 DEF Retries, Owes, CashGates

\* A step is skipped with the next one.
LEMMA OnwardSkip ==
  ASSUME NEW s \in Seq(Steps), s # <<>>, Shape(s), Tail(s) # <<>>,
         Head(s) \notin CashGates, Head(Tail(s)) \notin Attempts \cup CashGates
  PROVE  Onward(s, Tail(Tail(s)))
<1> DEFINE r == Tail(s)
<1>1. /\ r \in Seq(Steps) /\ r # <<>> /\ Shape(r) /\ Head(r) \notin Attempts \cup CashGates
      /\ \A x : Has(s, x) <=> (Head(s) = x \/ Has(r, x))
  BY TailShape, TailHas
<1> HIDE DEF r
<1>2. Onward(r, Tail(r))
  BY <1>1, OnwardTail
<1>3. QED BY <1>1, <1>2 DEF Onward, Owes, Retries, CashGates, r

LEMMA PrependHas ==
  ASSUME NEW s \in Seq(Steps), NEW y \in Steps
  PROVE  /\ <<y>> \o s \in Seq(Steps) /\ (<<y>> \o s)[1] = y
         /\ Len(<<y>> \o s) = Len(s) + 1 /\ Len(s) \in Nat
         /\ \A k \in 1..Len(s) : (<<y>> \o s)[k + 1] = s[k]
         /\ \A x : Has(<<y>> \o s, x) <=> (y = x \/ Has(s, x))
<1> DEFINE q == <<y>> \o s
<1>1. /\ q \in Seq(Steps) /\ Len(s) \in Nat /\ Len(q) = Len(s) + 1 /\ q[1] = y
      /\ \A k \in 2..Len(q) : q[k] = s[k - 1]
  OBVIOUS
<1> HIDE DEF q
<1>2. \A k \in 1..Len(s) : q[k + 1] = s[k]
  <2>1. SUFFICES ASSUME NEW k \in 1..Len(s) PROVE q[k + 1] = s[k]
    OBVIOUS
  <2>2. k + 1 \in 2..Len(q) /\ k + 1 - 1 = k
    BY <1>1
  <2>3. QED BY <1>1, <2>2
<1>3. ASSUME NEW x, Has(q, x), y # x PROVE Has(s, x)
  <2>1. PICK k \in 1..Len(q) : q[k] = x
    BY <1>3 DEF Has
  <2>2. k \in 2..Len(q) /\ k - 1 \in 1..Len(s)
    BY <1>1, <1>3, <2>1
  <2>3. QED BY <1>1, <2>1, <2>2 DEF Has
<1>4. ASSUME NEW x, Has(s, x) PROVE Has(q, x)
  <2>1. PICK k \in 1..Len(s) : s[k] = x
    BY <1>4 DEF Has
  <2>2. k + 1 \in 1..Len(q)
    BY <1>1
  <2>3. QED BY <1>2, <2>1, <2>2 DEF Has
<1>5. Has(q, y)
  BY <1>1 DEF Has
<1>6. QED BY <1>1, <1>2, <1>3, <1>4, <1>5 DEF q

\* A step in front that no journal and no link depends on.
LEMMA PrependShape ==
  ASSUME NEW s \in Seq(Steps), NEW y \in Steps \ Telling, Shape(s), ~LogFirst(s)
  PROVE  /\ Shape(<<y>> \o s) /\ ~LogFirst(<<y>> \o s)
         /\ \A t : Owes(<<y>> \o s, t) <=> Owes(s, t)
         /\ Retries(<<y>> \o s) <=> Retries(s)
         /\ Settling(<<y>> \o s) <=> Settling(s)
<1> DEFINE q == <<y>> \o s
<1>1. /\ q \in Seq(Steps) /\ q[1] = y /\ Len(q) = Len(s) + 1 /\ Len(s) \in Nat
      /\ \A k \in 1..Len(s) : q[k + 1] = s[k]
      /\ \A x : Has(q, x) <=> (y = x \/ Has(s, x))
  BY PrependHas
<1>2. /\ y \notin Attempts \cup LogSteps \cup JournalSteps \cup CashGates \cup Looks \cup Saves
  BY DEF Telling, Attempts
<1> HIDE DEF q
<1>3. \A k \in 1..Len(q) : k = 1 \/ (k - 1 \in 1..Len(s) /\ q[k] = s[k - 1] /\ k \in Int)
  <2>1. SUFFICES ASSUME NEW k \in 1..Len(q), k # 1
                 PROVE  k - 1 \in 1..Len(s) /\ q[k] = s[k - 1] /\ k \in Int
    OBVIOUS
  <2>2. k - 1 \in 1..Len(s) /\ k - 1 + 1 = k /\ k \in Int
    BY <1>1, <2>1
  <2>3. q[k - 1 + 1] = s[k - 1]
    BY <1>1, <2>2
  <2>4. QED BY <2>2, <2>3
<1>4. Once(q)
  <2>1. SUFFICES ASSUME NEW j \in 1..Len(q), NEW k \in 1..Len(q), q[j] = q[k],
                        q[j] \in JournalSteps
                 PROVE  j = k
    BY DEF Once
  <2>2. j # 1 /\ k # 1
    BY <1>1, <1>2, <2>1
  <2>3. j - 1 = k - 1
    BY <1>3, <2>1, <2>2 DEF Shape, Once
  <2>4. QED BY <1>3, <2>2, <2>3
<1>5. Preceded(q)
  <2>1. SUFFICES ASSUME NEW k \in 2..Len(q), q[k] \in LogSteps PROVE q[k - 1] \in Attempts
    BY DEF Preceded
  <2>2. k - 1 \in 1..Len(s) /\ q[k] = s[k - 1] /\ k \in Int
    BY <1>1, <1>3
  <2>3. k - 1 # 1
    BY <1>1, <2>1, <2>2 DEF LogFirst
  <2>4. k - 1 \in 2..Len(s) /\ k - 1 \in 1..Len(q) /\ k - 1 - 1 \in 1..Len(s)
        /\ q[k - 1] = s[k - 1 - 1]
    BY <1>1, <1>3, <2>2, <2>3
  <2>5. s[k - 1 - 1] \in Attempts
    BY <2>1, <2>2, <2>4 DEF Shape, Preceded
  <2>6. QED BY <2>4, <2>5
<1>6. ASSUME NEW A, NEW B, Sooner(A, B, s), y \notin A \cup B PROVE Sooner(A, B, q)
  <2>1. SUFFICES ASSUME NEW j \in 1..Len(q), NEW k \in 1..Len(q), q[j] \in A, q[k] \in B
                 PROVE  j < k
    BY DEF Sooner
  <2>2. j # 1 /\ k # 1
    BY <1>1, <1>6, <2>1
  <2>3. j - 1 < k - 1
    BY <1>3, <1>6, <2>1, <2>2 DEF Sooner
  <2>4. QED BY <1>3, <2>2, <2>3
<1>7. Shape(q)
  BY <1>2, <1>4, <1>5, <1>6 DEF Shape
<1>8. ~LogFirst(q)
  BY <1>1, <1>2 DEF LogFirst
<1>9. /\ \A t : Owes(q, t) <=> Owes(s, t)
      /\ Retries(q) <=> Retries(s)
      /\ Settling(q) <=> Settling(s)
  <2>1. \A t : y # JournalStep(t)
    BY <1>2 DEF JournalStep, JournalSteps
  <2>2. y \notin {"post", "mark_post", "save", "mark_save", "record", "mark", "charge_retry",
                  "vat_retry"}
    BY <1>2 DEF CashGates, Saves, Looks, Attempts, RetrySteps
  <2>3. QED BY <1>1, <2>1, <2>2 DEF Owes, Retries, Settling
<1>10. QED BY <1>7, <1>8, <1>9 DEF q

LEMMA OnwardPrepend ==
  ASSUME NEW old, NEW s \in Seq(Steps), Onward(old, s), NEW y \in Steps \ Telling
  PROVE  <<y>> \o s \in Seq(Steps) /\ Onward(old, <<y>> \o s)
BY PrependShape, PrependHas DEF Onward

LEMMA FreshPrepend ==
  ASSUME NEW s \in Seq(Steps), Fresh(s), NEW y \in Steps \ Telling
  PROVE  /\ <<y>> \o s \in Seq(Steps) /\ Fresh(<<y>> \o s)
         /\ Retries(<<y>> \o s) <=> Retries(s)
BY PrependShape, PrependHas DEF Fresh

LEMMA NoPlan ==
  /\ <<>> \in Seq(Steps) /\ Fresh(<<>>) /\ ~Retries(<<>>)
  /\ \A old : Onward(old, <<>>)
<1>1. <<>> \in Seq(Steps) /\ Len(<<>>) = 0
  OBVIOUS
<1>2. \A x : ~Has(<<>>, x)
  BY DEF Has
<1>3. Shape(<<>>) /\ ~LogFirst(<<>>)
  BY <1>1 DEF Shape, Once, Preceded, Sooner, LogFirst
<1>4. QED BY <1>1, <1>2, <1>3 DEF Fresh, Onward, Owes, Retries, Settling

LEMMA TellingNot ==
  {"invoice", "write", "cash", "ensure", "ready", "deliver", "book", "invoiced", "session",
   "charge", "given", "verify", "link", "mail", "mailed"} \subseteq Steps \ Telling
BY DEF Steps, Telling, Attempts, JournalSteps, RetrySteps, LogSteps, CashGates, Looks, Saves

LEMMA QuietPlan ==
  ASSUME NEW s \in Seq(Steps), \A k \in 1..Len(s) : s[k] \notin Telling
  PROVE  Fresh(s) /\ ~Retries(s)
<1>1. Len(s) \in Nat
  OBVIOUS
<1>2. \A x \in Telling : ~Has(s, x)
  BY DEF Has
<1>3. \A k \in 1..Len(s) : s[k] \notin LogSteps \cup JournalSteps \cup CashGates \cup Looks \cup Saves
  BY DEF Telling, Attempts
<1>4. Once(s) /\ Preceded(s)
  BY <1>1, <1>3 DEF Once, Preceded
<1>5. Sooner(CashGates, JournalSteps, s) /\ Sooner(Looks, Saves, s)
  BY <1>3 DEF Sooner
<1>6. ~LogFirst(s)
  BY <1>1, <1>3 DEF LogFirst
<1>7. ~Settling(s) /\ ~Retries(s)
  BY <1>2 DEF Settling, Retries, Telling, Saves, Attempts, RetrySteps
<1>8. \A t : ~Owes(s, t)
  BY <1>2 DEF Owes, Telling, Attempts, JournalSteps, JournalStep
<1>9. QED BY <1>4, <1>5, <1>6, <1>7, <1>8 DEF Fresh, Shape

LEMMA QuietPlans ==
  ASSUME NEW s, \/ s = <<"invoice">> \/ s = <<"write">> \/ s = <<"cash">>
                \/ s = <<"ensure", "ready", "deliver", "book">>
                \/ s = <<"ensure", "invoiced", "session">>
  PROVE  s \in Seq(Steps) /\ Fresh(s) /\ ~Retries(s)
<1> DEFINE Q == {"invoice", "write", "cash", "ensure", "ready", "deliver", "book", "invoiced",
                 "session"}
<1>1. Q \subseteq Steps \ Telling
  BY TellingNot
<1>2. s \in Seq(Q)
  <2>1. CASE s = <<"invoice">>
    BY <2>1
  <2>2. CASE s = <<"write">>
    BY <2>2
  <2>3. CASE s = <<"cash">>
    BY <2>3
  <2>4. CASE s = <<"ensure", "ready", "deliver", "book">>
    BY <2>4
  <2>5. CASE s = <<"ensure", "invoiced", "session">>
    BY <2>5
  <2>6. QED BY <2>1, <2>2, <2>3, <2>4, <2>5
<1> HIDE DEF Q
<1>3. s \in Seq(Steps) /\ \A k \in 1..Len(s) : s[k] \notin Telling
  BY <1>1, <1>2
<1>4. QED BY <1>3, QuietPlan

LEMMA RetryPlans ==
  ASSUME NEW s, s = <<"charge_retry", "charge_log">> \/ s = <<"vat_retry", "vat_log">>
  PROVE  s \in Seq(Steps) /\ Fresh(s)
<1>1. /\ s \in Seq(Steps) /\ Len(s) = 2 /\ s[1] \in RetrySteps /\ s[2] \in LogSteps
  <2>1. CASE s = <<"charge_retry", "charge_log">>
    BY <2>1 DEF Steps, RetrySteps, LogSteps
  <2>2. CASE s = <<"vat_retry", "vat_log">>
    BY <2>2 DEF Steps, RetrySteps, LogSteps
  <2>3. QED BY <2>1, <2>2
<1>2. \A k \in 1..Len(s) : s[k] \in RetrySteps \cup LogSteps
  BY <1>1
<1>3. (RetrySteps \cup LogSteps) \cap (JournalSteps \cup CashGates \cup Looks \cup Saves) = {}
  BY DEF RetrySteps, LogSteps, JournalSteps, CashGates, Looks, Saves
<1>4. Once(s)
  BY <1>2, <1>3 DEF Once
<1>5. Preceded(s)
  BY <1>1 DEF Preceded, Attempts
<1>6. Sooner(CashGates, JournalSteps, s) /\ Sooner(Looks, Saves, s)
  BY <1>2, <1>3 DEF Sooner
<1>7. ~LogFirst(s)
  BY <1>1 DEF LogFirst, RetrySteps, LogSteps
<1>8. ~Settling(s)
  BY <1>2, <1>3 DEF Settling, Has, Saves
<1>9. \A t : ~Owes(s, t)
  BY <1>2, <1>3 DEF Owes, Has, JournalStep, JournalSteps
<1>10. QED BY <1>1, <1>4, <1>5, <1>6, <1>7, <1>8, <1>9 DEF Fresh, Shape

LEMMA FreshBook ==
  ASSUME NEW s, s = <<"ensure", "invoiced", "record", "post", "save", "cash">>
  PROVE  s \in Seq(Steps) /\ Fresh(s) /\ ~Retries(s)
<1>1. /\ s \in Seq(Steps) /\ Len(s) = 6 /\ s[1] = "ensure" /\ s[2] = "invoiced"
      /\ s[3] = "record" /\ s[4] = "post" /\ s[5] = "save" /\ s[6] = "cash"
  BY DEF Steps
<1>2. \A k \in 1..Len(s) : s[k] \notin Attempts \cup LogSteps
  BY <1>1 DEF Attempts, JournalSteps, RetrySteps, LogSteps
<1>3. Once(s) /\ Preceded(s) /\ Sooner(CashGates, JournalSteps, s)
  BY <1>1, <1>2 DEF Once, Preceded, Sooner, Attempts
<1>4. Sooner(Looks, Saves, s)
  BY <1>1 DEF Sooner, Looks, Saves
<1>5. ~LogFirst(s) /\ ~Retries(s)
  BY <1>1, <1>2 DEF LogFirst, Retries, Has, Attempts, RetrySteps
<1>6. ~Settling(s)
  BY <1>1 DEF Settling, Has
<1>7. \A t : ~Owes(s, t)
  BY <1>2 DEF Owes, Has, JournalStep, Attempts, JournalSteps
<1>8. QED BY <1>1, <1>3, <1>4, <1>5, <1>6, <1>7 DEF Fresh, Shape

LEMMA FreshVerify ==
  ASSUME NEW s, s = <<"record", "post", "save", "deliver">>
  PROVE  s \in Seq(Steps) /\ Fresh(s) /\ ~Retries(s)
<1>1. /\ s \in Seq(Steps) /\ Len(s) = 4
      /\ s[1] = "record" /\ s[2] = "post" /\ s[3] = "save" /\ s[4] = "deliver"
  BY DEF Steps
<1>2. \A k \in 1..Len(s) : s[k] \notin Attempts \cup LogSteps
  BY <1>1 DEF Attempts, JournalSteps, RetrySteps, LogSteps
<1>3. Once(s) /\ Preceded(s) /\ Sooner(CashGates, JournalSteps, s)
  BY <1>1, <1>2 DEF Once, Preceded, Sooner, Attempts
<1>4. Sooner(Looks, Saves, s)
  BY <1>1 DEF Sooner, Looks, Saves
<1>5. ~LogFirst(s) /\ ~Retries(s)
  BY <1>1, <1>2 DEF LogFirst, Retries, Has, Attempts, RetrySteps
<1>6. ~Settling(s)
  BY <1>1 DEF Settling, Has
<1>7. \A t : ~Owes(s, t)
  BY <1>2 DEF Owes, Has, JournalStep, Attempts, JournalSteps
<1>8. QED BY <1>1, <1>3, <1>4, <1>5, <1>6, <1>7 DEF Fresh, Shape

LEMMA FreshMark ==
  LET s == <<"mark", "mark_post", "mark_save">> \o Journals
  IN s \in Seq(Steps) /\ Fresh(s) /\ ~Retries(s)
<1> DEFINE s == <<"mark", "mark_post", "mark_save">> \o Journals
<1>1. /\ s \in Seq(Steps) /\ Len(s) = 7 /\ s[1] = "mark" /\ s[2] = "mark_post"
      /\ s[3] = "mark_save" /\ s[4] = "charge_journal" /\ s[5] = "charge_log"
      /\ s[6] = "vat_journal" /\ s[7] = "vat_log"
  BY DEF Steps, Journals
<1> HIDE DEF s
<1>2. Once(s)
  BY <1>1 DEF Once, JournalSteps
<1>3. Preceded(s)
  BY <1>1 DEF Preceded, LogSteps, Attempts, JournalSteps
<1>4. Sooner(CashGates, JournalSteps, s) /\ Sooner(Looks, Saves, s)
  <2>1. Sooner(CashGates, JournalSteps, s)
    BY <1>1 DEF Sooner, CashGates, JournalSteps
  <2>2. Sooner(Looks, Saves, s)
    BY <1>1 DEF Sooner, Looks, Saves
  <2>3. QED BY <2>1, <2>2
<1>5. ~LogFirst(s) /\ ~Retries(s)
  <2>1. ~LogFirst(s)
    BY <1>1 DEF LogFirst, LogSteps
  <2>2. \A k \in 1..Len(s) : s[k] \notin RetrySteps
    BY <1>1 DEF RetrySteps
  <2>3. QED BY <2>1, <2>2 DEF Retries, Has, RetrySteps
<1>6. Has(s, "mark") /\ Has(s, "mark_post")
  BY <1>1 DEF Has
<1>7. Fresh(s)
  BY <1>2, <1>3, <1>4, <1>5, <1>6 DEF Fresh, Shape, Settling, Owes
<1>8. QED BY <1>1, <1>5, <1>7 DEF s

LEMMA FreshFinalize ==
  Finalize \in Seq(Steps) /\ Fresh(Finalize) /\ ~Retries(Finalize)
<1> DEFINE s == Finalize
<1>1. /\ s \in Seq(Steps) /\ Len(s) = 8
      /\ s[1] = "deliver" /\ s[2] = "record" /\ s[3] = "post" /\ s[4] = "save"
      /\ s[5] = "charge_journal" /\ s[6] = "charge_log"
      /\ s[7] = "vat_journal" /\ s[8] = "vat_log"
  BY DEF Finalize, Journals, Steps
<1> HIDE DEF s
<1>2. Once(s)
  BY <1>1 DEF Once, JournalSteps
<1>3. Preceded(s)
  BY <1>1 DEF Preceded, LogSteps, Attempts, JournalSteps
<1>4. Sooner(CashGates, JournalSteps, s) /\ Sooner(Looks, Saves, s)
  <2>1. Sooner(CashGates, JournalSteps, s)
    BY <1>1 DEF Sooner, CashGates, JournalSteps
  <2>2. Sooner(Looks, Saves, s)
    BY <1>1 DEF Sooner, Looks, Saves
  <2>3. QED BY <2>1, <2>2
<1>5. ~LogFirst(s) /\ ~Retries(s)
  BY <1>1 DEF LogFirst, LogSteps, Retries, Has
<1>6. Has(s, "record") /\ Has(s, "post")
  BY <1>1 DEF Has
<1>7. Fresh(s)
  BY <1>2, <1>3, <1>4, <1>5, <1>6 DEF Fresh, Shape, Settling, Owes
<1>8. QED BY <1>1, <1>5, <1>7 DEF s

LEMMA FreshFinalizes ==
  ASSUME NEW s, \/ s = <<"charge">> \o Finalize
                \/ s = <<"given", "verify">> \o Finalize
                \/ s = <<"ensure", "invoiced", "given", "verify">> \o Finalize
  PROVE  s \in Seq(Steps) /\ Fresh(s) /\ ~Retries(s)
<1> DEFINE f == Finalize
           Good(plan) == plan \in Seq(Steps) /\ Fresh(plan) /\ ~Retries(plan)
<1>1. Good(f) /\ f \in Seq(Steps)
  BY FreshFinalize
<1>2. ASSUME NEW plan, Good(plan), NEW y \in Steps \ Telling PROVE Good(<<y>> \o plan)
  BY <1>2, FreshPrepend
<1>3. {"charge", "given", "verify", "ensure", "invoiced"} \subseteq Steps \ Telling
  BY TellingNot
<1> HIDE DEF f, Good
<1>4. PICK a : a = <<"verify">> \o f /\ Good(a)
  BY <1>1, <1>2, <1>3
<1>5. PICK b : b = <<"given">> \o a /\ Good(b)
  BY <1>2, <1>3, <1>4
<1>6. PICK c : c = <<"invoiced">> \o b /\ Good(c)
  BY <1>2, <1>3, <1>5
<1>7. PICK d : d = <<"ensure">> \o c /\ Good(d)
  BY <1>2, <1>3, <1>6
<1>8. Good(<<"charge">> \o f)
  BY <1>1, <1>2, <1>3
<1>9. <<"given", "verify">> \o f = b
  BY <1>1, <1>4, <1>5
<1>10. <<"ensure", "invoiced", "given", "verify">> \o f = d
  <2>1. <<"ensure", "invoiced", "given", "verify">> = <<"ensure", "invoiced">> \o <<"given", "verify">>
    OBVIOUS
  <2>2. <<"ensure", "invoiced">> \o b = d
    BY <1>5, <1>6, <1>7 DEF Good
  <2>3. QED BY <1>1, <1>4, <1>5, <1>6, <1>7
<1>11. QED BY <1>5, <1>7, <1>8, <1>9, <1>10 DEF f, Good

LEMMA FreshOnward == \A s, old : Fresh(s) /\ ~Retries(s) => Onward(old, s)
BY DEF Fresh, Onward

LEMMA SettlingTail ==
  ASSUME NEW s \in Seq(Steps), s # <<>>, Head(s) \notin Looks
  PROVE  Settling(Tail(s)) => Settling(s)
<1>1. \A x : Has(s, x) <=> (Head(s) = x \/ Has(Tail(s), x))
  BY TailHas
<1>2. QED BY <1>1 DEF Settling, Looks

-----------------------------------------------------------------------------
\* The threads that still have a journal of the payment they booked to post.
Owed(t) == {w \in Workers : Owes(job[w].plan, t)}

Planned ==
  \A w \in Workers : /\ Shape(job[w].plan)
                     /\ LogFirst(job[w].plan) => job[w].outcome # "none"

\* Journals made and journals owed are covered by the payments.
Covered ==
  \A t \in JournalTypes :
    ~booked.retried => booked.journals[t] + Cardinality(Owed(t)) <= booked.payments

\* While every call is answered nothing is there to retry, ...
Unfailed ==
  faults = 0 => /\ \A t \in JournalTypes : log[t] # "failed"
                /\ \A w \in Workers : job[w].outcome # "failed" /\ ~Retries(job[w].plan)

\* ... and a journal that was made is logged, or its thread is about to log it.
Single ==
  faults = 0 /\ ~raced =>
    \A t \in JournalTypes :
      /\ booked.journals[t] <= 1
      /\ booked.journals[t] = 1 => log[t] # "none" \/ \E v \in Workers : Logging(v, t)

Matched == Planned /\ Covered /\ Unfailed /\ Single

Clean == faults = 0 /\ \A i \in DOMAIN invoices : invoices[i].own

\* A request that will save the payment, or has read a link, counts on the link.
Counts(request) == Settling(request.plan) \/ request.seen.invoice # 0

Linked ==
  /\ order.invoice <= Len(invoices)
  /\ \A w \in Workers : job[w].seen.invoice <= Len(invoices)
  /\ Clean => /\ order.payment => order.invoice # 0
              /\ \A w \in Workers : Counts(job[w]) => order.invoice # 0

\* One request goes on as new, which counts on a link only if there is reason to.
Turn(w, new) ==
  /\ new \in JobState /\ job' = [job EXCEPT ![w] = new]
  /\ new.seen.invoice \in {job[w].seen.invoice, order.invoice, 0}
  /\ Settling(new.plan) => Counts(job[w]) \/ order'.invoice # 0

\* ... and owes no more than it did.
Quiet(w, new) ==
  /\ Turn(w, new)
  /\ new.outcome \in {job[w].outcome, "none"}
  /\ Onward(job[w].plan, new.plan) \/ (Fresh(new.plan) /\ faults' # 0)
  /\ ~LogFirst(job[w].plan) \/ faults' # 0

LEMMA SeenInvoice ==
  ASSUME Gated, NEW w \in Workers
  PROVE  /\ job[w] \in JobState /\ job[w].seen.invoice \in Nat /\ order.invoice \in Nat
         /\ job \in [Workers -> JobState] /\ faults \in Nat
         /\ Idle.seen.invoice = 0 /\ Seen.invoice = order.invoice
BY BoundAssumption DEF Gated, TypeOK, JobState, SeenRow, OrderRow, Idle, Seen

LEMMA AtNotLog ==
  ASSUME Gated, NEW w \in Workers, NEW step, At(w, step), step \notin LogSteps
  PROVE  ~LogFirst(job[w].plan)
BY AtPlan DEF At, LogFirst

LEMMA IdleNotLog ==
  ASSUME NEW w \in Workers, job[w].plan = <<>>
  PROVE  ~LogFirst(job[w].plan)
BY NoPlan DEF Fresh

LEMMA ProceedQuiet ==
  ASSUME Gated, NEW w \in Workers, NEW plan \in Seq(Steps), Proceed(w, plan),
         Onward(job[w].plan, plan), ~LogFirst(job[w].plan),
         Settling(plan) => Counts(job[w]) \/ order'.invoice # 0
  PROVE  \E new \in JobState : Quiet(w, new)
<1> DEFINE new == Kept(job[w], plan)
<1>1. job' = [job EXCEPT ![w] = new] /\ job[w] \in JobState
  BY SeenInvoice DEF Proceed
<1>2. new \in JobState /\ new.plan = plan
  BY <1>1, KeptTyped
<1>3. new.outcome = job[w].outcome
  BY DEF Kept
<1>4. new.seen = job[w].seen \/ new.seen = Idle.seen
  BY DEF Kept, Needed
<1>5. new.seen.invoice \in {job[w].seen.invoice, order.invoice, 0}
  BY <1>4, SeenInvoice
<1> HIDE DEF new
<1>6. QED BY <1>1, <1>2, <1>3, <1>5 DEF Quiet, Turn

LEMMA EndQuiet ==
  ASSUME Gated, NEW w \in Workers, End(w), ~LogFirst(job[w].plan) \/ faults' # 0
  PROVE  \E new \in JobState : Quiet(w, new)
<1>1. Idle \in JobState /\ Idle.plan = <<>> /\ Idle.outcome = "none" /\ Idle.seen.invoice = 0
  BY IdleTyped, SeenInvoice DEF Idle
<1>2. Onward(job[w].plan, <<>>) /\ ~Settling(<<>>)
  BY NoPlan DEF Fresh
<1>3. QED BY <1>1, <1>2 DEF Quiet, Turn, End

LEMMA ContinueQuiet ==
  ASSUME Gated, Planned, NEW w \in Workers, NEW step, At(w, step), Continue(w),
         step \notin Attempts \cup CashGates \cup LogSteps,
         step \in Looks => Counts(job[w]) \/ order'.invoice # 0
  PROVE  \E new \in JobState : Quiet(w, new)
<1>1. job[w].plan \in Seq(Steps) /\ job[w].plan # <<>> /\ Rest(w) \in Seq(Steps)
      /\ Shape(job[w].plan) /\ Head(job[w].plan) = step
  BY AtPlan DEF At, Planned
<1>2. Onward(job[w].plan, Rest(w))
  BY <1>1, OnwardTail DEF Rest
<1>3. Settling(Rest(w)) => Counts(job[w]) \/ order'.invoice # 0
  BY <1>1, SettlingTail DEF Rest, Counts
<1>4. QED BY <1>1, <1>2, <1>3, AtNotLog, ProceedQuiet DEF Continue

\* A request starts, or reads the row again and starts over.
LEMMA FreshQuiet ==
  ASSUME Gated, NEW w \in Workers, NEW new \in JobState, job' = [job EXCEPT ![w] = new],
         new.seen.invoice = order.invoice, Fresh(new.plan),
         ~Retries(new.plan) \/ faults' # 0,
         new.outcome \in {job[w].outcome, "none"}, ~LogFirst(job[w].plan)
  PROVE  \E request \in JobState : Quiet(w, request)
<1>1. Onward(job[w].plan, new.plan) \/ faults' # 0
  BY FreshOnward
<1>2. ~Settling(new.plan)
  BY DEF Fresh
<1>3. QED BY <1>1, <1>2 DEF Quiet, Turn

LEMMA StartQuiet ==
  ASSUME Gated, NEW w \in Workers, NEW plan \in Seq(Steps), NEW request, Accept(w, request),
         Start(w, plan), Fresh(plan), ~Retries(plan) \/ faults' # 0
  PROVE  \E new \in JobState : Quiet(w, new)
<1> DEFINE new == [Idle EXCEPT !.plan = plan, !.seen = Seen]
<1>1. "delivered" \in Stages
  BY DEF Stages
<1>2. new \in JobState
  BY <1>1, StartedTyped
<1>3. /\ new.plan = plan /\ new.outcome = "none" /\ new.seen.invoice = order.invoice
  BY SeenInvoice DEF Idle
<1>4. job' = [job EXCEPT ![w] = new] /\ ~LogFirst(job[w].plan)
  BY IdleNotLog DEF Start, Accept
<1> HIDE DEF new
<1>5. QED BY <1>2, <1>3, <1>4, FreshQuiet

LEMMA RefreshQuiet ==
  ASSUME Gated, NEW w \in Workers, NEW plan \in Seq(Steps), Refresh(w, plan),
         Fresh(plan), ~Retries(plan), ~LogFirst(job[w].plan)
  PROVE  \E new \in JobState : Quiet(w, new)
<1> DEFINE new == [job[w] EXCEPT !.plan = plan, !.seen = Seen]
<1>1. job[w] \in JobState /\ Seen \in SeenRow /\ job \in [Workers -> JobState]
  BY SeenTyped DEF Gated, TypeOK
<1>2. /\ new \in JobState /\ new.plan = plan /\ new.outcome = job[w].outcome
      /\ new.seen.invoice = order.invoice
  BY <1>1, SeenInvoice DEF JobState
<1>3. job' = [job EXCEPT ![w] = new]
  BY <1>1 DEF Refresh
<1> HIDE DEF new
<1>4. QED BY <1>2, <1>3, FreshQuiet

LEMMA RequestQuiet ==
  ASSUME Gated, Unfailed, NEW w \in Workers,
         \/ CreateInvoice(w) \/ CollectCash(w) \/ GeideaCollect(w) \/ Reconcile(w)
         \/ CollectCard(w) \/ VerifyPayment(w) \/ MarkCodPaid(w)
         \/ \E t \in JournalTypes : RetryJournal(w, t)
  PROVE  \E new \in JobState : Quiet(w, new)
<1> DEFINE Good(plan) == plan \in Seq(Steps) /\ Fresh(plan)
                         /\ (~Retries(plan) \/ faults' # 0)
<1>1. ASSUME NEW plan, Good(plan), Start(w, plan), NEW request, Accept(w, request)
      PROVE  \E new \in JobState : Quiet(w, new)
  BY <1>1, StartQuiet
<1>2. CASE CreateInvoice(w)
  <2>1. Good(<<"invoice">>)
    BY QuietPlans
  <2>2. QED BY <1>1, <1>2, <2>1 DEF CreateInvoice
<1>3. CASE CollectCash(w)
  <2>1. Good(<<"ensure", "ready", "deliver", "book">>)
    BY QuietPlans
  <2>2. QED BY <1>1, <1>3, <2>1 DEF CollectCash
<1>4. CASE GeideaCollect(w)
  <2>1. Good(<<"ensure", "invoiced", "session">>)
    BY QuietPlans
  <2>2. QED BY <1>1, <1>4, <2>1 DEF GeideaCollect
<1>5. CASE Reconcile(w)
  <2>1. Good(<<"charge">> \o Finalize)
    BY FreshFinalizes
  <2>2. Accept(w, "card") /\ Start(w, <<"charge">> \o Finalize)
    BY <1>5 DEF Reconcile
  <2>3. QED BY <1>1, <2>1, <2>2
<1>6. CASE CollectCard(w)
  <2>1. /\ Good(<<"given", "verify">> \o Finalize)
        /\ Good(<<"ensure", "invoiced", "given", "verify">> \o Finalize)
    BY FreshFinalizes
  <2>2. /\ Accept(w, "card")
        /\ \/ Start(w, <<"ensure", "invoiced", "given", "verify">> \o Finalize)
           \/ Start(w, <<"given", "verify">> \o Finalize)
    BY <1>6 DEF CollectCard
  <2>3. QED BY <1>1, <2>1, <2>2
<1>7. CASE VerifyPayment(w)
  <2>1. Good(<<"record", "post", "save", "deliver">>)
    BY FreshVerify
  <2>2. QED BY <1>1, <1>7, <2>1 DEF VerifyPayment
<1>8. CASE MarkCodPaid(w)
  <2>1. Good(<<"mark", "mark_post", "mark_save">> \o Journals)
    BY FreshMark
  <2>2. Accept(w, "mark") /\ Start(w, <<"mark", "mark_post", "mark_save">> \o Journals)
    BY <1>8 DEF MarkCodPaid
  <2>3. QED BY <1>1, <2>1, <2>2
<1>9. ASSUME NEW t \in JournalTypes, RetryJournal(w, t)
      PROVE  \E new \in JobState : Quiet(w, new)
  <2>1. faults' # 0
    BY <1>9 DEF Unfailed, RetryJournal, Start
  <2>2. Good(<<"charge_retry", "charge_log">>) /\ Good(<<"vat_retry", "vat_log">>)
    BY <2>1, RetryPlans
  <2>3. /\ Accept(w, "retry")
        /\ Start(w, <<"charge_retry", "charge_log">>) \/ Start(w, <<"vat_retry", "vat_log">>)
    BY <1>9 DEF RetryJournal
  <2>4. QED BY <1>1, <2>2, <2>3
<1>10. QED BY <1>2, <1>3, <1>4, <1>5, <1>6, <1>7, <1>8, <1>9

LEMMA PatchStatusQuiet ==
  ASSUME Gated, NEW w \in Workers, NEW stage \in Stages, PatchStatus(w, stage)
  PROVE  \E new \in JobState : Quiet(w, new)
<1> DEFINE new == [Idle EXCEPT !.plan = <<"write">>, !.target = stage, !.seen = Seen]
<1>1. <<"write">> \in Seq(Steps) /\ Fresh(<<"write">>) /\ ~Retries(<<"write">>)
  BY QuietPlans
<1>2. new \in JobState
  BY <1>1, StartedTyped
<1>3. new.plan = <<"write">> /\ new.outcome = "none" /\ new.seen.invoice = order.invoice
  BY SeenInvoice DEF Idle
<1>4. job' = [job EXCEPT ![w] = new] /\ ~LogFirst(job[w].plan)
  BY IdleNotLog DEF PatchStatus, Accept
<1> HIDE DEF new
<1>5. QED BY <1>1, <1>2, <1>3, <1>4, FreshQuiet

LEMMA CallbackQuiet ==
  ASSUME Gated, NEW w \in Workers, Callback(w)
  PROVE  \E new \in JobState : Quiet(w, new)
<1> DEFINE new == [Idle EXCEPT !.plan = Finalize, !.seen = Seen]
<1>1. Finalize \in Seq(Steps) /\ Fresh(Finalize) /\ ~Retries(Finalize)
  BY FreshFinalize
<1>2. new \in JobState
  <2>1. "delivered" \in Stages
    BY DEF Stages
  <2>2. QED BY <1>1, <2>1, StartedTyped
<1>3. new.plan = Finalize /\ new.outcome = "none" /\ new.seen.invoice = order.invoice
  BY SeenInvoice DEF Idle
<1>4. job' = [job EXCEPT ![w] = new] /\ ~LogFirst(job[w].plan)
  BY IdleNotLog DEF Callback, Accept
<1> HIDE DEF new
<1>5. QED BY <1>1, <1>2, <1>3, <1>4, FreshQuiet

\* A step that no journal depends on comes before what is left of the plan.
LEMMA PrependQuiet ==
  ASSUME Gated, Planned, NEW w \in Workers, NEW step \in Steps \ (Telling \cup {"write"}),
         At(w, step), NEW y \in Steps \ Telling
  PROVE  /\ <<y>> \o Rest(w) \in Seq(Steps) /\ Onward(job[w].plan, <<y>> \o Rest(w))
         /\ Settling(<<y>> \o Rest(w)) => Settling(job[w].plan)
         /\ ~LogFirst(job[w].plan)
<1>1. job[w].plan \in Seq(Steps) /\ job[w].plan # <<>> /\ Rest(w) \in Seq(Steps)
      /\ Shape(job[w].plan) /\ Head(job[w].plan) = step
  BY AtPlan DEF At, Planned
<1>2. Onward(job[w].plan, Rest(w))
  BY <1>1, OnwardTail DEF Rest, Telling
<1>3. Settling(Rest(w)) => Settling(job[w].plan)
  BY <1>1, SettlingTail DEF Rest, Telling
<1>4. Settling(<<y>> \o Rest(w)) <=> Settling(Rest(w))
  BY <1>1, <1>2, PrependShape DEF Onward
<1>5. QED BY <1>1, <1>2, <1>3, <1>4, OnwardPrepend, AtNotLog DEF Telling

LEMMA DeliverQuiet ==
  ASSUME Gated, Planned, NEW w \in Workers, Deliver(w)
  PROVE  \E new \in JobState : Quiet(w, new)
<1>1. /\ At(w, "deliver") /\ {"deliver", "write"} \subseteq Steps \ Telling
  BY TellingNot DEF Deliver
<1>2. CASE Continue(w)
  BY <1>1, <1>2, ContinueQuiet DEF Telling
<1>3. CASE job' = [job EXCEPT ![w].plan = <<"write">> \o Rest(w), ![w].seen = Seen,
                              ![w].target = "delivered"]
  <2> DEFINE plan == <<"write">> \o Rest(w)
             new == [job[w] EXCEPT !.plan = plan, !.seen = Seen, !.target = "delivered"]
  <2>1. /\ plan \in Seq(Steps) /\ Onward(job[w].plan, plan)
        /\ Settling(plan) => Settling(job[w].plan)
        /\ ~LogFirst(job[w].plan)
    BY <1>1, PrependQuiet
  <2> HIDE DEF plan
  <2>2. job[w] \in JobState /\ Seen \in SeenRow /\ job \in [Workers -> JobState]
        /\ "delivered" \in Stages
    BY SeenTyped DEF Gated, TypeOK, Stages
  <2>3. /\ new \in JobState /\ new.plan = plan /\ new.outcome = job[w].outcome
        /\ new.seen.invoice = order.invoice
    BY <2>1, <2>2, SeenInvoice DEF JobState
  <2>4. job' = [job EXCEPT ![w] = new]
    BY <1>3, <2>2 DEF plan
  <2> HIDE DEF new
  <2>5. QED BY <2>1, <2>3, <2>4 DEF Quiet, Turn, Counts
<1>4. QED BY <1>2, <1>3 DEF Deliver

LEMMA WriteStageQuiet ==
  ASSUME Gated, Planned, NEW w \in Workers, WriteStage(w)
  PROVE  \E new \in JobState : Quiet(w, new)
<1>1. /\ At(w, "write") /\ {"write", "mail", "mailed"} \subseteq Steps \ Telling
  BY TellingNot DEF WriteStage
<1>2. CASE Continue(w)
  BY <1>1, <1>2, ContinueQuiet DEF Telling
<1>3. CASE Proceed(w, <<"mail", "mailed">> \o Rest(w))
  <2> DEFINE s == job[w].plan
             r == Rest(w)
             m == <<"mailed">> \o r
  <2>1. s \in Seq(Steps) /\ s # <<>> /\ r \in Seq(Steps) /\ Shape(s) /\ Head(s) = "write"
        /\ r = Tail(s)
    BY <1>1, AtPlan DEF At, Planned, Rest
  <2>2. ~LogFirst(s)
    BY <1>1, AtNotLog DEF Telling
  <2> HIDE DEF s, r
  <2>3. Onward(s, r) /\ (Settling(r) => Settling(s))
    BY <1>1, <2>1, OnwardTail, SettlingTail DEF Telling
  <2>4. m \in Seq(Steps) /\ Onward(s, m) /\ (Settling(m) => Settling(s))
    BY <1>1, <2>1, <2>3, OnwardPrepend, PrependShape DEF Onward
  <2>5. <<"mail", "mailed">> \o r = <<"mail">> \o m
    BY <2>1
  <2> HIDE DEF m
  <2> DEFINE q == <<"mail">> \o m
  <2>6. q \in Seq(Steps) /\ Onward(s, q) /\ (Settling(q) => Settling(s))
    BY <1>1, <2>4, OnwardPrepend, PrependShape DEF Onward
  <2>7. Proceed(w, q)
    BY <1>3, <2>5 DEF r
  <2> HIDE DEF q
  <2>8. QED BY <2>2, <2>6, <2>7, ProceedQuiet DEF s, Counts
<1>4. QED BY <1>2, <1>3 DEF WriteStage

\* A step is skipped together with the one that follows it.
LEMMA SkipQuiet ==
  ASSUME Gated, Planned, NEW w \in Workers, job[w].plan # <<>>, NEW pair \in Pairs,
         Head(job[w].plan) = pair[1], Proceed(w, Tail(Rest(w)))
  PROVE  \E new \in JobState : Quiet(w, new)
<1> DEFINE s == job[w].plan
           r == Rest(w)
<1>1. /\ s \in Seq(Steps) /\ s # <<>> /\ Shape(s) /\ r = Tail(s) /\ r \in Seq(Steps)
      /\ Len(s) \in Nat \ {0} /\ Len(r) = Len(s) - 1
      /\ \A k \in 1..Len(r) : r[k] = s[k + 1]
      /\ s[1] = pair[1] /\ Head(s) = pair[1] /\ Followed(s)
  BY AtPlan DEF Planned, Rest, PlanFits
<1> HIDE DEF s, r
<1>2. 1 < Len(s) /\ s[1 + 1] = pair[2]
  BY <1>1 DEF Followed
<1>3. r # <<>> /\ Head(r) = pair[2]
  <2>1. 1 \in 1..Len(r) /\ Len(r) # 0
    BY <1>1, <1>2
  <2>2. r[1] = pair[2]
    BY <1>1, <1>2, <2>1
  <2>3. r # <<>>
    BY <2>1, Len(<<>>) = 0
  <2>4. QED BY <1>1, <2>2, <2>3, RestOfPlan
<1>4. /\ pair[1] \notin CashGates \cup LogSteps \cup Looks
      /\ pair[2] \notin CashGates \cup Attempts \cup Looks
  BY DEF Pairs, CashGates, LogSteps, Looks, Attempts, JournalSteps, RetrySteps
<1>5. Onward(s, Tail(r)) /\ (Settling(Tail(r)) => Settling(s))
  BY <1>1, <1>3, <1>4, OnwardSkip, SettlingTail
<1>6. Tail(r) \in Seq(Steps)
  BY <1>1, <1>3
<1>7. ~LogFirst(s)
  BY <1>1, <1>4 DEF LogFirst
<1>8. Proceed(w, Tail(r))
  BY DEF r
<1>9. QED BY <1>5, <1>6, <1>7, <1>8, ProceedQuiet DEF s, Counts

LEMMA SendMailQuiet ==
  ASSUME Gated, Planned, NEW w \in Workers, SendMail(w)
  PROVE  \E new \in JobState : Quiet(w, new)
<1>1. At(w, "mail") /\ "mail" \notin Telling
  BY TellingNot DEF SendMail
<1>2. CASE Continue(w)
  BY <1>1, <1>2, ContinueQuiet DEF Telling
<1>3. CASE Proceed(w, Tail(Rest(w)))
  BY <1>1, <1>3, SkipQuiet, <<"mail", "mailed">> \in Pairs DEF Pairs, At
<1>4. QED BY <1>2, <1>3 DEF SendMail

\* Steps that go on or end the request.
LEMMA PlainQuiet ==
  ASSUME Gated, Planned, NEW w \in Workers, NEW step, step \notin Telling, At(w, step),
         Continue(w) \/ End(w)
  PROVE  \E new \in JobState : Quiet(w, new)
<1>1. step \notin LogSteps
  BY DEF Telling
<1>2. QED BY <1>1, AtNotLog, ContinueQuiet, EndQuiet DEF Telling

LEMMA PlainStepsQuiet ==
  ASSUME Gated, Planned, NEW w \in Workers,
         \/ SaveMailed(w) \/ SaveInvoice(w) \/ LinkInvoice(w) \/ Ready(w) \/ MarkCashPaid(w)
         \/ OpenSession(w) \/ RecordCharge(w) \/ LinkGiven(w) \/ VerifyCharge(w)
  PROVE  \E new \in JobState : Quiet(w, new)
<1>1. PICK step \in {"mailed", "invoice", "link", "ready", "invoiced", "cash", "session",
                     "charge", "given", "verify"} : At(w, step) /\ (Continue(w) \/ End(w))
  BY DEF SaveMailed, SaveInvoice, LinkInvoice, LinkFails, Ready, MarkCashPaid, OpenSession,
         RecordCharge, LinkGiven, VerifyCharge
<1>2. step \notin Telling
  BY TellingNot
<1>3. QED BY <1>1, <1>2, PlainQuiet

LEMMA EnsureInvoiceQuiet ==
  ASSUME Gated, Planned, NEW w \in Workers, EnsureInvoice(w)
  PROVE  \E new \in JobState : Quiet(w, new)
<1>1. At(w, "ensure") /\ {"ensure", "link"} \subseteq Steps \ Telling
  BY TellingNot DEF EnsureInvoice
<1>2. CASE Continue(w)
  BY <1>1, <1>2, PlainQuiet
<1>3. CASE Proceed(w, <<"link">> \o Rest(w))
  <2> DEFINE plan == <<"link">> \o Rest(w)
  <2>1. /\ plan \in Seq(Steps) /\ Onward(job[w].plan, plan)
        /\ Settling(plan) => Settling(job[w].plan)
        /\ ~LogFirst(job[w].plan)
    BY <1>1, PrependQuiet
  <2>2. Proceed(w, plan)
    BY <1>3
  <2> HIDE DEF plan
  <2>3. QED BY <2>1, <2>2, ProceedQuiet DEF Counts
<1>4. QED BY <1>2, <1>3 DEF EnsureInvoice

LEMMA BookCashQuiet ==
  ASSUME Gated, NEW w \in Workers, BookCash(w)
  PROVE  \E new \in JobState : Quiet(w, new)
<1> DEFINE plan == IF order.payment THEN <<"cash">>
                   ELSE <<"ensure", "invoiced", "record", "post", "save", "cash">>
<1>1. plan \in Seq(Steps) /\ Fresh(plan) /\ ~Retries(plan)
  BY QuietPlans, FreshBook
<1>2. Refresh(w, plan) /\ At(w, "book")
  BY DEF BookCash
<1> HIDE DEF plan
<1>3. ~LogFirst(job[w].plan)
  BY <1>2, AtNotLog DEF LogSteps
<1>4. QED BY <1>1, <1>2, <1>3, RefreshQuiet

LEMMA DieQuiet ==
  ASSUME Gated, NEW w \in Workers, Die(w)
  PROVE  \E new \in JobState : Quiet(w, new)
<1>1. End(w) /\ faults' # 0
  BY SeenInvoice DEF Die, Fault
<1>2. QED BY <1>1, EndQuiet

\* The order was checked against its invoice: from here the thread counts on the link.
LEMMA RecordPaymentQuiet ==
  ASSUME Gated, Planned, NEW w \in Workers, RecordPayment(w)
  PROVE  \E new \in JobState : Quiet(w, new)
<1>1. At(w, "record") /\ order' = order
  BY DEF RecordPayment
<1>2. ~LogFirst(job[w].plan)
  BY <1>1, AtNotLog DEF LogSteps
<1>3. CASE End(w)
  BY <1>2, <1>3, EndQuiet
<1>4. CASE /\ job' = [job EXCEPT ![w].plan = Rest(w), ![w].invoice = order.invoice]
           /\ Own(order.invoice)
  <2> DEFINE new == [job[w] EXCEPT !.plan = Rest(w), !.invoice = order.invoice]
  <2>1. job[w].plan \in Seq(Steps) /\ job[w].plan # <<>> /\ Rest(w) \in Seq(Steps)
        /\ Shape(job[w].plan) /\ Head(job[w].plan) = "record"
    BY <1>1, AtPlan DEF At, Planned
  <2>2. Onward(job[w].plan, Rest(w))
    BY <2>1, OnwardTail
       DEF Rest, Attempts, JournalSteps, RetrySteps, CashGates
  <2>3. /\ job \in [Workers -> JobState] /\ job[w] \in JobState
        /\ order.invoice \in 0..MaxInvoices
    BY DEF Gated, TypeOK, OrderRow
  <2>4. /\ new \in JobState /\ new.plan = Rest(w) /\ new.outcome = job[w].outcome
        /\ new.seen = job[w].seen
    BY <2>1, <2>3 DEF JobState
  <2>5. job' = [job EXCEPT ![w] = new]
    BY <1>4, <2>3
  <2>6. order'.invoice # 0
    BY <1>1, <1>4 DEF Own
  <2> HIDE DEF new
  <2>7. QED BY <1>2, <2>2, <2>4, <2>5, <2>6 DEF Quiet, Turn
<1>5. QED BY <1>3, <1>4 DEF RecordPayment

LEMMA MarkFindInvoiceQuiet ==
  ASSUME Gated, Planned, NEW w \in Workers, MarkFindInvoice(w) \/ MarkNotFound(w)
  PROVE  \E new \in JobState : Quiet(w, new)
<1>1. At(w, "mark")
  BY DEF MarkFindInvoice, MarkNotFound
<1>2. ~LogFirst(job[w].plan)
  BY <1>1, AtNotLog DEF LogSteps
<1>3. CASE MarkNotFound(w)
  BY <1>2, <1>3, EndQuiet DEF MarkNotFound
<1>4. CASE MarkFindInvoice(w)
  <2>1. PICK i \in DOMAIN invoices :
          /\ job[w].seen.invoice # 0 \/ order' = [order EXCEPT !.invoice = i]
          /\ job' = [job EXCEPT ![w].plan = Rest(w), ![w].invoice = i]
    BY <1>4 DEF MarkFindInvoice
  <2> DEFINE new == [job[w] EXCEPT !.plan = Rest(w), !.invoice = i]
  <2>2. job[w].plan \in Seq(Steps) /\ job[w].plan # <<>> /\ Rest(w) \in Seq(Steps)
        /\ Shape(job[w].plan) /\ Head(job[w].plan) = "mark"
    BY <1>1, AtPlan DEF At, Planned
  <2>3. Onward(job[w].plan, Rest(w))
    BY <2>2, OnwardTail DEF Rest, Attempts, JournalSteps, RetrySteps, CashGates
  <2>4. /\ job \in [Workers -> JobState] /\ job[w] \in JobState
        /\ i \in 0..MaxInvoices /\ i # 0
    BY LinkTyped, BooksTyped DEF Gated, TypeOK
  <2>5. /\ new \in JobState /\ new.plan = Rest(w) /\ new.outcome = job[w].outcome
        /\ new.seen = job[w].seen
    BY <2>2, <2>4 DEF JobState
  <2>6. job' = [job EXCEPT ![w] = new]
    BY <2>1, <2>4
  <2>7. job[w].seen.invoice # 0 \/ order'.invoice # 0
    BY <2>1, <2>4, BooksTyped DEF OrderRow
  <2> HIDE DEF new
  <2>8. QED BY <1>2, <2>3, <2>5, <2>6, <2>7 DEF Quiet, Turn, Counts
<1>5. QED BY <1>3, <1>4

\* The flag is saved: the thread counted on the link.
LEMMA SavesQuiet ==
  ASSUME Gated, Planned, NEW w \in Workers, SavePayment(w) \/ MarkSave(w)
  PROVE  Counts(job[w]) /\ \E new \in JobState : Quiet(w, new)
<1>1. PICK step \in Saves : At(w, step)
  BY DEF SavePayment, MarkSave, Saves
<1>2. Continue(w)
  BY DEF SavePayment, MarkSave
<1>3. step \notin Attempts \cup CashGates \cup LogSteps \cup Looks
  BY <1>1 DEF Saves, Attempts, JournalSteps, RetrySteps, CashGates, LogSteps, Looks
<1>4. Counts(job[w])
  <2>1. job[w].plan \in Seq(Steps) /\ job[w].plan # <<>> /\ Shape(job[w].plan)
        /\ Head(job[w].plan) \in Saves
    BY <1>1, AtPlan DEF At, Planned
  <2>2. QED BY <2>1, TailShape DEF Counts
<1>5. QED BY <1>1, <1>2, <1>3, <1>4, ContinueQuiet

-----------------------------------------------------------------------------
(***************************************************************************)
(* No more journals than payments.                                         *)
(***************************************************************************)
LEMMA OwedTyped == \A t : IsFiniteSet(Owed(t)) /\ Cardinality(Owed(t)) \in Nat
<1>1. ASSUME NEW t PROVE IsFiniteSet(Owed(t)) /\ Cardinality(Owed(t)) \in Nat
  BY WorkersAssumption, FS_Subset, FS_CardinalityType DEF Owed
<1>2. QED BY <1>1

\* One request goes on: it owes as before, owes more, or has paid what it owed.
LEMMA OwedTally ==
  ASSUME Gated, NEW w \in Workers, NEW new \in JobState, job' = [job EXCEPT ![w] = new], NEW t
  PROVE  LET before == Owes(job[w].plan, t)
             after == Owes(new.plan, t)
             owed == Cardinality(Owed(t))
             owing == Cardinality(Owed(t)')
         IN /\ owed \in Nat /\ owing \in Nat /\ owing <= owed + 1
            /\ (after => before) => owing <= owed
            /\ before /\ ~after => owing + 1 = owed
<1>1. PICK S \in {Owed(t)} : TRUE
  OBVIOUS
<1>2. PICK S2 \in {Owed(t)'} : TRUE
  OBVIOUS
<1>3. IsFiniteSet(S) /\ Cardinality(S) \in Nat
  BY <1>1, OwedTyped
<1>4. \A v \in Workers : job'[v] = IF v = w THEN new ELSE job[v]
  BY SeenInvoice
<1>5. /\ S2 = {v \in Workers : Owes(job'[v].plan, t)}
      /\ S = {v \in Workers : Owes(job[v].plan, t)}
  BY <1>1, <1>2 DEF Owed
<1>6. S2 = IF Owes(new.plan, t) THEN S \cup {w} ELSE S \ {w}
  BY <1>4, <1>5
<1>7. w \in S <=> Owes(job[w].plan, t)
  BY <1>5
<1>8. /\ IsFiniteSet(S \cup {w}) /\ Cardinality(S \cup {w}) \in Nat
      /\ Cardinality(S \cup {w}) = IF w \in S THEN Cardinality(S) ELSE Cardinality(S) + 1
  BY <1>3, FS_AddElement, FS_CardinalityType
<1>9. /\ Cardinality(S \ {w}) \in Nat
      /\ Cardinality(S \ {w}) = IF w \in S THEN Cardinality(S) - 1 ELSE Cardinality(S)
  <2>1. /\ IsFiniteSet(S \ {w})
        /\ Cardinality(S \ {w}) = IF w \in S THEN Cardinality(S) - 1 ELSE Cardinality(S)
    BY <1>3, FS_RemoveElement
  <2>2. Cardinality(S \ {w}) \in Nat
    BY <2>1, FS_CardinalityType
  <2>3. QED BY <2>1, <2>2
<1>10. PICK n \in Nat : n = Cardinality(S)
  BY <1>3
<1>11. /\ Owes(new.plan, t) => Cardinality(S2) = IF w \in S THEN n ELSE n + 1
       /\ ~Owes(new.plan, t) => Cardinality(S2) = IF w \in S THEN n - 1 ELSE n
       /\ Cardinality(S2) \in Nat
  BY <1>6, <1>8, <1>9, <1>10
<1>12. PICK m \in Nat : m = Cardinality(S2)
  BY <1>11
<1>13. /\ m <= n + 1
       /\ (Owes(new.plan, t) => Owes(job[w].plan, t)) => m <= n
       /\ Owes(job[w].plan, t) /\ ~Owes(new.plan, t) => m + 1 = n
  BY <1>7, <1>11, <1>12
<1>14. QED BY <1>1, <1>2, <1>10, <1>12, <1>13

LEMMA OtherJobs ==
  ASSUME Gated, NEW w \in Workers, NEW new, job' = [job EXCEPT ![w] = new]
  PROVE  /\ job'[w] = new /\ \A v \in Workers \ {w} : job'[v] = job[v]
         /\ \A v \in Workers \ {w} : \A t : Logging(v, t) => Logging(v, t)'
<1>1. job'[w] = new /\ \A v \in Workers \ {w} : job'[v] = job[v]
  BY SeenInvoice
<1>2. ASSUME NEW v \in Workers \ {w}, NEW t, Logging(v, t) PROVE Logging(v, t)'
  BY <1>1, <1>2 DEF Logging, At
<1>3. QED BY <1>1, <1>2

LEMMA LoggingFirst ==
  ASSUME Gated, NEW w \in Workers, NEW t, Logging(w, t)
  PROVE  LogFirst(job[w].plan) /\ \E step \in LogSteps : At(w, step)
<1>1. PICK step \in LogSteps : At(w, step)
  BY DEF Logging, LogSteps
<1>2. QED BY <1>1, AtPlan DEF At, LogFirst

LEMMA PlannedOn ==
  ASSUME Gated, Planned, NEW w \in Workers, NEW new, job' = [job EXCEPT ![w] = new],
         Shape(new.plan), LogFirst(new.plan) => new.outcome # "none"
  PROVE  Planned'
<1>1. job'[w] = new /\ \A v \in Workers \ {w} : job'[v] = job[v]
  BY OtherJobs
<1>2. SUFFICES ASSUME NEW v \in Workers
               PROVE  /\ Shape(job'[v].plan)
                      /\ LogFirst(job'[v].plan) => job'[v].outcome # "none"
  BY DEF Planned
<1>3. QED BY <1>1 DEF Planned

LEMMA UnfailedOn ==
  ASSUME Gated, Unfailed, NEW w \in Workers, NEW new, job' = [job EXCEPT ![w] = new],
         faults' = 0 => /\ faults = 0
                        /\ \A t \in JournalTypes : log[t] # "failed" => log'[t] # "failed"
                        /\ job[w].outcome # "failed" => new.outcome # "failed"
                        /\ Retries(new.plan) => Retries(job[w].plan)
  PROVE  Unfailed'
<1>1. job'[w] = new /\ \A v \in Workers \ {w} : job'[v] = job[v]
  BY OtherJobs
<1>2. SUFFICES ASSUME faults' = 0
               PROVE  /\ \A t \in JournalTypes : log'[t] # "failed"
                      /\ \A v \in Workers : job'[v].outcome # "failed" /\ ~Retries(job'[v].plan)
  BY DEF Unfailed
<1>3. QED BY <1>1, <1>2 DEF Unfailed

LEMMA QuietMatched ==
  ASSUME Gated, Matched, NEW w \in Workers, NEW new \in JobState, Quiet(w, new),
         UNCHANGED <<booked, log, raced>>, faults' \in Nat, faults' >= faults
  PROVE  Matched'
<1>1. /\ job' = [job EXCEPT ![w] = new] /\ Shape(new.plan) /\ ~LogFirst(new.plan)
      /\ \A t : Owes(new.plan, t) => Owes(job[w].plan, t)
      /\ Retries(new.plan) => Retries(job[w].plan) \/ faults' # 0
      /\ new.outcome \in {job[w].outcome, "none"}
      /\ ~LogFirst(job[w].plan) \/ faults' # 0
  BY DEF Quiet, Turn, Onward, Fresh
<1>2. faults' = 0 => faults = 0
  BY SeenInvoice
<1>3. Planned'
  BY <1>1, PlannedOn DEF Matched
<1>4. Unfailed'
  BY <1>1, <1>2, UnfailedOn DEF Matched
<1>5. Covered'
  <2>1. SUFFICES ASSUME NEW t \in JournalTypes, ~booked'.retried
                 PROVE  booked'.journals[t] + Cardinality(Owed(t)') <= booked'.payments
    BY DEF Covered
  <2>2. /\ Cardinality(Owed(t)) \in Nat /\ Cardinality(Owed(t)') \in Nat
        /\ Cardinality(Owed(t)') <= Cardinality(Owed(t))
    BY <1>1, OwedTally
  <2>3. booked.journals[t] + Cardinality(Owed(t)) <= booked.payments
    BY <2>1 DEF Matched, Covered
  <2>4. booked.journals[t] \in Nat /\ booked.payments \in Nat
    BY BookedTyped
  <2>5. QED BY <2>2, <2>3, <2>4
<1>6. Single'
  <2>1. SUFFICES ASSUME faults' = 0, ~raced', NEW t \in JournalTypes
                 PROVE  /\ booked'.journals[t] <= 1
                        /\ booked'.journals[t] = 1 =>
                             log'[t] # "none" \/ \E v \in Workers : Logging(v, t)'
    BY DEF Single
  <2>2. /\ booked.journals[t] <= 1
        /\ booked.journals[t] = 1 => log[t] # "none" \/ \E v \in Workers : Logging(v, t)
    BY <1>2, <2>1 DEF Matched, Single
  <2>3. ASSUME NEW v \in Workers, Logging(v, t) PROVE Logging(v, t)'
    <3>1. v # w
      BY <1>1, <2>1, <2>3, LoggingFirst
    <3>2. QED BY <1>1, <2>3, <3>1, OtherJobs
  <2>4. QED BY <2>2, <2>3
<1>7. QED BY <1>3, <1>4, <1>5, <1>6 DEF Matched

LEMMA SameMatched ==
  ASSUME Matched, UNCHANGED <<job, booked, log, raced, faults>>
  PROVE  Matched'
<1>1. Planned' /\ Unfailed'
  BY DEF Matched, Planned, Unfailed
<1>2. ASSUME NEW t PROVE Owed(t)' = Owed(t)
  BY DEF Owed
<1>3. Covered'
  BY <1>2 DEF Matched, Covered
<1>4. ASSUME NEW v, NEW t PROVE Logging(v, t)' <=> Logging(v, t)
  BY DEF Logging, At
<1>5. Single'
  BY <1>4 DEF Matched, Single
<1>6. QED BY <1>1, <1>3, <1>5 DEF Matched

\* What a payment does to the request that booked it, or died while it did.
LEMMA PayMatched ==
  ASSUME Gated, Matched, NEW w \in Workers, NEW new \in JobState,
         job' = [job EXCEPT ![w] = new], NEW i, Pay(i), UNCHANGED <<log, raced>>,
         faults' \in Nat, faults' >= faults, ~LogFirst(job[w].plan),
         Shape(new.plan), ~LogFirst(new.plan), Retries(new.plan) => Retries(job[w].plan),
         new.outcome \in {job[w].outcome, "none"}
  PROVE  Matched'
<1>1. faults' = 0 => faults = 0
  BY SeenInvoice
<1>2. /\ booked'.payments = booked.payments + 1 /\ booked'.journals = booked.journals
      /\ booked'.retried = booked.retried
  BY BookedTyped DEF Pay
<1>3. Planned'
  BY PlannedOn DEF Matched
<1>4. Unfailed'
  BY <1>1, UnfailedOn DEF Matched
<1>5. Covered'
  <2>1. SUFFICES ASSUME NEW t \in JournalTypes, ~booked'.retried
                 PROVE  booked'.journals[t] + Cardinality(Owed(t)') <= booked'.payments
    BY DEF Covered
  <2>2. /\ Cardinality(Owed(t)) \in Nat /\ Cardinality(Owed(t)') \in Nat
        /\ Cardinality(Owed(t)') <= Cardinality(Owed(t)) + 1
    BY OwedTally
  <2>3. booked.journals[t] + Cardinality(Owed(t)) <= booked.payments
    BY <1>2, <2>1 DEF Matched, Covered
  <2>4. booked.journals[t] \in Nat /\ booked.payments \in Nat
    BY BookedTyped
  <2>5. QED BY <1>2, <2>2, <2>3, <2>4
<1>6. Single'
  <2>1. SUFFICES ASSUME faults' = 0, ~raced', NEW t \in JournalTypes
                 PROVE  /\ booked'.journals[t] <= 1
                        /\ booked'.journals[t] = 1 =>
                             log'[t] # "none" \/ \E v \in Workers : Logging(v, t)'
    BY DEF Single
  <2>2. /\ booked.journals[t] <= 1
        /\ booked.journals[t] = 1 => log[t] # "none" \/ \E v \in Workers : Logging(v, t)
    BY <1>1, <2>1 DEF Matched, Single
  <2>3. ASSUME NEW v \in Workers, Logging(v, t) PROVE Logging(v, t)'
    <3>1. v # w
      BY <2>3, LoggingFirst
    <3>2. QED BY <2>3, <3>1, OtherJobs
  <2>4. QED BY <1>2, <2>2, <2>3
<1>7. QED BY <1>3, <1>4, <1>5, <1>6 DEF Matched

LEMMA FaultsGrow == Gated /\ (Fault \/ NoFault) => faults' \in Nat /\ faults' >= faults
BY BoundAssumption DEF Gated, TypeOK, Fault, NoFault

LEMMA PostTurn ==
  ASSUME Gated, Planned, NEW w \in Workers, PostPayment(w) \/ MarkPost(w)
  PROVE  \/ /\ Pay(job[w].invoice)
            /\ \E new \in JobState :
                 /\ Turn(w, new) /\ ~LogFirst(job[w].plan)
                 /\ Shape(new.plan) /\ ~LogFirst(new.plan)
                 /\ Retries(new.plan) => Retries(job[w].plan)
                 /\ new.outcome \in {job[w].outcome, "none"}
         \/ UNCHANGED <<invoices, booked>> /\ \E new \in JobState : Quiet(w, new)
<1>1. PICK step \in CashGates : At(w, step)
  BY DEF PostPayment, MarkPost, CashGates
<1>2. step \notin LogSteps \cup Looks
  BY <1>1 DEF CashGates, LogSteps, Looks
<1>3. /\ job[w].plan \in Seq(Steps) /\ job[w].plan # <<>> /\ Rest(w) \in Seq(Steps)
      /\ Shape(job[w].plan) /\ Head(job[w].plan) = step
  BY <1>1, AtPlan DEF At, Planned
<1>4. ~LogFirst(job[w].plan)
  BY <1>1, <1>2, AtNotLog
<1>5. CASE Pay(job[w].invoice) /\ Continue(w)
  <2> DEFINE new == Kept(job[w], Rest(w))
  <2>1. job' = [job EXCEPT ![w] = new] /\ job[w] \in JobState
    BY <1>5, SeenInvoice DEF Proceed, Continue
  <2>2. new \in JobState /\ new.plan = Rest(w)
    BY <1>3, <2>1, KeptTyped
  <2>3. new.outcome = job[w].outcome /\ (new.seen = job[w].seen \/ new.seen = Idle.seen)
    BY DEF Kept, Needed
  <2>4. new.seen.invoice \in {job[w].seen.invoice, order.invoice, 0}
    BY <2>3, SeenInvoice
  <2> HIDE DEF new
  <2>5. Shape(Rest(w)) /\ ~LogFirst(Rest(w)) /\ (Retries(Rest(w)) => Retries(job[w].plan))
    BY <1>1, <1>3, PaidTail DEF Rest
  <2>6. Settling(Rest(w)) => Counts(job[w])
    BY <1>2, <1>3, SettlingTail DEF Rest, Counts
  <2>7. QED BY <1>4, <1>5, <2>1, <2>2, <2>3, <2>4, <2>5, <2>6 DEF Turn
<1>6. CASE End(w)
  <2>1. PICK new \in JobState : Quiet(w, new) /\ new.plan = <<>>
    <3>1. Idle \in JobState /\ Idle.plan = <<>> /\ Idle.outcome = "none" /\ Idle.seen.invoice = 0
      BY IdleTyped, SeenInvoice DEF Idle
    <3>2. Onward(job[w].plan, <<>>) /\ ~Settling(<<>>)
      BY NoPlan DEF Fresh
    <3>3. QED BY <1>4, <1>6, <3>1, <3>2 DEF Quiet, Turn, End
  <2>2. Shape(new.plan) /\ ~LogFirst(new.plan) /\ ~Retries(new.plan)
    BY <2>1, NoPlan DEF Fresh
  <2>3. UNCHANGED <<invoices, booked>> \/ Pay(job[w].invoice)
    BY DEF PostPayment, MarkPost
  <2>4. QED BY <1>4, <2>1, <2>2, <2>3 DEF Quiet
<1>7. QED
  <2>1. \/ Pay(job[w].invoice) /\ Continue(w)
        \/ End(w)
    BY DEF PostPayment, MarkPost
  <2>2. QED BY <1>5, <1>6, <2>1

LEMMA PostMatched ==
  ASSUME Gated, Matched, NEW w \in Workers, PostPayment(w) \/ MarkPost(w)
  PROVE  Matched'
<1>1. UNCHANGED <<log, raced>> /\ (Fault \/ NoFault)
  BY DEF PostPayment, MarkPost
<1>2. faults' \in Nat /\ faults' >= faults
  BY <1>1, FaultsGrow
<1>3. ASSUME Pay(job[w].invoice), NEW new \in JobState, Turn(w, new), ~LogFirst(job[w].plan),
             Shape(new.plan), ~LogFirst(new.plan), Retries(new.plan) => Retries(job[w].plan),
             new.outcome \in {job[w].outcome, "none"}
      PROVE  Matched'
  <2>1. PICK i \in {job[w].invoice} : Pay(i)
    BY <1>3
  <2>2. job' = [job EXCEPT ![w] = new]
    BY <1>3 DEF Turn
  <2>3. QED BY <1>1, <1>2, <1>3, <2>1, <2>2, PayMatched
<1>4. ASSUME UNCHANGED booked, NEW new \in JobState, Quiet(w, new) PROVE Matched'
  BY <1>1, <1>2, <1>4, QuietMatched
<1>5. QED BY <1>3, <1>4, PostTurn DEF Matched

LEMMA AttemptTurn ==
  ASSUME Gated, Planned, NEW w \in Workers, NEW t \in JournalTypes,
         Posting(w, t) \/ Retrying(w, t), Attempt(w, t)
  PROVE  \E made \in BOOLEAN, answered \in BOOLEAN, new \in JobState :
           /\ answered => made
           /\ IF answered THEN NoFault ELSE Fault
           /\ booked'.payments = booked.payments
           /\ booked'.journals = [booked.journals EXCEPT ![t] = IF made THEN @ + 1 ELSE @]
           /\ booked'.retried = (booked.retried \/ Retrying(w, t))
           /\ raced' = (raced \/ \E v \in Workers \ {w} : Logging(v, t))
           /\ Turn(w, new) /\ new.plan = Rest(w)
           /\ new.outcome = IF answered THEN "posted" ELSE "failed"
<1>1. PICK made \in BOOLEAN, answered \in BOOLEAN :
        /\ answered => made
        /\ IF answered THEN NoFault ELSE Fault
        /\ booked' = [booked EXCEPT !.journals[t] = IF made THEN @ + 1 ELSE @,
                                    !.retried = @ \/ Retrying(w, t)]
        /\ raced' = (raced \/ \E v \in Workers \ {w} : Logging(v, t))
        /\ job' = [job EXCEPT ![w].plan = Rest(w),
                              ![w].outcome = IF answered THEN "posted" ELSE "failed"]
  BY DEF Attempt
<1>2. /\ booked'.payments = booked.payments
      /\ booked'.journals = [booked.journals EXCEPT ![t] = IF made THEN @ + 1 ELSE @]
      /\ booked'.retried = (booked.retried \/ Retrying(w, t))
  BY <1>1, BookedTyped
<1> DEFINE outcome == IF answered THEN "posted" ELSE "failed"
           new == [job[w] EXCEPT !.plan = Rest(w), !.outcome = outcome]
<1>3. PICK step \in Attempts : At(w, step)
  BY DEF Posting, Retrying, Attempts, JournalSteps, RetrySteps
<1>4. job[w].plan \in Seq(Steps) /\ job[w].plan # <<>> /\ Rest(w) \in Seq(Steps)
      /\ Head(job[w].plan) = step /\ step \notin Looks
  BY <1>3, AtPlan DEF At, Attempts, JournalSteps, RetrySteps, Looks
<1>5. job \in [Workers -> JobState] /\ job[w] \in JobState /\ outcome \in Outcomes
  BY DEF Gated, TypeOK, Outcomes
<1>6. job' = [job EXCEPT ![w] = new]
  BY <1>1, <1>5
<1> HIDE DEF outcome
<1>7. new \in JobState /\ new.plan = Rest(w) /\ new.outcome = outcome /\ new.seen = job[w].seen
  BY <1>4, <1>5 DEF JobState
<1>8. Settling(Rest(w)) => Counts(job[w])
  BY <1>4, SettlingTail DEF Rest, Counts
<1> HIDE DEF new
<1>9. Turn(w, new)
  BY <1>6, <1>7, <1>8 DEF Turn
<1>10. QED BY <1>1, <1>2, <1>7, <1>9 DEF outcome

\* A journal that is posted was owed; one that is retried is not counted any more.
LEMMA AttemptMatched ==
  ASSUME Gated, Matched, NEW w \in Workers, NEW t \in JournalTypes,
         \/ Posting(w, t) /\ log[t] = "none"
         \/ Retrying(w, t),
         Attempt(w, t), UNCHANGED log
  PROVE  Matched'
<1>1. PICK made \in BOOLEAN, answered \in BOOLEAN, new \in JobState :
        /\ answered => made
        /\ IF answered THEN NoFault ELSE Fault
        /\ booked'.payments = booked.payments
        /\ booked'.journals = [booked.journals EXCEPT ![t] = IF made THEN @ + 1 ELSE @]
        /\ booked'.retried = (booked.retried \/ Retrying(w, t))
        /\ raced' = (raced \/ \E v \in Workers \ {w} : Logging(v, t))
        /\ job' = [job EXCEPT ![w] = new] /\ new.plan = Rest(w)
        /\ new.outcome = IF answered THEN "posted" ELSE "failed"
  BY AttemptTurn DEF Matched, Turn
<1> DEFINE s == job[w].plan
           r == Rest(w)
<1>2. /\ s \in Seq(Steps) /\ s # <<>> /\ r \in Seq(Steps) /\ Shape(s) /\ r = Tail(s)
      /\ Head(s) \in Attempts /\ Followed(s) /\ Len(s) \in Nat \ {0} /\ Len(r) = Len(s) - 1
      /\ \A k \in 1..Len(r) : r[k] = s[k + 1]
      /\ Head(s) = s[1]
      /\ Posting(w, t) => Head(s) = JournalStep(t)
      /\ Retrying(w, t) => Head(s) \in RetrySteps
  <2>1. s # <<>>
    BY DEF Posting, Retrying, At
  <2>2. /\ Posting(w, t) => Head(s) = JournalStep(t) /\ Head(s) \in JournalSteps
        /\ Retrying(w, t) => Head(s) \in RetrySteps
    BY DEF Posting, Retrying, At, JournalStep, JournalSteps, RetrySteps
  <2>3. QED BY <2>1, <2>2, AtPlan DEF Matched, Planned, Rest, PlanFits, Attempts
<1> HIDE DEF s, r
<1>3. /\ Shape(r)
      /\ \A u : Owes(r, u) => Owes(s, u)
      /\ Retries(r) => Retries(s)
  BY <1>2, AttemptTail
<1>4. Posting(w, t) => Owes(s, t) /\ ~Owes(r, t)
  BY <1>2, TailShape
<1>5. faults' = 0 => faults = 0 /\ answered /\ made
  <2>1. faults \in Nat
    BY SeenInvoice
  <2>2. ~answered => faults' # 0
    BY <1>1, <2>1 DEF Fault
  <2>3. answered => faults' = faults /\ made
    BY <1>1 DEF NoFault
  <2>4. QED BY <2>2, <2>3
<1>6. Planned'
  BY <1>1, <1>3, PlannedOn DEF Matched, r
<1>7. Unfailed'
  <2>1. faults' = 0 =>
          /\ faults = 0
          /\ \A u \in JournalTypes : log[u] # "failed" => log'[u] # "failed"
          /\ job[w].outcome # "failed" => new.outcome # "failed"
          /\ Retries(new.plan) => Retries(job[w].plan)
    BY <1>1, <1>3, <1>5 DEF r, s
  <2>2. job' = [job EXCEPT ![w] = new] /\ Unfailed
    BY <1>1 DEF Matched
  <2>3. QED BY <2>1, <2>2, UnfailedOn
<1>8. Covered'
  <2>1. SUFFICES ASSUME NEW u \in JournalTypes, ~booked'.retried
                 PROVE  booked'.journals[u] + Cardinality(Owed(u)') <= booked'.payments
    BY DEF Covered
  <2>2. /\ Cardinality(Owed(u)) \in Nat /\ Cardinality(Owed(u)') \in Nat
        /\ Cardinality(Owed(u)') <= Cardinality(Owed(u))
        /\ Owes(s, u) /\ ~Owes(r, u) => Cardinality(Owed(u)') + 1 = Cardinality(Owed(u))
    <3>1. new.plan = r /\ job' = [job EXCEPT ![w] = new]
      BY <1>1 DEF r
    <3>2. /\ Cardinality(Owed(u)) \in Nat /\ Cardinality(Owed(u)') \in Nat
          /\ (Owes(new.plan, u) => Owes(job[w].plan, u)) =>
               Cardinality(Owed(u)') <= Cardinality(Owed(u))
          /\ Owes(job[w].plan, u) /\ ~Owes(new.plan, u) =>
               Cardinality(Owed(u)') + 1 = Cardinality(Owed(u))
      BY <3>1, OwedTally
    <3>3. QED BY <1>3, <3>1, <3>2 DEF s
  <2>3. booked.journals[u] + Cardinality(Owed(u)) <= booked.payments /\ ~Retrying(w, t)
    BY <1>1, <2>1 DEF Matched, Covered
  <2>4. booked.journals \in [JournalTypes -> Nat] /\ booked.payments \in Nat
    BY BookedTyped
  <2>5. CASE u = t
    <3>1. Cardinality(Owed(u)') + 1 = Cardinality(Owed(u))
      BY <1>4, <2>2, <2>3, <2>5
    <3>2. booked'.journals[u] \in Nat /\ booked'.journals[u] <= booked.journals[u] + 1
      BY <1>1, <2>4, <2>5
    <3>3. booked.journals[u] \in Nat /\ booked'.payments = booked.payments
      BY <1>1, <2>4
    <3>4. QED BY <2>2, <2>3, <2>4, <3>1, <3>2, <3>3
  <2>6. CASE u # t
    <3>1. booked'.journals[u] = booked.journals[u] /\ booked.journals[u] \in Nat
      BY <1>1, <2>4, <2>6
    <3>2. QED BY <1>1, <2>2, <2>3, <2>4, <3>1
  <2>7. QED BY <2>5, <2>6
<1>9. Single'
  <2>1. SUFFICES ASSUME faults' = 0, ~raced', NEW u \in JournalTypes
                 PROVE  /\ booked'.journals[u] <= 1
                        /\ booked'.journals[u] = 1 =>
                             log'[u] # "none" \/ \E v \in Workers : Logging(v, u)'
    BY DEF Single
  <2>2. faults = 0 /\ ~raced /\ made /\ \A v \in Workers \ {w} : ~Logging(v, t)
    BY <1>1, <1>5, <2>1
  <2>3. Posting(w, t) /\ log[t] = "none"
    <3>1. ~Retries(s)
      BY <2>2 DEF Matched, Unfailed, s
    <3>2. \A x : Has(s, x) <=> (Head(s) = x \/ Has(Tail(s), x))
      BY <1>2, TailHas
    <3>3. ~Retrying(w, t)
      BY <1>2, <3>1, <3>2 DEF Retries, RetrySteps
    <3>4. QED BY <3>3
  <2>4. /\ booked.journals[u] <= 1 /\ booked.journals[t] <= 1
        /\ booked.journals[u] = 1 => log[u] # "none" \/ \E v \in Workers : Logging(v, u)
        /\ booked.journals[t] = 1 => log[t] # "none" \/ \E v \in Workers : Logging(v, t)
    BY <2>2 DEF Matched, Single
  <2>5. \A v \in Workers : \A k : Logging(v, k) => v # w
    <3>1. ~LogFirst(s)
      BY <1>2 DEF LogFirst, LogSteps, Attempts, JournalSteps, RetrySteps
    <3>2. QED BY <3>1, LoggingFirst DEF s
  <2>6. booked.journals \in [JournalTypes -> Nat]
    BY BookedTyped
  <2>7. CASE u = t
    <3>1. booked.journals[t] = 0 /\ booked'.journals[t] = 1
      BY <1>1, <2>2, <2>3, <2>4, <2>5, <2>6
    <3>2. PICK pair \in Pairs : /\ s[1] = pair[1]
                                /\ pair[2] = IF t = "payment_charge" THEN "charge_log"
                                             ELSE "vat_log"
      BY <1>2, <2>3 DEF Pairs, JournalStep, JournalTypes
    <3>3. 1 < Len(s) /\ s[1 + 1] = pair[2]
      BY <1>2, <3>2 DEF Followed
    <3>4. 1 \in 1..Len(r) /\ Len(r) # 0
      BY <1>2, <3>3
    <3>5. r[1] = pair[2] /\ r # <<>>
      BY <1>2, <3>3, <3>4, Len(<<>>) = 0
    <3>6. Head(r) = pair[2]
      BY <1>2, <3>5, RestOfPlan
    <3>7. job'[w].plan = r
      BY <1>1, OtherJobs DEF r
    <3>8. Logging(w, t)'
      BY <3>2, <3>5, <3>6, <3>7 DEF Logging, At
    <3>9. QED BY <2>7, <3>1, <3>8
  <2>8. CASE u # t
    <3>1. booked'.journals[u] = booked.journals[u]
      BY <1>1, <2>6, <2>8
    <3>2. ASSUME NEW v \in Workers, Logging(v, u) PROVE Logging(v, u)'
      BY <1>1, <2>5, <3>2, OtherJobs
    <3>3. QED BY <2>4, <3>1, <3>2
  <2>9. QED BY <2>7, <2>8
<1>10. QED BY <1>6, <1>7, <1>8, <1>9 DEF Matched

LEMMA LogTurn ==
  ASSUME Gated, Planned, NEW w \in Workers, NEW t \in JournalTypes, LogJournal(w, t)
  PROVE  \E new \in JobState :
           /\ Turn(w, new) /\ new.plan = Rest(w) /\ new.outcome = "none"
           /\ Onward(job[w].plan, Rest(w))
<1>1. PICK step \in LogSteps : At(w, step)
  BY DEF LogJournal, Logging, LogSteps
<1>2. step \notin Attempts \cup CashGates \cup Looks
  BY <1>1 DEF LogSteps, Attempts, JournalSteps, RetrySteps, CashGates, Looks
<1>3. job[w].plan \in Seq(Steps) /\ job[w].plan # <<>> /\ Rest(w) \in Seq(Steps)
      /\ Shape(job[w].plan) /\ Head(job[w].plan) = step
  BY <1>1, AtPlan DEF At, Planned
<1> DEFINE kept == Kept(job[w], Rest(w))
           new == [kept EXCEPT !.outcome = "none"]
<1>4. job[w] \in JobState /\ job' = [job EXCEPT ![w] = new]
  BY SeenInvoice DEF LogJournal
<1>5. kept \in JobState /\ kept.plan = Rest(w)
  BY <1>3, <1>4, KeptTyped
<1>6. kept.seen = job[w].seen \/ kept.seen = Idle.seen
  BY DEF Kept, Needed
<1> HIDE DEF kept
<1>7. new \in JobState /\ new.plan = Rest(w) /\ new.outcome = "none" /\ new.seen = kept.seen
  BY <1>5 DEF JobState, Outcomes
<1> HIDE DEF new
<1>8. new.seen.invoice \in {job[w].seen.invoice, order.invoice, 0}
  BY <1>6, <1>7, SeenInvoice
<1>9. Settling(Rest(w)) => Counts(job[w])
  BY <1>2, <1>3, SettlingTail DEF Rest, Counts
<1>10. Onward(job[w].plan, Rest(w))
  BY <1>2, <1>3, OnwardTail DEF Rest
<1>11. QED BY <1>4, <1>7, <1>8, <1>9, <1>10 DEF Turn

LEMMA LogMatched ==
  ASSUME Gated, Matched, NEW w \in Workers, NEW t \in JournalTypes, LogJournal(w, t)
  PROVE  Matched'
<1>1. PICK new \in JobState :
        /\ job' = [job EXCEPT ![w] = new] /\ new.plan = Rest(w) /\ new.outcome = "none"
        /\ Onward(job[w].plan, new.plan)
  BY LogTurn DEF Matched, Turn
<1>2. /\ log' = [log EXCEPT ![t] = job[w].outcome] /\ Logging(w, t)
      /\ UNCHANGED <<booked, raced, faults>>
  BY DEF LogJournal
<1>3. /\ Shape(new.plan) /\ ~LogFirst(new.plan)
      /\ \A u : Owes(new.plan, u) => Owes(job[w].plan, u)
      /\ Retries(new.plan) => Retries(job[w].plan)
  BY <1>1 DEF Onward
<1>4. job[w].outcome # "none"
  BY <1>2, LoggingFirst DEF Matched, Planned
<1>5. log'[t] = job[w].outcome /\ \A u \in JournalTypes \ {t} : log'[u] = log[u]
  BY <1>2, BookedTyped
<1>6. Planned'
  BY <1>1, <1>3, PlannedOn DEF Matched
<1>7. Unfailed'
  <2>1. faults = 0 => job[w].outcome # "failed"
    BY DEF Matched, Unfailed
  <2>2. QED BY <1>1, <1>2, <1>3, <1>5, <2>1, UnfailedOn DEF Matched
<1>8. Covered'
  <2>1. SUFFICES ASSUME NEW u \in JournalTypes, ~booked'.retried
                 PROVE  booked'.journals[u] + Cardinality(Owed(u)') <= booked'.payments
    BY DEF Covered
  <2>2. /\ Cardinality(Owed(u)) \in Nat /\ Cardinality(Owed(u)') \in Nat
        /\ Cardinality(Owed(u)') <= Cardinality(Owed(u))
    BY <1>1, <1>3, OwedTally
  <2>3. booked.journals[u] + Cardinality(Owed(u)) <= booked.payments
    BY <1>2, <2>1 DEF Matched, Covered
  <2>4. booked.journals[u] \in Nat /\ booked.payments \in Nat
    BY BookedTyped
  <2>5. QED BY <1>2, <2>2, <2>3, <2>4
<1>9. Single'
  <2>1. SUFFICES ASSUME faults' = 0, ~raced', NEW u \in JournalTypes
                 PROVE  /\ booked'.journals[u] <= 1
                        /\ booked'.journals[u] = 1 =>
                             log'[u] # "none" \/ \E v \in Workers : Logging(v, u)'
    BY DEF Single
  <2>2. /\ booked.journals[u] <= 1
        /\ booked.journals[u] = 1 => log[u] # "none" \/ \E v \in Workers : Logging(v, u)
    BY <1>2, <2>1 DEF Matched, Single
  <2>3. CASE u = t
    BY <1>2, <1>4, <1>5, <2>2, <2>3
  <2>4. CASE u # t
    <3>1. ~Logging(w, u)
      BY <1>2, <2>4 DEF Logging, At, JournalTypes
    <3>2. ASSUME NEW v \in Workers, Logging(v, u) PROVE Logging(v, u)'
      BY <1>1, <3>1, <3>2, OtherJobs
    <3>3. QED BY <1>2, <1>5, <2>2, <2>4, <3>2
  <2>5. QED BY <2>3, <2>4
<1>10. QED BY <1>6, <1>7, <1>8, <1>9 DEF Matched

LEMMA JournalQuiet ==
  ASSUME Gated, Planned, NEW w \in Workers, NEW t \in JournalTypes, Posting(w, t),
         Proceed(w, Tail(Rest(w)))
  PROVE  \E new \in JobState : Quiet(w, new)
<1>1. PICK pair \in Pairs : job[w].plan # <<>> /\ Head(job[w].plan) = pair[1]
  BY DEF Posting, At, Pairs
<1>2. QED BY <1>1, SkipQuiet

LEMMA JournalMatched ==
  ASSUME Gated, Matched, NEW w \in Workers, NEW t \in JournalTypes,
         PostJournal(w, t) \/ PostRetry(w, t)
  PROVE  Matched'
<1>1. CASE \/ Posting(w, t) /\ log[t] = "none" /\ Attempt(w, t) /\ UNCHANGED log
           \/ Retrying(w, t) /\ Attempt(w, t) /\ UNCHANGED log
  BY <1>1, AttemptMatched
<1>2. CASE /\ Posting(w, t) /\ Proceed(w, Tail(Rest(w))) /\ NoFault
           /\ UNCHANGED <<booked, raced, log>>
  <2>1. PICK new \in JobState : Quiet(w, new)
    BY <1>2, JournalQuiet DEF Matched
  <2>2. faults' \in Nat /\ faults' >= faults
    BY <1>2, FaultsGrow
  <2>3. QED BY <1>2, <2>1, <2>2, QuietMatched
<1>3. QED BY <1>1, <1>2 DEF PostJournal, PostRetry

-----------------------------------------------------------------------------
(***************************************************************************)
(* The steps that neither book a payment nor make or log a journal.        *)
(***************************************************************************)
LEMMA RequestSame ==
  ASSUME NEW w \in Workers, Request(w)
  PROVE  UNCHANGED <<booked, log, raced, invoices>> /\ NoFault
         /\ order' \in {order, [order EXCEPT !.paid = TRUE]}
<1>1. ASSUME NEW plan, Start(w, plan)
      PROVE  UNCHANGED <<booked, log, raced, invoices, order>> /\ NoFault
  BY <1>1 DEF Start, booksVars, NoFault
<1>2. CASE \E t \in JournalTypes : RetryJournal(w, t)
  BY <1>1, <1>2 DEF RetryJournal
<1>3. CASE CreateInvoice(w) \/ CollectCash(w) \/ GeideaCollect(w) \/ Reconcile(w)
           \/ CollectCard(w) \/ VerifyPayment(w) \/ MarkCodPaid(w)
  BY <1>1, <1>3 DEF CreateInvoice, CollectCash, GeideaCollect, Reconcile, CollectCard,
                    VerifyPayment, MarkCodPaid
<1>4. CASE Callback(w)
  BY <1>4 DEF Callback, booksVars, NoFault
<1>5. CASE \E stage \in Stages : PatchStatus(w, stage)
  BY <1>5 DEF PatchStatus, booksVars, NoFault
<1>6. QED BY <1>2, <1>3, <1>4, <1>5 DEF Request

QuietStep(w) ==
  \/ Deliver(w) \/ WriteStage(w) \/ SendMail(w) \/ SaveMailed(w) \/ SaveInvoice(w)
  \/ EnsureInvoice(w) \/ LinkInvoice(w) \/ Ready(w) \/ RecordPayment(w)
  \/ SavePayment(w) \/ BookCash(w) \/ MarkCashPaid(w) \/ OpenSession(w) \/ RecordCharge(w)
  \/ LinkGiven(w) \/ VerifyCharge(w) \/ MarkFindInvoice(w) \/ MarkNotFound(w)
  \/ MarkSave(w)

LEMMA StepKinds ==
  ASSUME NEW w \in Workers, Step(w)
  PROVE  \/ QuietStep(w) \/ PostPayment(w) \/ MarkPost(w)
         \/ \E t \in JournalTypes : PostJournal(w, t) \/ PostRetry(w, t) \/ LogJournal(w, t)
BY DEF Step, QuietStep

LEMMA QuietSame ==
  ASSUME NEW w \in Workers, QuietStep(w)
  PROVE  UNCHANGED <<booked, log, raced>> /\ (Fault \/ NoFault)
<1>1. CASE Deliver(w) \/ WriteStage(w) \/ SendMail(w) \/ SaveMailed(w) \/ Ready(w)
  BY <1>1 DEF Deliver, WriteStage, SendMail, SaveMailed, Ready, booksVars, NoFault
<1>2. CASE SaveInvoice(w) \/ EnsureInvoice(w) \/ LinkInvoice(w) \/ RecordPayment(w)
  BY <1>2 DEF SaveInvoice, EnsureInvoice, LinkInvoice, RecordPayment, booksVars, NoFault
<1>3. CASE SavePayment(w) \/ BookCash(w) \/ MarkCashPaid(w) \/ OpenSession(w)
           \/ RecordCharge(w)
  BY <1>3 DEF SavePayment, BookCash, MarkCashPaid, OpenSession, RecordCharge, booksVars,
              NoFault
<1>4. CASE LinkGiven(w) \/ VerifyCharge(w) \/ MarkFindInvoice(w) \/ MarkNotFound(w)
           \/ MarkSave(w)
  BY <1>4 DEF LinkGiven, VerifyCharge, MarkFindInvoice, MarkNotFound, MarkSave, booksVars,
              NoFault
<1>5. QED BY <1>1, <1>2, <1>3, <1>4 DEF QuietStep

LEMMA QuietSteps ==
  ASSUME Gated, Matched, NEW w \in Workers, Request(w) \/ QuietStep(w) \/ Die(w)
  PROVE  /\ \E new \in JobState : Quiet(w, new)
         /\ UNCHANGED <<booked, log, raced>> /\ (Fault \/ NoFault)
<1>1. Planned /\ Unfailed
  BY DEF Matched
<1>2. CASE Request(w)
  BY <1>1, <1>2, PatchStatusQuiet, RequestQuiet, CallbackQuiet, RequestSame DEF Request
<1>3. CASE QuietStep(w)
  <2>1. \E new \in JobState : Quiet(w, new)
    BY <1>1, <1>3, DeliverQuiet, WriteStageQuiet, SendMailQuiet, PlainStepsQuiet,
       EnsureInvoiceQuiet, RecordPaymentQuiet, SavesQuiet, BookCashQuiet,
       MarkFindInvoiceQuiet
       DEF QuietStep
  <2>2. QED BY <1>3, <2>1, QuietSame
<1>4. CASE Die(w)
  BY <1>4, DieQuiet DEF Die, booksVars
<1>5. QED BY <1>2, <1>3, <1>4

LEMMA NextMatched ==
  ASSUME Gated, Matched, [Next]_vars
  PROVE  Matched'
<1>1. ASSUME NEW w \in Workers, Request(w) \/ QuietStep(w) \/ Die(w) PROVE Matched'
  <2>1. PICK new \in JobState : Quiet(w, new)
    BY <1>1, QuietSteps
  <2>2. UNCHANGED <<booked, log, raced>> /\ faults' \in Nat /\ faults' >= faults
    BY <1>1, QuietSteps, FaultsGrow
  <2>3. QED BY <2>1, <2>2, QuietMatched
<1>2. ASSUME NEW w \in Workers, Step(w) PROVE Matched'
  BY <1>1, <1>2, StepKinds, PostMatched, JournalMatched, LogMatched
<1>3. CASE UNCHANGED <<job, booked, log, raced, faults>>
  BY <1>3, SameMatched
<1>4. ASSUME \/ \E customer \in BOOLEAN : Cancel(customer)
             \/ \E own \in BOOLEAN, status \in {"draft", "sent"} : StaffInvoiceInBooks(own, status)
             \/ \E i \in DOMAIN invoices : StaffVoidInBooks(i)
             \/ \E ref \in 1..order.ref : CustomerTaps(ref)
      PROVE  UNCHANGED <<job, booked, log, raced, faults>>
  BY <1>4 DEF Cancel, StaffInvoiceInBooks, StaffVoidInBooks, CustomerTaps, booksVars
<1>5. UNCHANGED vars => UNCHANGED <<job, booked, log, raced, faults>>
  BY DEF vars
<1>6. QED BY <1>1, <1>2, <1>3, <1>4, <1>5 DEF Next

LEMMA InitMatched ==
  ASSUME Init
  PROVE  Matched
<1>1. /\ job = [w \in Workers |-> Idle] /\ faults = 0 /\ raced = FALSE
      /\ log = [t \in JournalTypes |-> "none"]
      /\ booked = [payments |-> 0, journals |-> [t \in JournalTypes |-> 0], retried |-> FALSE]
  BY DEF Init
<1>2. Idle.plan = <<>> /\ Idle.outcome = "none"
  BY DEF Idle
<1>3. Shape(<<>>) /\ ~LogFirst(<<>>) /\ ~Retries(<<>>) /\ \A t : ~Owes(<<>>, t)
  BY NoPlan DEF Fresh
<1>4. Planned /\ Unfailed
  BY <1>1, <1>2, <1>3 DEF Planned, Unfailed
<1>5. ASSUME NEW t \in JournalTypes PROVE Owed(t) = {} /\ booked.journals[t] = 0
  BY <1>1, <1>2, <1>3 DEF Owed
<1>6. Covered
  BY <1>1, <1>5, FS_EmptySet DEF Covered
<1>7. Single
  BY <1>5 DEF Single
<1>8. QED BY <1>4, <1>6, <1>7 DEF Matched

\* Until staff retry a journal by hand there are no more journals of a type than payments,
\* though answers are lost and threads die: create_payment_journals_for_order comes after
\* the payment in every plan, and a plan has each journal once.  While every call is
\* answered a journal is logged or about to be, so that a second one takes two threads
\* that both found no log.
THEOREM JournalsAreCovered == Spec => []JournalsMatchPayments
<1>1. Gated /\ Matched => JournalsMatchPayments
  <2>1. SUFFICES ASSUME Gated, Matched, NEW t \in JournalTypes
                 PROVE  /\ ~booked.retried => booked.journals[t] <= booked.payments
                        /\ faults = 0 /\ ~raced => booked.journals[t] <= 1
    BY DEF JournalsMatchPayments
  <2>2. ~booked.retried => booked.journals[t] + Cardinality(Owed(t)) <= booked.payments
    BY <2>1 DEF Matched, Covered
  <2>3. Cardinality(Owed(t)) \in Nat /\ booked.journals[t] \in Nat /\ booked.payments \in Nat
    BY <2>1, OwedTyped, BookedTyped
  <2>4. faults = 0 /\ ~raced => booked.journals[t] <= 1
    BY <2>1 DEF Matched, Single
  <2>5. QED BY <2>2, <2>3, <2>4
<1>2. Init => Gated /\ Matched
  BY InitGated, InitMatched
<1>3. Gated /\ Matched /\ [Next]_vars => Gated' /\ Matched'
  BY NextGated, NextMatched
<1>4. QED BY <1>1, <1>2, <1>3, PTL DEF Spec

-----------------------------------------------------------------------------
(***************************************************************************)
(* The link to the invoice.                                                *)
(***************************************************************************)
\* The step keeps a link of a clean run, and has one where it says that a payment is booked.
LinkKept ==
  /\ Len(invoices') \in Nat /\ Len(invoices) <= Len(invoices')
  /\ order'.invoice <= Len(invoices')
  /\ Clean' => Clean /\ (order.invoice # 0 => order'.invoice # 0)
  /\ Clean' /\ order'.payment => order.payment \/ order'.invoice # 0

LEMMA KeptLinked ==
  ASSUME Gated, Linked, LinkKept,
         \A v \in Workers :
           \/ job'[v] = job[v]
           \/ /\ job'[v].seen.invoice \in {job[v].seen.invoice, order.invoice, 0}
              /\ Settling(job'[v].plan) => Counts(job[v]) \/ order'.invoice # 0
  PROVE  Linked'
<1>1. /\ Len(invoices) \in Nat /\ Len(invoices') \in Nat /\ order.invoice \in Nat
      /\ \A v \in Workers : job[v].seen.invoice \in Nat
  BY SeenInvoice, BooksTyped DEF LinkKept, OrderRow
<1>2. \A v \in Workers : job'[v].seen.invoice <= Len(invoices')
  <2>1. SUFFICES ASSUME NEW v \in Workers PROVE job'[v].seen.invoice <= Len(invoices')
    OBVIOUS
  <2>2. PICK a \in Nat : a = job[v].seen.invoice
    BY <1>1
  <2>3. PICK b \in Nat : b = order.invoice
    BY <1>1
  <2>4. a <= Len(invoices) /\ b <= Len(invoices)
    BY <2>2, <2>3 DEF Linked
  <2>5. job'[v].seen.invoice \in {a, b, 0}
    BY <2>2, <2>3
  <2>6. a <= Len(invoices') /\ b <= Len(invoices') /\ 0 <= Len(invoices')
    BY <1>1, <2>4 DEF LinkKept
  <2>7. QED BY <2>5, <2>6
<1>3. ASSUME Clean' PROVE order'.payment => order'.invoice # 0
  BY <1>3 DEF Linked, LinkKept
<1>4. ASSUME Clean', NEW v \in Workers, Counts(job'[v]) PROVE order'.invoice # 0
  <2>1. Clean /\ (order.invoice # 0 => order'.invoice # 0)
    BY <1>4 DEF LinkKept
  <2>2. Counts(job[v]) => order.invoice # 0
    BY <2>1 DEF Linked
  <2>3. CASE job'[v] = job[v]
    BY <1>4, <2>1, <2>2, <2>3
  <2>4. CASE /\ job'[v].seen.invoice \in {job[v].seen.invoice, order.invoice, 0}
             /\ Settling(job'[v].plan) => Counts(job[v]) \/ order'.invoice # 0
    <3>1. Settling(job'[v].plan) \/ job'[v].seen.invoice # 0
      BY <1>4 DEF Counts
    <3>2. job[v].seen.invoice # 0 => Counts(job[v])
      BY DEF Counts
    <3>3. QED BY <2>1, <2>2, <2>4, <3>1, <3>2
  <2>5. QED BY <2>3, <2>4
<1>5. order'.invoice <= Len(invoices')
  BY DEF LinkKept
<1>6. /\ order'.invoice <= Len(invoices')
      /\ \A v \in Workers : job'[v].seen.invoice <= Len(invoices')
      /\ Clean' => /\ order'.payment => order'.invoice # 0
                   /\ \A v \in Workers : Counts(job'[v]) => order'.invoice # 0
  BY <1>2, <1>3, <1>4, <1>5
<1>7. ASSUME NEW v \in Workers PROVE Counts(job'[v]) <=> Counts(job[v])'
  BY DEF Counts
<1>8. QED BY <1>6, <1>7 DEF Linked

LEMMA TurnLinked ==
  ASSUME Gated, Linked, LinkKept, NEW w \in Workers, NEW new \in JobState, Turn(w, new)
  PROVE  Linked'
<1>1. /\ job'[w] = new /\ \A v \in Workers \ {w} : job'[v] = job[v]
      /\ new.seen.invoice \in {job[w].seen.invoice, order.invoice, 0}
      /\ Settling(new.plan) => Counts(job[w]) \/ order'.invoice # 0
  BY OtherJobs DEF Turn
<1>2. QED BY <1>1, KeptLinked

\* Nothing is new in Books but the state of an invoice, and nothing is healed.
LEMMA CleanBefore ==
  ASSUME DOMAIN invoices \subseteq DOMAIN invoices',
         \A i \in DOMAIN invoices : invoices'[i].own => invoices[i].own,
         faults' = 0 => faults = 0
  PROVE  Clean' => Clean
BY DEF Clean

LEMMA StatusOnly ==
  ASSUME Gated, NEW i, NEW status, invoices' = [invoices EXCEPT ![i].status = status]
  PROVE  /\ Len(invoices') = Len(invoices) /\ DOMAIN invoices' = DOMAIN invoices
         /\ \A k \in DOMAIN invoices : invoices'[k].own = invoices[k].own
<1>1. invoices \in Seq(Invoice)
  BY BooksTyped
<1>2. Len(invoices') = Len(invoices) /\ DOMAIN invoices' = DOMAIN invoices
  BY <1>1
<1>3. \A k \in DOMAIN invoices : invoices[k] \in Invoice
  BY <1>1
<1>4. \A k \in DOMAIN invoices : invoices'[k].own = invoices[k].own
  BY <1>3 DEF Invoice
<1>5. QED BY <1>2, <1>4

LEMMA FaultsStay == Gated /\ (Fault \/ NoFault) => (faults' = 0 => faults = 0)
BY BoundAssumption DEF Gated, TypeOK, Fault, NoFault

\* The link is as it was, and Books has the invoices it had.
LEMMA SameKept ==
  ASSUME Gated, Linked, order'.invoice = order.invoice,
         order'.payment => order.payment \/ (Clean => order.invoice # 0),
         \/ invoices' = invoices
         \/ \E i \in Nat, status \in {"draft", "sent", "paid", "void"} :
              invoices' = [invoices EXCEPT ![i].status = status],
         Fault \/ NoFault
  PROVE  LinkKept
<1>1. /\ Len(invoices') = Len(invoices) /\ DOMAIN invoices' = DOMAIN invoices
      /\ \A k \in DOMAIN invoices : invoices'[k].own = invoices[k].own
  BY StatusOnly
<1>2. Clean' => Clean
  BY <1>1, FaultsStay, CleanBefore
<1>3. Len(invoices) \in Nat /\ order.invoice <= Len(invoices)
  BY BooksTyped DEF Linked
<1>4. QED BY <1>1, <1>2, <1>3 DEF LinkKept

\* ... the row's link and its flag are as they were.
RowKept == order'.invoice = order.invoice /\ order'.payment = order.payment

LEMMA PlainKept ==
  ASSUME Gated, Linked, NEW w \in Workers,
         \/ Request(w) \/ Deliver(w) \/ WriteStage(w) \/ SendMail(w) \/ SaveMailed(w)
         \/ Ready(w) \/ RecordPayment(w) \/ BookCash(w) \/ MarkCashPaid(w) \/ OpenSession(w)
         \/ RecordCharge(w) \/ VerifyCharge(w) \/ MarkNotFound(w) \/ Die(w)
  PROVE  LinkKept
<1>1. order \in OrderRow
  BY BooksTyped
<1>2. CASE Request(w)
  <2>1. UNCHANGED invoices /\ NoFault /\ RowKept
    BY <1>1, <1>2, RequestSame DEF RowKept, OrderRow
  <2>2. QED BY <2>1, SameKept DEF RowKept
<1>3. CASE Deliver(w) \/ WriteStage(w) \/ SendMail(w) \/ SaveMailed(w) \/ Ready(w)
  <2>1. UNCHANGED invoices /\ (Fault \/ NoFault) /\ RowKept
    BY <1>1, <1>3
       DEF Deliver, WriteStage, SendMail, SaveMailed, Ready, booksVars, RowKept, OrderRow,
           NoFault
  <2>2. QED BY <2>1, SameKept DEF RowKept
<1>4. CASE RecordPayment(w) \/ BookCash(w) \/ MarkCashPaid(w) \/ OpenSession(w)
  <2>1. UNCHANGED invoices /\ (Fault \/ NoFault) /\ RowKept
    BY <1>1, <1>4
       DEF RecordPayment, BookCash, MarkCashPaid, OpenSession, booksVars, RowKept, OrderRow,
           NoFault
  <2>2. QED BY <2>1, SameKept DEF RowKept
<1>5. CASE RecordCharge(w) \/ VerifyCharge(w) \/ MarkNotFound(w) \/ Die(w)
  <2>1. UNCHANGED invoices /\ (Fault \/ NoFault) /\ RowKept
    BY <1>1, <1>5
       DEF RecordCharge, VerifyCharge, MarkNotFound, Die, booksVars, RowKept, OrderRow, NoFault
  <2>2. QED BY <2>1, SameKept DEF RowKept
<1>6. QED BY <1>2, <1>3, <1>4, <1>5

LEMMA SavesKept ==
  ASSUME Gated, Planned, Linked, NEW w \in Workers, SavePayment(w) \/ MarkSave(w)
  PROVE  LinkKept
<1>1. Counts(job[w])
  BY SavesQuiet
<1>2. UNCHANGED invoices /\ NoFault /\ order'.invoice = order.invoice
  BY BooksTyped DEF SavePayment, MarkSave, booksVars, NoFault, OrderRow
<1>3. Clean => order.invoice # 0
  BY <1>1 DEF Linked
<1>4. QED BY <1>2, <1>3, SameKept

LEMMA SaveInvoiceKept ==
  ASSUME Gated, Linked, NEW w \in Workers, SaveInvoice(w)
  PROVE  LinkKept
<1>1. CASE order.invoice # 0
  <2>1. UNCHANGED <<order, invoices>> /\ NoFault
    BY <1>1 DEF SaveInvoice, NoFault
  <2>2. QED BY <2>1, SameKept
<1>2. CASE order.invoice = 0
  <2>1. PICK known \in BOOLEAN, status \in {"draft", "sent"} :
          /\ invoices' = Append(invoices, [own |-> TRUE, status |-> status])
          /\ order' = [order EXCEPT !.invoice = IF known THEN Len(invoices) + 1 ELSE 0]
          /\ Fault \/ NoFault
    BY <1>2 DEF SaveInvoice
  <2>2. invoices \in Seq(Invoice) /\ Len(invoices) \in Nat /\ order \in OrderRow
    BY BooksTyped
  <2>3. PICK new \in Invoice : new = [own |-> TRUE, status |-> status]
    BY DEF Invoice
  <2>4. /\ Len(invoices') = Len(invoices) + 1 /\ DOMAIN invoices \subseteq DOMAIN invoices'
        /\ \A i \in DOMAIN invoices : invoices'[i] = invoices[i]
    BY <2>1, <2>2, <2>3
  <2>5. Clean' => Clean
    BY <2>1, <2>4, FaultsStay, CleanBefore
  <2>6. order'.invoice \in 0..(Len(invoices) + 1) /\ order'.payment = order.payment
    BY <2>1, <2>2 DEF OrderRow
  <2>7. QED BY <1>2, <2>2, <2>4, <2>5, <2>6 DEF LinkKept
<1>3. QED BY <1>1, <1>2

\* A link is only cleared when the call failed, or when the invoice is of another order.
LEMMA EnsureInvoiceKept ==
  ASSUME Gated, Linked, NEW w \in Workers, EnsureInvoice(w)
  PROVE  LinkKept
<1>1. UNCHANGED invoices /\ (Fault \/ NoFault)
  BY DEF EnsureInvoice, booksVars
<1>2. CASE UNCHANGED order
  BY <1>1, <1>2, SameKept
<1>3. CASE /\ job[w].seen.invoice # 0
           /\ IF Own(job[w].seen.invoice) THEN Fault ELSE NoFault
           /\ order' = [order EXCEPT !.invoice = 0]
  <2>1. job[w].seen.invoice \in DOMAIN invoices
    <3>1. job[w].seen.invoice \in Nat /\ job[w].seen.invoice <= Len(invoices)
          /\ invoices \in Seq(Invoice)
      BY SeenInvoice, BooksTyped DEF Linked
    <3>2. QED BY <1>3, <3>1
  <2>2. ~Clean'
    <3>1. CASE Own(job[w].seen.invoice)
      <4>1. faults' # 0
        BY <1>3, <3>1, SeenInvoice DEF Fault
      <4>2. QED BY <4>1 DEF Clean
    <3>2. CASE ~Own(job[w].seen.invoice)
      <4>1. ~invoices'[job[w].seen.invoice].own /\ job[w].seen.invoice \in DOMAIN invoices'
        BY <1>1, <1>3, <2>1, <3>2 DEF Own
      <4>2. QED BY <4>1 DEF Clean
    <3>3. QED BY <3>1, <3>2
  <2>3. order'.invoice = 0 /\ Len(invoices') = Len(invoices) /\ Len(invoices) \in Nat
    BY <1>1, <1>3, BooksTyped DEF OrderRow
  <2>4. QED BY <2>2, <2>3 DEF LinkKept
<1>4. QED BY <1>2, <1>3 DEF EnsureInvoice

LEMMA NewLinkKept ==
  ASSUME Gated, Linked, NEW i \in DOMAIN invoices, order' = [order EXCEPT !.invoice = i],
         \/ invoices' = invoices
         \/ \E k \in Nat, status \in {"draft", "sent", "paid", "void"} :
              invoices' = [invoices EXCEPT ![k].status = status],
         Fault \/ NoFault
  PROVE  LinkKept
<1>1. /\ Len(invoices') = Len(invoices) /\ DOMAIN invoices' = DOMAIN invoices
      /\ \A k \in DOMAIN invoices : invoices'[k].own = invoices[k].own
  BY StatusOnly
<1>2. Clean' => Clean
  BY <1>1, FaultsStay, CleanBefore
<1>3. i \in 1..Len(invoices) /\ Len(invoices) \in Nat /\ order'.invoice = i
  BY BooksTyped DEF OrderRow
<1>4. QED BY <1>1, <1>2, <1>3 DEF LinkKept

LEMMA LinkStepsKept ==
  ASSUME Gated, Linked, NEW w \in Workers, LinkInvoice(w) \/ LinkGiven(w)
  PROVE  LinkKept
<1>1. UNCHANGED invoices /\ (Fault \/ NoFault)
  BY DEF LinkInvoice, LinkGiven, booksVars, NoFault
<1>2. CASE UNCHANGED order
  BY <1>1, <1>2, SameKept
<1>3. CASE \E i \in DOMAIN invoices : order' = [order EXCEPT !.invoice = i]
  BY <1>1, <1>3, NewLinkKept
<1>4. Pick \subseteq DOMAIN invoices
  BY DEF Pick, Unpaid, Candidates
<1>5. QED BY <1>2, <1>3, <1>4 DEF LinkInvoice, LinkGiven

LEMMA MarkFindInvoiceKept ==
  ASSUME Gated, Linked, NEW w \in Workers, MarkFindInvoice(w)
  PROVE  LinkKept
<1>1. PICK i \in DOMAIN invoices, named \in BOOLEAN :
        /\ invoices' = IF named THEN invoices ELSE [invoices EXCEPT ![i].status = "sent"]
        /\ order' = order \/ order' = [order EXCEPT !.invoice = i]
  BY DEF MarkFindInvoice
<1>2. NoFault /\ i \in Nat
  BY BooksTyped DEF MarkFindInvoice, NoFault
<1>3. \/ invoices' = invoices
      \/ \E k \in Nat, status \in {"draft", "sent", "paid", "void"} :
           invoices' = [invoices EXCEPT ![k].status = status]
  BY <1>1, <1>2
<1>4. CASE order' = order
  BY <1>2, <1>3, <1>4, SameKept
<1>5. CASE order' = [order EXCEPT !.invoice = i]
  BY <1>2, <1>3, <1>5, NewLinkKept
<1>6. QED BY <1>1, <1>4, <1>5

LEMMA PostKept ==
  ASSUME Gated, Linked, NEW w \in Workers, PostPayment(w) \/ MarkPost(w)
  PROVE  LinkKept
<1>1. UNCHANGED order /\ (Fault \/ NoFault)
  BY DEF PostPayment, MarkPost
<1>2. UNCHANGED invoices \/ Pay(job[w].invoice)
  BY DEF PostPayment, MarkPost
<1>3. job[w].invoice \in Nat
  BY SeenInvoice, BoundAssumption DEF JobState
<1>4. QED BY <1>1, <1>2, <1>3, SameKept DEF Pay

LEMMA JournalKept ==
  ASSUME Gated, Linked, NEW w \in Workers, NEW t \in JournalTypes,
         PostJournal(w, t) \/ PostRetry(w, t) \/ LogJournal(w, t)
  PROVE  LinkKept
<1>1. UNCHANGED <<order, invoices>> /\ (Fault \/ NoFault)
  BY DEF PostJournal, PostRetry, LogJournal, Attempt, NoFault
<1>2. QED BY <1>1, SameKept

LEMMA StaffKept ==
  ASSUME Gated, Linked,
         \/ \E customer \in BOOLEAN : Cancel(customer)
         \/ \E own \in BOOLEAN, status \in {"draft", "sent"} : StaffInvoiceInBooks(own, status)
         \/ \E i \in DOMAIN invoices : StaffVoidInBooks(i)
         \/ \E ref \in 1..order.ref : CustomerTaps(ref)
         \/ UNCHANGED vars
  PROVE  LinkKept /\ UNCHANGED job
<1>1. CASE \/ \E customer \in BOOLEAN : Cancel(customer)
           \/ \E ref \in 1..order.ref : CustomerTaps(ref)
           \/ UNCHANGED vars
  <2>1. UNCHANGED <<invoices, job>> /\ NoFault /\ RowKept
    BY <1>1, BooksTyped DEF Cancel, CustomerTaps, booksVars, vars, NoFault, RowKept, OrderRow
  <2>2. QED BY <2>1, SameKept DEF RowKept
<1>2. ASSUME NEW own \in BOOLEAN, NEW status \in {"draft", "sent"},
             StaffInvoiceInBooks(own, status)
      PROVE  LinkKept /\ UNCHANGED job
  <2>1. /\ invoices' = Append(invoices, [own |-> own, status |-> status])
        /\ UNCHANGED <<order, job>> /\ NoFault
    BY <1>2 DEF StaffInvoiceInBooks, NoFault
  <2>2. invoices \in Seq(Invoice) /\ Len(invoices) \in Nat /\ order.invoice \in Nat
        /\ order.invoice <= Len(invoices)
    BY BooksTyped, SeenInvoice DEF Linked, OrderRow
  <2>3. PICK new \in Invoice : new = [own |-> own, status |-> status]
    BY DEF Invoice
  <2>4. /\ Len(invoices') = Len(invoices) + 1 /\ DOMAIN invoices \subseteq DOMAIN invoices'
        /\ \A i \in DOMAIN invoices : invoices'[i] = invoices[i]
    BY <2>1, <2>2, <2>3
  <2>5. Clean' => Clean
    BY <2>1, <2>4, FaultsStay, CleanBefore
  <2>6. QED BY <2>1, <2>2, <2>4, <2>5 DEF LinkKept
<1>3. ASSUME NEW i \in DOMAIN invoices, StaffVoidInBooks(i)
      PROVE  LinkKept /\ UNCHANGED job
  <2>1. invoices' = [invoices EXCEPT ![i].status = "void"] /\ UNCHANGED <<order, job>> /\ NoFault
    BY <1>3 DEF StaffVoidInBooks, NoFault
  <2>2. i \in Nat
    BY BooksTyped
  <2>3. QED BY <2>1, <2>2, SameKept
<1>4. QED BY <1>1, <1>2, <1>3

LEMMA AnyTurn ==
  ASSUME Gated, Matched, NEW w \in Workers, Request(w) \/ Step(w) \/ Die(w)
  PROVE  \E new \in JobState : Turn(w, new)
<1>1. Planned
  BY DEF Matched
<1>2. CASE Request(w) \/ QuietStep(w) \/ Die(w)
  BY <1>2, QuietSteps DEF Quiet
<1>3. CASE PostPayment(w) \/ MarkPost(w)
  BY <1>1, <1>3, PostTurn DEF Quiet
<1>4. ASSUME NEW t \in JournalTypes, PostJournal(w, t) \/ PostRetry(w, t)
      PROVE  \E new \in JobState : Turn(w, new)
  <2>1. CASE (Posting(w, t) \/ Retrying(w, t)) /\ Attempt(w, t)
    BY <1>1, <2>1, AttemptTurn
  <2>2. CASE Posting(w, t) /\ Proceed(w, Tail(Rest(w)))
    BY <1>1, <2>2, JournalQuiet DEF Quiet
  <2>3. QED BY <1>4, <2>1, <2>2 DEF PostJournal, PostRetry
<1>5. ASSUME NEW t \in JournalTypes, LogJournal(w, t)
      PROVE  \E new \in JobState : Turn(w, new)
  BY <1>1, <1>5, LogTurn
<1>6. QED BY <1>2, <1>3, <1>4, <1>5, StepKinds

LEMMA NextLinked ==
  ASSUME Gated, Matched, Linked, [Next]_vars
  PROVE  Linked'
<1>1. ASSUME NEW w \in Workers, Request(w) \/ Step(w) \/ Die(w) PROVE Linked'
  <2>1. PICK new \in JobState : Turn(w, new)
    BY <1>1, AnyTurn
  <2>2. LinkKept
    BY <1>1, PlainKept, SavesKept, SaveInvoiceKept, EnsureInvoiceKept, LinkStepsKept,
       MarkFindInvoiceKept, PostKept, JournalKept
       DEF Step, Matched
  <2>3. QED BY <2>1, <2>2, TurnLinked
<1>2. ASSUME LinkKept, UNCHANGED job PROVE Linked'
  BY <1>2, KeptLinked
<1>3. QED BY <1>1, <1>2, StaffKept DEF Next

LEMMA InitLinked ==
  ASSUME Init
  PROVE  Linked
<1>1. order.invoice = 0 /\ order.payment = FALSE /\ invoices = <<>>
      /\ job = [w \in Workers |-> Idle]
  BY DEF Init
<1>2. Idle.plan = <<>> /\ Idle.seen.invoice = 0 /\ ~Settling(<<>>)
  BY NoPlan DEF Idle, Fresh
<1>3. QED BY <1>1, <1>2 DEF Linked, Counts

\* While every call is answered and no invoice of another order is in Books, an order whose
\* payment is booked keeps a link to an invoice of its own: the thread that saves
\* zoho_books_payment_id looked at the link, or wrote it, before, and
\* ensure_zoho_books_invoice_for_order clears only a link it cannot confirm.
THEOREM BookedOrdersKeepInvoice == Spec => []BookedKeepsInvoice
<1>1. Gated /\ Linked => BookedKeepsInvoice
  <2>1. SUFFICES ASSUME Gated, Linked, faults = 0, order.payment,
                        \A i \in DOMAIN invoices : invoices[i].own
                 PROVE  Own(order.invoice)
    BY DEF BookedKeepsInvoice
  <2>2. order.invoice # 0 /\ order.invoice <= Len(invoices)
    BY <2>1 DEF Linked, Clean
  <2>3. order.invoice \in DOMAIN invoices
    BY <2>1, <2>2, SeenInvoice, BooksTyped DEF OrderRow
  <2>4. QED BY <2>1, <2>2, <2>3 DEF Own
<1>2. Init => Gated /\ Matched /\ Linked
  BY InitGated, InitMatched, InitLinked
<1>3. Gated /\ Matched /\ Linked /\ [Next]_vars => Gated' /\ Matched' /\ Linked'
  BY NextGated, NextMatched, NextLinked
<1>4. QED BY <1>1, <1>2, <1>3, PTL DEF Spec
=============================================================================
