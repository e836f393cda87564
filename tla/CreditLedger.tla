---------------------------- MODULE CreditLedger ----------------------------
(***************************************************************************)
(* The prepaid account credit of the users: the column                     *)
(* User.credit_balance_aed and the audit table AccountCreditLedger         *)
(* (shop/models.py).  Every posting happens in a transaction that holds    *)
(* the row lock of the user, so it is one step; the column can also be     *)
(* overwritten by a full save of the user row (OverwriteBalance).          *)
(***************************************************************************)
EXTENDS Integers, Sequences

CONSTANT Users

VARIABLES
  balance,  \* [Users -> Int]  User.credit_balance_aed
  ledger    \* [Users -> Seq(entry)]  AccountCreditLedger, oldest entry first

walletVars == <<balance, ledger>>

EntryKinds == {"gateway_payment", "paylink_payment", "invoice_application",
               "order_cancel"}

PaymentKinds == {"gateway_payment", "paylink_payment"}

Entry(o, kind, amount, after) ==
  [order |-> o, kind |-> kind, amount |-> amount, balance_after |-> after]

LedgerRow(orders) ==
  [order: orders, kind: EntryKinds, amount: Int, balance_after: Int]

LedgerInit ==
  /\ balance = [u \in Users |-> 0]
  /\ ledger = [u \in Users |-> <<>>]

\* A mutant: the new balance forgets what was on the account before.
PostEntryForgetsBalance(u, o, kind, amount) ==
  /\ balance' = [balance EXCEPT ![u] = amount]
  /\ ledger' = [ledger EXCEPT
                  ![u] = Append(@, Entry(o, kind, amount, balance[u] + amount))]

\* Lock the user, add amount to the balance, write the audit row.
PostEntry(u, o, kind, amount) ==
  /\ balance' = [balance EXCEPT ![u] = balance[u] + amount]
  /\ ledger' = [ledger EXCEPT
                  ![u] = Append(@, Entry(o, kind, amount, balance[u] + amount))]

\* user.save() without update_fields writes back every column as it was read.
OverwriteBalance(u, seen) ==
  /\ balance' = [balance EXCEPT ![u] = seen]
  /\ UNCHANGED ledger

-----------------------------------------------------------------------------
(***************************************************************************)
(* The audit trail explains the balance: every row's balance_after is the  *)
(* previous one plus the row's amount, and the last one is the balance of  *)
(* the user.  No posting of another request may be lost or counted twice.  *)
(***************************************************************************)
BalanceAfter(u, i) == IF i = 0 THEN 0 ELSE ledger[u][i].balance_after

LedgerExplainsBalance ==
  \A u \in Users :
    /\ \A i \in 1..Len(ledger[u]) :
         BalanceAfter(u, i) = BalanceAfter(u, i - 1) + ledger[u][i].amount
    /\ balance[u] = BalanceAfter(u, Len(ledger[u]))
=============================================================================
