----------------------------- MODULE CreditLedger -----------------------------
(***************************************************************************)
(* What the engine promises about money, without loops, sessions or        *)
(* statuses of invoices: every transfer is recorded once, credited at most *)
(* once, to one invoice that holds no other credit, and a credit taken     *)
(* back is never given again.  The balance of an invoice moves by exactly  *)
(* the value of the transfer credited or taken back; taking back a credit  *)
(* may leave the balance alone (the invoice was settled).                  *)
(***************************************************************************)
EXTENDS Naturals

CONSTANTS InvoiceIds, Logs, Value, Nobody

VARIABLES
  stage,     \* what became of each transfer
  payee,     \* the invoice it was credited to
  balance    \* the money credited to each invoice

ledger == <<stage, payee, balance>>

LedgerInit ==
  /\ stage   = [l \in Logs |-> "absent"]
  /\ payee   = [l \in Logs |-> Nobody]
  /\ balance = [i \in InvoiceIds |-> 0]

Credits(i) == {l \in Logs : stage[l] = "processed" /\ payee[l] = i}

Moved(S, from, to) ==
  /\ \A l \in S : stage[l] = from
  /\ stage' = [l \in Logs |-> IF l \in S THEN to ELSE stage[l]]

Record(S) == Moved(S, "absent", "pending")  /\ UNCHANGED <<payee, balance>>
Ignore(l) == Moved({l}, "pending", "skipped") /\ UNCHANGED <<payee, balance>>

Credit(l, i) ==
  /\ Credits(i) = {}
  /\ payee[l] = Nobody
  /\ Moved({l}, "pending", "processed")
  /\ payee' = [payee EXCEPT ![l] = i]
  /\ balance' = [balance EXCEPT ![i] = @ + Value[l]]

\* The invoices of K keep the balance of the credit they lose.
TakeBack(S, K) ==
  /\ Moved(S, "processed", "orphaned")
  /\ \A i \in InvoiceIds :
       \/ balance'[i] = balance[i] /\ (Credits(i) \cap S = {} \/ i \in K)
       \/ i \notin K /\ \E l \in Credits(i) \cap S : balance[i] = balance'[i] + Value[l]
  /\ UNCHANGED payee

LedgerNext ==
  \/ \E S \in SUBSET Logs : Record(S)
  \/ \E l \in Logs : Ignore(l) \/ \E i \in InvoiceIds : Credit(l, i)
  \/ \E S \in SUBSET Logs, K \in SUBSET InvoiceIds : TakeBack(S, K)

LedgerSpec == LedgerInit /\ [][LedgerNext]_ledger
=============================================================================
