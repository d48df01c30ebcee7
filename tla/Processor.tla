------------------------------ MODULE Processor ------------------------------
(***************************************************************************)
(* app/processor.py: the loop that applies pending chain events.  One      *)
(* event at a time is matched to an open invoice, and the payment, the     *)
(* invoice and the event are written by one commit.  Only this loop takes  *)
(* an event out of `pending`, so every event of run_pending's list is      *)
(* still pending when its turn comes and the list need not be kept.        *)
(***************************************************************************)
EXTENDS Store

CONSTANT NoLog
ASSUME NoLogAssumption == NoLog \notin Logs

VARIABLE proc   \* the session: the event being applied, the matched row

ProcIdle == [log |-> NoLog, invoice |-> NoInvoice, row |-> AbsentInvoice]

ProcTypeOK ==
  /\ proc \in [log : Logs \cup {NoLog}, invoice : InvoiceIds \cup {NoInvoice},
               row : InvoiceRow]
  /\ proc.invoice # NoInvoice => proc.log # NoLog

ProcInit == proc = ProcIdle

\* Mutant: matches whatever is_payable() accepts, not only open invoices.
MatchingPayable(l) ==
  {i \in InStatus("AWAITING_PAYMENT") \cup InStatus("DETECTED") \cup InStatus("CONFIRMING") :
     invoices[i].amount = Value[l]}

\* Mutant: an overpayment is accepted.
MatchingAtLeast(l) == {i \in InStatus("AWAITING_PAYMENT") : invoices[i].amount <= Value[l]}

\* The open invoices whose payable amount is the transfer's.
Matching(l) == {i \in InStatus("AWAITING_PAYMENT") : invoices[i].amount = Value[l]}

\* _find_matching_invoice() found invoice i, the lowest id of the matches.
MatchEvent(l, i) ==
  /\ proc.log = NoLog
  /\ events[l].status = "pending"
  /\ i \in Matching(l)
  /\ \A j \in Matching(l) : i <= j
  /\ proc' = [log |-> l, invoice |-> i, row |-> invoices[i]]
  /\ UNCHANGED tables

\* ... or no invoice is open for this amount.
MissEvent(l) ==
  /\ proc.log = NoLog
  /\ events[l].status = "pending"
  /\ Matching(l) = {}
  /\ proc' = [ProcIdle EXCEPT !.log = l]
  /\ UNCHANGED tables

\* Mutant: detected_block is not recorded.
CreditedBlockless(row, l) ==
  [row EXCEPT !.paid = @ + Value[l], !.status = "CONFIRMING"]

\* The invoice as process_event leaves it.  The row was loaded by a query for
\* AWAITING_PAYMENT, so neither transition can raise IllegalTransition.
Credited(row, l) ==
  [row EXCEPT !.paid = @ + Value[l], !.detected = events[l].block,
              !.status = "CONFIRMING"]

\* Payment, invoice and event by one commit.  created_at is the database's
\* clock in whole seconds: the last payment's, or a later one.
CreditEvent ==
  LET l == proc.log
      i == proc.invoice
  IN /\ i # NoInvoice
     /\ CanTransition(proc.row.status, "DETECTED")
     /\ CanTransition("DETECTED", "CONFIRMING")
     /\ payments[l].status = "absent"      \* uq_payments_tx_log
     /\ \E now \in 1..1 + Cardinality({k \in Logs : payments[k].status # "absent"}) :
          /\ \A k \in Logs : payments[k].rank <= now
          /\ payments' = [payments EXCEPT ![l] =
               [status |-> "live", invoice |-> i, rank |-> now]]
     /\ invoices' = [invoices EXCEPT ![i] =
          Flush(@, proc.row, Credited(proc.row, l))]
     /\ events' = [events EXCEPT ![l].status = "processed"]
     /\ proc' = ProcIdle
     /\ UNCHANGED <<overdue, deliveries>>

\* Mutant: an unmatched event keeps its status.
SkipNothing ==
  /\ proc.log # NoLog
  /\ proc.invoice = NoInvoice
  /\ proc' = ProcIdle
  /\ UNCHANGED tables

\* No invoice: the event is skipped for good.
SkipEvent ==
  /\ proc.log # NoLog
  /\ proc.invoice = NoInvoice
  /\ events' = [events EXCEPT ![proc.log].status = "skipped"]
  /\ proc' = ProcIdle
  /\ UNCHANGED <<invoices, overdue, payments, deliveries>>

\* Mutant: the claim on the event is committed by itself.
AbortClaimed ==
  /\ proc.log # NoLog
  /\ events' = [events EXCEPT ![proc.log].status = "processed"]
  /\ proc' = ProcIdle
  /\ UNCHANGED <<invoices, overdue, payments, deliveries>>

\* An exception or a crash before the commit: the session is rolled back.
AbortProcessor ==
  /\ proc.log # NoLog
  /\ proc' = ProcIdle
  /\ UNCHANGED tables

ProcNext ==
  \/ \E l \in Logs : (\E i \in InvoiceIds : MatchEvent(l, i)) \/ MissEvent(l)
  \/ CreditEvent
  \/ SkipEvent
  \/ AbortProcessor
=============================================================================
