---------------------------- MODULE Reconciliation ----------------------------
(***************************************************************************)
(* app/reconciliation.py: reconcile() re-enqueues the confirmations no     *)
(* merchant received and re-verifies credited payments against the chain,  *)
(* undoing those whose block is gone.  One commit ends the pass.  Its two  *)
(* other checks only log.                                                  *)
(***************************************************************************)
EXTENDS Chain

CONSTANTS
  RescueCap,          \* reconciliation_rescue_cap
  CrosscheckBatch,    \* reconciliation_crosscheck_batch
  ReorgSafetyDepth,   \* reorg_safety_depth
  MaxRounds           \* bound: rounds of invoice.confirmed a rescue may add to

ASSUME ReconAssumption ==
  /\ RescueCap \in Nat /\ CrosscheckBatch \in Nat
  /\ ReorgSafetyDepth \in Nat /\ MaxRounds \in Nat

VARIABLE recon  \* the session: rescues, payments to check, payments lost

ReconIdle ==
  [pc |-> "idle", latest |-> 0, rescue |-> {}, todo |-> {}, lost |-> {},
   voided |-> FALSE, rows |-> [i \in InvoiceIds |-> AbsentInvoice]]

ReconTypeOK ==
  recon \in [pc : {"idle", "rescued", "checking"}, latest : Nat,
             rescue : SUBSET InvoiceIds, todo : SUBSET Logs, lost : SUBSET Logs,
             voided : BOOLEAN, rows : [InvoiceIds -> InvoiceRow]]

ReconInit == recon = ReconIdle

\* Mutant: a pending confirmation is overlooked.
UnnotifiedOrPending ==
  {i \in InStatus("CONFIRMED") :
     \A d \in Notices(i, "invoice.confirmed") : d.status # "delivered"}

\* Mutant: a failed confirmation passes for a notification.
NeverEnqueued == {i \in InStatus("CONFIRMED") : Notices(i, "invoice.confirmed") = {}}

\* CONFIRMED invoices with no confirmation delivered or on its way.
Unnotified ==
  {i \in InStatus("CONFIRMED") :
     \A d \in Notices(i, "invoice.confirmed") : d.status = "failed"}

\* The bound: an invoice whose confirmation was enqueued MaxRounds times is
\* no longer rescued.
Rescuable ==
  {i \in Unnotified :
     Cardinality({d \in Notices(i, "invoice.confirmed") : d.attempt = 1}) < MaxRounds}

\* _rescue_stuck_confirmations(): up to the cap, in no particular order.
Rescue(latest, S) ==
  /\ recon.pc = "idle"
  /\ S \subseteq Rescuable
  /\ \/ S = Rescuable /\ Cardinality(S) <= RescueCap
     \/ Cardinality(S) = RescueCap
  /\ recon' = [ReconIdle EXCEPT !.pc = "rescued", !.latest = latest, !.rescue = S]
  /\ UNCHANGED tables

\* The newest live payments, at most CrosscheckBatch of them: of those made in
\* one second, any.
NewestLive(S) ==
  /\ S \subseteq LivePayments
  /\ \/ S = LivePayments /\ Cardinality(S) <= CrosscheckBatch
     \/ Cardinality(S) = CrosscheckBatch
  /\ \A l \in S, k \in LivePayments \ S : payments[k].rank <= payments[l].rank

ListPayments(S) ==
  /\ recon.pc = "rescued"
  /\ IF recon.latest = 0 THEN S = {} ELSE NewestLive(S)
  /\ recon' = [recon EXCEPT !.pc = "checking", !.todo = S]
  /\ UNCHANGED tables

NextToCheck(l) ==
  /\ recon.pc = "checking"
  /\ l \in recon.todo
  /\ \A k \in recon.todo : payments[k].rank <= payments[l].rank

\* The receipt's blockHash is the one the event was recorded with.
ReceiptOk(l) == onChain[l] = [block |-> events[l].block, fork |-> events[l].fork]

\* Mutant: the oldest block of the window is left out.
InsideWindowStrictly(l) == events[l].block + ReorgSafetyDepth > recon.latest + 1

\* p.block_number > latest_block - reorg_safety_depth
InsideWindow(l) == events[l].block + ReorgSafetyDepth > recon.latest

\* Still mined where it was, or gone but too old to act on (logged only).
KeepPayment(l) ==
  /\ NextToCheck(l)
  /\ ReceiptOk(l) \/ ~InsideWindow(l)
  /\ recon' = [recon EXCEPT !.todo = @ \ {l}]
  /\ UNCHANGED tables

\* _apply_reorg() on the invoice as loaded now.  SETTLED (and an invoice
\* already open) keeps its state and only the audit rows are marked.
LosePayment(l) ==
  LET i == payments[l].invoice
  IN /\ NextToCheck(l)
     /\ ~ReceiptOk(l)
     /\ InsideWindow(l)
     /\ \/ invoices[i].status \in {"AWAITING_PAYMENT", "SETTLED"}
        \/ CanRollBack(invoices[i].status)
     /\ recon' = [recon EXCEPT !.todo = @ \ {l}, !.lost = @ \cup {l},
                               !.rows[i] = invoices[i]]
     /\ UNCHANGED tables

\* RpcUnavailable: the loop stops (voided), and the pass goes on to its commit.
BreakOff ==
  /\ recon.pc = "checking"
  /\ recon.todo # {}
  /\ recon' = [recon EXCEPT !.todo = {}, !.voided = TRUE]
  /\ UNCHANGED tables

LessOrZero(a, b) == IF a < b THEN 0 ELSE a - b

\* Mutant: the credit is not taken off the invoice.
RolledBackPaid(row, l) ==
  [row EXCEPT !.status = "AWAITING_PAYMENT", !.detected = NoBlock, !.confirmed = NoBlock]

\* Mutant: confirmed_block is not cleared.
RolledBackConfirmed(row, l) ==
  [row EXCEPT !.status = "AWAITING_PAYMENT", !.paid = LessOrZero(@, Value[l]),
              !.detected = NoBlock]

\* Mutant: detected_block is not cleared.
RolledBackDetected(row, l) ==
  [row EXCEPT !.status = "AWAITING_PAYMENT", !.paid = LessOrZero(@, Value[l]),
              !.confirmed = NoBlock]

RolledBack(row, l) ==
  [row EXCEPT !.status = "AWAITING_PAYMENT", !.paid = LessOrZero(@, Value[l]),
              !.detected = NoBlock, !.confirmed = NoBlock]

\* Mutant: SETTLED invoices are rolled back like the others.
UndoneAll == {l \in recon.lost : recon.rows[payments[l].invoice].status # "AWAITING_PAYMENT"}

\* Payments of the pass whose invoice is rolled back.
Undone == {l \in recon.lost : CanRollBack(recon.rows[payments[l].invoice].status)}
Reopened == {payments[l].invoice : l \in Undone}

\* Mutant: the rows of a rolled-back invoice stay as they were.
OrphanedKept(rows) ==
  [l \in Logs |->
     IF l \in recon.lost \ Undone THEN [rows[l] EXCEPT !.status = "orphaned"] ELSE rows[l]]

\* Payment and event rows are marked, never deleted.
Orphaned(rows) ==
  [l \in Logs |->
     IF l \in recon.lost THEN [rows[l] EXCEPT !.status = "orphaned"] ELSE rows[l]]

CommitPass ==
  /\ recon.pc = "checking"
  /\ recon.todo = {}
  /\ payments' = Orphaned(payments)
  /\ events' = Orphaned(events)
  /\ invoices' = [i \in InvoiceIds |->
       IF i \in Reopened
         THEN LET l == CHOOSE k \in Undone : payments[k].invoice = i
              IN Flush(invoices[i], recon.rows[i], RolledBack(recon.rows[i], l))
         ELSE invoices[i]]
  /\ OpenAmountsUnique(invoices')
  /\ deliveries' = deliveries \cup Enqueued(recon.rescue, "invoice.confirmed")
                              \cup Enqueued(Reopened, "invoice.reorgged")
  /\ recon' = ReconIdle
  /\ UNCHANGED overdue

\* The pass dies with nothing written: _apply_reorg met an EXPIRED invoice
\* (KeyError), the commit broke the unique index, or the process crashed.
AbortPass ==
  /\ recon.pc # "idle"
  /\ recon' = ReconIdle
  /\ UNCHANGED tables

ReconNext ==
  \/ \E latest \in LatestBlock, S \in SUBSET InvoiceIds : Rescue(latest, S)
  \/ \E S \in SUBSET LivePayments : ListPayments(S)
  \/ \E l \in recon.todo : KeepPayment(l) \/ LosePayment(l)
  \/ BreakOff
  \/ CommitPass
  \/ AbortPass
=============================================================================
