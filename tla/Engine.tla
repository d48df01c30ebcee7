-------------------------------- MODULE Engine --------------------------------
(***************************************************************************)
(* The payment engine as app/main.py runs it: the four background loops,   *)
(* each a thread with its own database session, beside the API's request   *)
(* handlers, over the shared tables and the chain.  Any session's step may *)
(* come between the reads and the commit of another.                       *)
(***************************************************************************)
EXTENDS Processor, Confirmations, Webhooks, Reconciliation, Intake

sessions == <<proc, swp, disp, recon>>
vars     == <<tables, chainVars, sessions>>

TypeOK ==
  /\ StoreTypeOK
  /\ ChainTypeOK
  /\ ProcTypeOK
  /\ SweepTypeOK
  /\ DispTypeOK
  /\ ReconTypeOK

Init ==
  /\ StoreInit
  /\ ChainInit
  /\ ProcInit
  /\ SweepInit
  /\ DispInit
  /\ ReconInit

World      == ChainNext  /\ UNCHANGED sessions
Requesting == IntakeNext /\ UNCHANGED <<chainVars, sessions>>
Processing == ProcNext   /\ UNCHANGED <<chainVars, swp, disp, recon>>
Sweeping   == SweepNext  /\ UNCHANGED <<chainVars, proc, disp, recon>>
Sending    == DispNext   /\ UNCHANGED <<chainVars, proc, swp, recon>>
Verifying  == ReconNext  /\ UNCHANGED <<chainVars, proc, swp, disp>>

Next == World \/ Requesting \/ Processing \/ Sweeping \/ Sending \/ Verifying

Spec == Init /\ [][Next]_vars
-----------------------------------------------------------------------------
(***************************************************************************)
(* Properties.                                                             *)
(***************************************************************************)
Paying(i) == {l \in LivePayments : payments[l].invoice = i}

\* A credited invoice is out of AWAITING_PAYMENT.
Held == {"CONFIRMING", "CONFIRMED", "SETTLED", "EXPIRED"}

\* No invoice holds two credits at once, whatever the loops interleave: the
\* match is made before the commit, on an invoice another session may move.
AtMostOneLivePayment ==
  \A k, l \in LivePayments : payments[k].invoice = payments[l].invoice => k = l

\* A live payment is for the invoice's exact amount and is counted exactly
\* once in its paid column, across credits, rollbacks and stale writes.
CreditedInFull ==
  \A l \in LivePayments :
    LET row == invoices[payments[l].invoice]
    IN row.status \in Held /\ row.amount = Value[l] /\ row.paid = Value[l]

\* An open invoice owes its whole amount, and the next credit is the first it
\* counts depth from: no live payment, no paid amount and no detected_block
\* is left on a row that can be matched again.  (confirmed_block may be: see
\* OpenMeansUnpaid.)
OpenIsUncredited ==
  \A i \in InStatus("AWAITING_PAYMENT") :
    Paying(i) = {} /\ invoices[i].paid = 0 /\ invoices[i].detected = NoBlock

\* The raw events and the payments tell the same story after every commit:
\* processed means a live payment, orphaned an orphaned one.
AuditTrailAgrees ==
  \A l \in Logs :
    /\ events[l].status = "processed" <=> payments[l].status = "live"
    /\ events[l].status = "orphaned"  <=> payments[l].status = "orphaned"

\* A CONFIRMING invoice counts depth from the block of its live payment, so
\* the sweep never measures a transfer that was undone.
ConfirmingIsBacked ==
  \A i \in InStatus("CONFIRMING") :
    \E l \in Paying(i) : invoices[i].detected = events[l].block /\ events[l].block > 0

\* A SETTLED invoice's merchant answered an invoice.confirmed with a 2xx.
SettledWasAcknowledged ==
  \A i \in InStatus("SETTLED") :
    \E d \in Notices(i, "invoice.confirmed") : d.status = "delivered"

\* An invoice becomes payable again only in the commit that orphans the
\* payment it held.
ReopensWithOrphan ==
  [][\A i \in InvoiceIds :
       /\ invoices[i].status \notin {"absent", "AWAITING_PAYMENT"}
       /\ invoices'[i].status = "AWAITING_PAYMENT"
       => \E l \in Paying(i) : payments'[l].status = "orphaned"]_vars

\* Every step of the engine is a step of the credit ledger, or none.
Ledger == INSTANCE CreditLedger WITH
  Nobody  <- NoInvoice,
  stage   <- [l \in Logs |-> events[l].status],
  payee   <- [l \in Logs |-> payments[l].invoice],
  balance <- [i \in InvoiceIds |-> invoices[i].paid]

ImplementsLedger == Ledger!LedgerSpec

-----------------------------------------------------------------------------
(***************************************************************************)
(* What the documentation says of a single invoice.  These fail when       *)
(* sessions overlap, and hold when fewer or none do.                       *)
(***************************************************************************)

\* A session is opened only while every other one is closed.
SerialNext ==
  \/ World
  \/ Requesting
  \/ Processing /\ <<swp, disp, recon>>  = <<SweepIdle, NoAnswer, ReconIdle>>
  \/ Sweeping   /\ <<proc, disp, recon>> = <<ProcIdle, NoAnswer, ReconIdle>>
  \/ Sending    /\ <<proc, swp, recon>>  = <<ProcIdle, SweepIdle, ReconIdle>>
  \/ Verifying  /\ <<proc, swp, disp>>   = <<ProcIdle, SweepIdle, NoAnswer>>
SerialSpec == Init /\ [][SerialNext]_vars

\* Only the dispatcher and the reconciler overlap.
ApartNext ==
  \/ World
  \/ Requesting
  \/ Processing /\ <<swp, disp, recon>>  = <<SweepIdle, NoAnswer, ReconIdle>>
  \/ Sweeping   /\ <<proc, disp, recon>> = <<ProcIdle, NoAnswer, ReconIdle>>
  \/ Sending    /\ <<proc, swp>> = <<ProcIdle, SweepIdle>>
  \/ Verifying  /\ <<proc, swp>> = <<ProcIdle, SweepIdle>>
ApartSpec == Init /\ [][ApartNext]_vars

\* Money never expires: an EXPIRED invoice holds no live payment.
ExpiredHoldsNoMoney ==
  \A i \in InStatus("EXPIRED") : Paying(i) = {}

\* CONFIRMED means a payment that stands, at threshold depth or deeper.
ConfirmedIsBacked ==
  \A i \in InStatus("CONFIRMED") :
    \E l \in Paying(i) : events[l].block + ConfirmationThreshold <= head

\* An open invoice keeps nothing of an earlier credit, confirmed_block
\* included: what a rollback leaves.  A pass that loaded the invoice before the
\* sweep confirmed it writes None over the None it loaded, which is no UPDATE.
OpenMeansUnpaid ==
  /\ OpenIsUncredited
  /\ \A i \in InStatus("AWAITING_PAYMENT") : invoices[i].confirmed = NoBlock

\* While the dispatcher and the reconciler overlap, EXPIRED is terminal, and
\* SETTLED is left only for AWAITING_PAYMENT, by a pass that undoes the payment
\* and had loaded the invoice before the settlement was committed.
TerminalUnlessUndone ==
  [][\A i \in InvoiceIds :
       /\ invoices[i].status \in {"SETTLED", "EXPIRED"}
       /\ invoices'[i].status # invoices[i].status
       => /\ invoices[i].status = "SETTLED" /\ recon.rows[i].status = "CONFIRMED"
          /\ invoices'[i].status = "AWAITING_PAYMENT"
          /\ \E l \in Paying(i) : payments'[l].status = "orphaned"]_vars

\* SETTLED and EXPIRED are terminal.
TerminalStatusesFinal ==
  [][\A i \in InvoiceIds :
       invoices[i].status \in {"SETTLED", "EXPIRED"} =>
         invoices'[i].status = invoices[i].status]_vars

\* A cross-check that lost its RPC endpoint orphans nothing.
RpcFailureVoidsPass ==
  [][recon.voided => \A l \in LivePayments : payments'[l].status = "live"]_vars

\* A merchant is told invoice.confirmed only while the invoice is confirmed.
ConfirmedNoticeIsCurrent ==
  [][\A d \in disp'.posted \ disp.posted :
       d.type = "invoice.confirmed" =>
         invoices[d.invoice].status \in {"CONFIRMED", "SETTLED"}]_vars

\* The rows of one notification: attempts numbered without gaps up to the
\* maximum, one row each, every one but the last failed.  A crash after the
\* POST, a rescue or a rollback never forks or reuses a chain of attempts.
AttemptsInSequence ==
  \A d \in deliveries :
    /\ d.attempt \in 1..MaxAttempts
    /\ \A e \in Notices(d.invoice, d.type) :
         e.round = d.round /\ e.attempt = d.attempt => e = d
    /\ d.attempt > 1 =>
         \E e \in Notices(d.invoice, d.type) :
           e.round = d.round /\ e.attempt = d.attempt - 1 /\ e.status = "failed"

\* An invoice whose confirmation was acknowledged settles with it.  Only one
\* whose payment was rolled back since can be CONFIRMED beside a delivered
\* row, which then hides from the rescue that the new confirmation failed.
DeliveredMeansSettled ==
  \A i \in InStatus("CONFIRMED") :
    (\E d \in Notices(i, "invoice.confirmed") : d.status = "delivered")
      => Notices(i, "invoice.reorgged") # {}

\* A merchant is told invoice.confirmed again only if the invoice was
\* confirmed anew or everything said so far failed: a rescue, which reads the
\* rows long before its commit, adds no second chain beside a living one.
RenotifiedOnlyWhenNeeded ==
  [][\A d \in deliveries' \ deliveries :
       d.type = "invoice.confirmed" /\ d.attempt = 1 /\ d.due /\ d.status = "pending" =>
         \/ invoices[d.invoice].status # "CONFIRMED" /\ invoices'[d.invoice].status = "CONFIRMED"
         \/ \A e \in Notices(d.invoice, d.type) : e.status = "failed"]_vars

-----------------------------------------------------------------------------
(***************************************************************************)
(* Progress.  main.py's _repeat runs every loop again after any exception, *)
(* so each loop reaches its next step again and again.  Strong fairness    *)
(* says that the RPC failures and lock timeouts behind the aborts do not   *)
(* meet every session that has work to do: a height is read again and      *)
(* again, and of the sessions that hold the same work some commit.  Every  *)
(* open session ends, in a commit or an abort.                             *)
(***************************************************************************)
ProcessorFairness ==
  \A l \in Logs :
    /\ SF_vars(Processing /\ proc.log = NoLog /\ proc'.log = l)
    /\ SF_vars(Processing /\ proc.log = l /\ (CreditEvent \/ SkipEvent))

SweepFairness ==
  /\ SF_vars(Sweeping /\ SelectAwaiting(head))
  /\ SF_vars(Sweeping /\ swp.latest = head /\ SelectConfirming)
  /\ \A i \in InvoiceIds : SF_vars(Sweeping /\ i \in swp.confirming /\ CommitSweep)

ReconFairness ==
  /\ SF_vars(Verifying /\ \E S \in SUBSET InvoiceIds : S # {} /\ Rescue(head, S))
  /\ SF_vars(Verifying /\ recon.rescue # {} /\ \E S \in SUBSET LivePayments : ListPayments(S))
  /\ \A l \in Logs : SF_vars(Verifying /\ recon.rescue # {} /\ (KeepPayment(l) \/ LosePayment(l)))
  /\ SF_vars(Verifying /\ recon.rescue # {} /\ CommitPass)

SessionsEnd ==
  /\ WF_vars(Processing /\ proc.log # NoLog)
  /\ WF_vars(Sweeping /\ swp.pc # "idle")
  /\ WF_vars(Verifying /\ recon.pc # "idle")

Fairness == ProcessorFairness /\ SweepFairness /\ ReconFairness /\ SessionsEnd

\* Every recorded transfer is eventually applied or skipped.
EveryEventDecided ==
  \A l \in Logs : events[l].status = "pending" ~> events[l].status # "pending"

\* A CONFIRMING invoice whose depth the chain has reached does not stay so.
DeepPaymentsConfirm ==
  \A i \in InvoiceIds :
    invoices[i].status = "CONFIRMING" /\ DepthReached(invoices[i], head)
      ~> invoices[i].status # "CONFIRMING"

\* A CONFIRMED invoice whose confirmations all failed is given another, or
\* leaves CONFIRMED.  A delivered one of before a rollback hides it from the
\* rescue, and nothing is promised (DeliveredMeansSettled).
UnnotifiedIsRescued ==
  \A i \in InvoiceIds :
    /\ invoices[i].status = "CONFIRMED"
    /\ \A d \in Notices(i, "invoice.confirmed") :
         d.status = "failed" /\ d.round < MaxRounds
    ~> \/ invoices[i].status # "CONFIRMED"
       \/ \E d \in Notices(i, "invoice.confirmed") : d.status = "pending"
-----------------------------------------------------------------------------
(***************************************************************************)
(* Repair after a reorganisation.  The reconciler alone has to run; what   *)
(* it needs is that of its passes that know the height some are not cut    *)
(* short by an RPC failure, a lock timeout or a crash at the same point.   *)
(***************************************************************************)
RepairFairness ==
  /\ SF_vars(Verifying /\ \E S \in SUBSET InvoiceIds : Rescue(head, S))
  /\ SF_vars(Verifying /\ recon.latest = head /\ \E S \in SUBSET LivePayments : ListPayments(S))
  /\ \A l \in Logs :
       /\ SF_vars(Verifying /\ recon.latest = head /\ (KeepPayment(l) \/ LosePayment(l)))
       /\ SF_vars(Verifying /\ l \in recon.lost /\ CommitPass)
  /\ WF_vars(Verifying /\ recon.pc # "idle")

\* The live payments the chain no longer has, young enough to act on.
Gone == {l \in LivePayments : ~ReceiptOk(l) /\ events[l].block + ReorgSafetyDepth > head}

\* A pass undoes the payments of Gone together or not at all: one EXPIRED
\* invoice (no rollback edge), or one whose amount another open invoice has
\* taken, fails it, and the next pass meets the same rows.
Undoable ==
  /\ \A l \in Gone : invoices[payments[l].invoice].status # "EXPIRED"
  /\ OpenAmountsUnique([i \in InvoiceIds |->
       IF Paying(i) \cap Gone # {} /\ CanRollBack(invoices[i].status)
         THEN [invoices[i] EXCEPT !.status = "AWAITING_PAYMENT"]
         ELSE invoices[i]])

\* Only the newest payments are re-verified.
AmongNewest(l) ==
  Cardinality({k \in LivePayments : payments[k].rank >= payments[l].rank}) <= CrosscheckBatch

\* A payment that left the chain does not stay credited while it is among
\* the payments that are re-verified and nothing fails the pass.
LostPaymentsUndone ==
  \A l \in Logs :
    l \in Gone /\ AmongNewest(l) /\ Undoable
      ~> ~(l \in Gone /\ AmongNewest(l) /\ Undoable)
=============================================================================
