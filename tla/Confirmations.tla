---------------------------- MODULE Confirmations ----------------------------
(***************************************************************************)
(* app/confirmations.py: sweep() expires unpaid invoices past their TTL    *)
(* and confirms the ones whose payment is deep enough.  It reads the       *)
(* height and the open invoices, then the confirming ones, and writes      *)
(* everything by one commit.                                               *)
(***************************************************************************)
EXTENDS Chain

CONSTANT ConfirmationThreshold
ASSUME ThresholdAssumption == ConfirmationThreshold \in Nat \ {0}

VARIABLE swp    \* the session: height, open invoices, rows to confirm

SweepIdle ==
  [pc |-> "idle", latest |-> 0, awaiting |-> {}, expiring |-> {},
   confirming |-> {}, rows |-> [i \in InvoiceIds |-> AbsentInvoice]]

SweepTypeOK ==
  swp \in [pc : {"idle", "expiry", "depth"}, latest : Nat,
           awaiting : SUBSET InvoiceIds, expiring : SUBSET InvoiceIds,
           confirming : SUBSET InvoiceIds, rows : [InvoiceIds -> InvoiceRow]]

SweepInit == swp = SweepIdle

\* Mutant: the TTL also expires invoices that wait for depth.
SelectAwaitingAll(latest) ==
  /\ swp.pc = "idle"
  /\ swp' = [SweepIdle EXCEPT !.pc = "expiry", !.latest = latest,
               !.awaiting = InStatus("AWAITING_PAYMENT"),
               !.expiring = (InStatus("AWAITING_PAYMENT") \cup InStatus("CONFIRMING"))
                              \cap overdue]
  /\ UNCHANGED tables

\* The height, then the first SELECT and the loop that expires.
SelectAwaiting(latest) ==
  /\ swp.pc = "idle"
  /\ swp' = [SweepIdle EXCEPT !.pc = "expiry", !.latest = latest,
               !.awaiting = InStatus("AWAITING_PAYMENT"),
               !.expiring = InStatus("AWAITING_PAYMENT") \cap overdue]
  /\ UNCHANGED tables

\* Mutant: the block of the payment counts as its first confirmation.
DepthReachedEarly(row, latest) == row.detected + ConfirmationThreshold <= latest + 1

DepthReached(row, latest) == row.detected + ConfirmationThreshold <= latest

\* Invoices that were open at the first SELECT and are CONFIRMING at the
\* second: the identity map still holds them as first loaded, with no
\* detected_block, so adding the threshold to it raises a TypeError.
StaleConfirming == (swp.awaiting \ swp.expiring) \cap InStatus("CONFIRMING")

\* Mutant: one block too deep.
DeepStrictly ==
  IF swp.latest = 0 THEN {}
  ELSE {i \in InStatus("CONFIRMING") \ swp.awaiting :
          DepthReached(invoices[i], swp.latest - 1)}

\* The rows to confirm: none while the height is unknown.
Deep ==
  IF swp.latest = 0 THEN {}
  ELSE {i \in InStatus("CONFIRMING") \ swp.awaiting :
          DepthReached(invoices[i], swp.latest)}

\* The second SELECT and the loop that confirms.
SelectConfirming ==
  /\ swp.pc = "expiry"
  /\ swp.latest # 0 /\ swp.latest >= ConfirmationThreshold => StaleConfirming = {}
  /\ swp' = [SweepIdle EXCEPT !.pc = "depth",
               !.expiring = swp.expiring, !.confirming = Deep,
               !.rows = [i \in InvoiceIds |->
                           IF i \in Deep THEN invoices[i] ELSE AbsentInvoice]]
  /\ UNCHANGED tables

\* Mutant: the threshold is subtracted.
ConfirmedBefore(row) ==
  [row EXCEPT !.confirmed = row.detected - ConfirmationThreshold - 1,
              !.status = "CONFIRMED"]

Confirmed(row) ==
  [row EXCEPT !.confirmed = row.detected + ConfirmationThreshold - 1,
              !.status = "CONFIRMED"]

\* The commit: both loops' updates and their notifications.
CommitSweep ==
  /\ swp.pc = "depth"
  /\ CanTransition("AWAITING_PAYMENT", "EXPIRED")
  /\ \A i \in swp.confirming : CanTransition(swp.rows[i].status, "CONFIRMED")
  /\ invoices' = [i \in InvoiceIds |->
       IF i \in swp.expiring THEN [invoices[i] EXCEPT !.status = "EXPIRED"]
       ELSE IF i \in swp.confirming
              THEN Flush(invoices[i], swp.rows[i], Confirmed(swp.rows[i]))
       ELSE invoices[i]]
  /\ deliveries' = deliveries \cup Enqueued(swp.expiring, "invoice.expired")
                              \cup Enqueued(swp.confirming, "invoice.confirmed")
  /\ swp' = SweepIdle
  /\ UNCHANGED <<overdue, events, payments>>

\* An exception (StaleConfirming's included) or a crash before the commit.
AbortSweep ==
  /\ swp.pc # "idle"
  /\ swp' = SweepIdle
  /\ UNCHANGED tables

SweepNext ==
  \/ \E latest \in LatestBlock : SelectAwaiting(latest)
  \/ SelectConfirming
  \/ CommitSweep
  \/ AbortSweep
=============================================================================
