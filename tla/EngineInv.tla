------------------------------ MODULE EngineInv ------------------------------
(***************************************************************************)
(* The inductive invariants behind the engine's properties: about money,   *)
(* about the block a payment is counted from, and about what merchants are *)
(* told.  The properties of the tables alone are not inductive: what the   *)
(* loops hold in their sessions must still be true when they commit.       *)
(***************************************************************************)
EXTENDS Engine

\* Rounds are counted, so the type of a delivery row needs a finite table.
TypeInv == TypeOK /\ IsFiniteSet(deliveries)

\* From the match to the commit the event stays pending, and the invoice,
\* which other sessions may expire meanwhile, stays without any credit.
MatchStillGood ==
  proc.log # NoLog =>
    /\ events[proc.log].status = "pending"
    /\ proc.invoice # NoInvoice =>
         /\ proc.row.status = "AWAITING_PAYMENT"
         /\ proc.row.paid = 0
         /\ Paying(proc.invoice) = {}
         /\ invoices[proc.invoice].status # "absent"
         /\ invoices[proc.invoice].paid = 0
         /\ invoices[proc.invoice].amount = Value[proc.log]

\* The payments a pass listed or found lost stay live until its commit, and
\* the invoices it loaded for the lost ones hold those payments.
PassStillGood ==
  /\ recon.todo \subseteq LivePayments
  /\ recon.lost \subseteq LivePayments
  /\ \A l \in recon.lost : recon.rows[payments[l].invoice].paid = Value[l]

\* No payment without an event that was processed.
EventsDecide ==
  \A l \in Logs :
    events[l].status \in {"absent", "pending", "skipped"} <=>
      payments[l].status = "absent"

\* Every payment names an invoice, and the other keys of Logs name none.
PayeesExist ==
  \A l \in Logs :
    IF payments[l].status = "absent" THEN payments[l].invoice = NoInvoice
                                     ELSE payments[l].invoice \in InvoiceIds

\* Nothing is credited to an invoice that is open or not yet created.
FreshIsUnpaid ==
  \A i \in InvoiceIds :
    invoices[i].status \in {"absent", "AWAITING_PAYMENT"} =>
      Paying(i) = {} /\ invoices[i].paid = 0

MoneyInv ==
  /\ AtMostOneLivePayment
  /\ CreditedInFull
  /\ AuditTrailAgrees
  /\ EventsDecide
  /\ PayeesExist
  /\ FreshIsUnpaid
  /\ MatchStillGood
  /\ PassStillGood

\* What the proofs carry through every step, checked as one invariant: the
\* credit of every invoice agrees in all the tables and with what the open
\* sessions of the processor and the reconciler are about to write.
IInv == TypeInv /\ MoneyInv
-----------------------------------------------------------------------------
(***************************************************************************)
(* The block that depth is counted from.                                   *)
(***************************************************************************)

\* Transfers are mined and recorded in blocks from 1 up, none is NoBlock.
BlocksNumbered ==
  \A l \in Logs :
    /\ onChain[l] # Unmined => onChain[l].block > 0
    /\ events[l].status # "absent" => events[l].block > 0

\* An open invoice has no detected block, nor had it when it was matched.
OpenUndetected ==
  /\ \A i \in InStatus("AWAITING_PAYMENT") : invoices[i].detected = NoBlock
  /\ proc.invoice # NoInvoice => proc.row.detected = NoBlock

\* A live payment is counted from its own block, in any status ...
CountedFromPayment ==
  \A l \in LivePayments : invoices[payments[l].invoice].detected = events[l].block

\* ... and an invoice that waits for depth has one.
ConfirmingIsPaid == \A i \in InStatus("CONFIRMING") : Paying(i) # {}

\* The invoice of a lost payment was loaded with the payment's block.  If it
\* is not to be rolled back it was SETTLED, and it waits for no depth again
\* while the payment is live.
LostAsLoaded ==
  \A l \in recon.lost :
    LET i == payments[l].invoice
    IN /\ recon.rows[i].detected = events[l].block
       /\ CanRollBack(recon.rows[i].status) \/ invoices[i].status # "CONFIRMING"

\* Depth is measured from where the credited transfer was mined, through
\* every credit, rollback and stale write.
DepthInv ==
  /\ BlocksNumbered
  /\ OpenUndetected
  /\ CountedFromPayment
  /\ ConfirmingIsPaid
  /\ LostAsLoaded

-----------------------------------------------------------------------------
(***************************************************************************)
(* Notifications.                                                          *)
(***************************************************************************)
Told(i)    == Notices(i, "invoice.confirmed") # {}
Reorged(i) == Notices(i, "invoice.reorgged") # {}

\* enqueue() numbers the rounds by counting first attempts, which no step
\* removes.
RoundsCounted ==
  \A d \in deliveries :
    d.round \in 1..Cardinality({e \in Notices(d.invoice, d.type) : e.attempt = 1})

\* From the POST to the commit the row stays due, and only an acknowledged
\* confirmation is about to settle an invoice.
PostedStillDue ==
  /\ disp.posted \subseteq Due
  /\ disp.settles => disp.ok /\ \A d \in disp.posted : d.type = "invoice.confirmed"

\* A CONFIRMED invoice, and one the reconciler rescues, was announced.
ConfirmedIsTold == \A i \in InStatus("CONFIRMED") \cup recon.rescue : Told(i)

\* Before its first rollback no invoice is announced that is neither CONFIRMED
\* nor SETTLED, or that an open session expires, confirms or credits.
UntoldUntilConfirmed ==
  \A i \in InvoiceIds :
    /\ ~Reorged(i)
    /\ \/ invoices[i].status \notin {"CONFIRMED", "SETTLED"}
       \/ i \in swp.expiring \cup swp.confirming \cup {proc.invoice}
    => ~Told(i)

\* An acknowledgement that does not settle comes after the settlement, or
\* after a rollback.
LateAnswerSettled ==
  \A d \in disp.posted :
    disp.ok /\ ~disp.settles /\ d.type = "invoice.confirmed" /\ ~Reorged(d.invoice)
      => invoices[d.invoice].status # "CONFIRMED"

\* The sweep does not expire and confirm one invoice, and the ones it is about
\* to confirm still wait for depth, unless their payment was rolled back since.
SweepStillGood ==
  /\ swp.pc = "expiry" => swp.expiring \subseteq swp.awaiting
  /\ swp.expiring \cap swp.confirming = {}
  /\ \A i \in swp.confirming :
       /\ swp.rows[i].status = "CONFIRMING"
       /\ Reorged(i) \/ invoices[i].status = "CONFIRMING"

DeliveryInv ==
  /\ AttemptsInSequence
  /\ RoundsCounted
  /\ PostedStillDue

\* What the statuses say of the notifications, and the notifications of each
\* other, whichever sessions are open.
NoticeInv ==
  /\ DeliveryInv
  /\ ConfirmedIsTold
  /\ SettledWasAcknowledged
  /\ UntoldUntilConfirmed
  /\ LateAnswerSettled
  /\ SweepStillGood
  /\ DeliveredMeansSettled
-----------------------------------------------------------------------------
(***************************************************************************)
(* Fewer overlaps.  Beside a closed session the tables stand still, except *)
(* for what the chain and the API add and the dispatcher settles.          *)
(***************************************************************************)

\* The processor and the sweep overlap with no other loop.
WritersApart ==
  /\ proc # ProcIdle => swp = SweepIdle /\ disp = NoAnswer /\ recon = ReconIdle
  /\ swp # SweepIdle => proc = ProcIdle /\ disp = NoAnswer /\ recon = ReconIdle

MatchIsOpen ==
  proc.invoice # NoInvoice => invoices[proc.invoice].status = "AWAITING_PAYMENT"

\* What the sweep is about to expire is open, and what it is about to confirm
\* is deep enough.
SweepIsCurrent ==
  /\ swp.latest <= head
  /\ \A i \in swp.expiring : invoices[i].status = "AWAITING_PAYMENT"
  /\ \A i \in swp.confirming :
       /\ invoices[i].status = "CONFIRMING"
       /\ invoices[i].detected + ConfirmationThreshold <= head

\* The invoice of a lost payment is stored as the pass loaded it, unless it was
\* settled since.
LostAsStored ==
  \A l \in recon.lost :
    LET i == payments[l].invoice
    IN /\ recon.rows[i].confirmed = invoices[i].confirmed
       /\ \/ recon.rows[i].status = invoices[i].status
          \/ recon.rows[i].status = "CONFIRMED" /\ invoices[i].status = "SETTLED"

\* What the dispatcher is about to settle is CONFIRMED, or was rolled back since.
SettlesConfirmed ==
  disp.settles =>
    \A d \in disp.posted : invoices[d.invoice].status \in {"CONFIRMED", "AWAITING_PAYMENT"}

\* A rollback clears the block of an earlier confirmation.
OpenUnconfirmed == \A i \in InStatus("AWAITING_PAYMENT") : invoices[i].confirmed = NoBlock

\* What a pass is about to rescue has failed confirmations only.
RescueUnanswered ==
  \A i \in recon.rescue : \A d \in Notices(i, "invoice.confirmed") : d.status = "failed"

\* Only retries wait for a backoff.
RetriesWait == \A d \in deliveries : ~d.due => d.attempt > 1

\* While the processor and the sweep run alone, money neither expires nor is
\* confirmed without a payment that stands, and what the other two loops are
\* about to write still follows from what is stored.
ApartInv ==
  /\ WritersApart
  /\ MatchIsOpen
  /\ SweepIsCurrent
  /\ LostAsStored
  /\ SettlesConfirmed
  /\ OpenUnconfirmed
  /\ RescueUnanswered
  /\ RetriesWait
  /\ ExpiredHoldsNoMoney
  /\ ConfirmedIsBacked

\* No settlement comes between a pass and the rows it loaded, where no two
\* sessions overlap: for the proof that terminal statuses are final there.
SerialInv ==
  /\ disp # NoAnswer => recon = ReconIdle
  /\ \A l \in recon.lost :
       recon.rows[payments[l].invoice].status = invoices[payments[l].invoice].status
=============================================================================
