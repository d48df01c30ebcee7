----------------------------- MODULE SerialProofs -----------------------------
(***************************************************************************)
(* What holds when sessions do not overlap: while the processor and the    *)
(* sweep run alone (ApartSpec) money neither expires nor is confirmed in   *)
(* vain and no confirmation is announced twice; while no two sessions      *)
(* overlap (SerialSpec) terminal statuses are final.  A session that       *)
(* closes before another opens has read what is still stored.              *)
(***************************************************************************)
EXTENDS NoticeProofs

\* What the inductive invariants of Spec give in every step.
Known == TypeInv /\ MoneyInv /\ DepthInv /\ NoticeInv

\* Rows that are read for a status, and the live payments behind them.
LEMMA PayingTyped ==
  ASSUME Known
  PROVE  \A i \in InvoiceIds : \A l \in Paying(i) :
           /\ l \in Logs /\ events[l].block \in Nat /\ events[l].status # "absent"
           /\ invoices[i].detected = events[l].block
BY DEF Known, TypeInv, TypeOK, StoreTypeOK, EventRow, Paying, LivePayments, MoneyInv,
       AuditTrailAgrees, DepthInv, CountedFromPayment

\* The rows of the payments a pass found lost are of invoices that hold them.
LEMMA LostInvoices ==
  ASSUME Known
  PROVE  \A l \in recon.lost :
           LET i == payments[l].invoice
           IN l \in Logs /\ i \in InvoiceIds /\ l \in Paying(i) /\ invoices[i].status \in Held
BY DEF Known, MoneyInv, PassStillGood, PayeesExist, CreditedInFull, LivePayments, Paying

\* The chain only grows higher.
LEMMA WorldApart ==
  ASSUME Known, ApartInv, World
  PROVE  ApartInv'
<1>1. /\ UNCHANGED <<invoices, events, payments, deliveries, proc, swp, disp, recon>>
      /\ ChainNext
  BY DEF World, ChainNext, MineBlock, Reorg, tables, sessions
<1>2. head \in Nat /\ head' \in Nat /\ head <= head'
  BY <1>1 DEF Known, TypeInv, TypeOK, ChainTypeOK, ChainNext, MineBlock, Reorg
<1>3. \A i \in InvoiceIds : invoices[i].detected \in Nat
  BY DEF Known, TypeInv, TypeOK, StoreTypeOK, InvoiceRow
<1>4. swp.latest \in Nat /\ swp.confirming \subseteq InvoiceIds
  BY DEF Known, TypeInv, TypeOK, SweepTypeOK
<1>5. SweepIsCurrent'
  BY <1>1, <1>2, <1>3, <1>4, ThresholdAssumption DEF ApartInv, SweepIsCurrent
<1>6. \A i : Paying(i)' = Paying(i)
  BY <1>1 DEF Paying, LivePayments
<1>7. ConfirmedIsBacked'
  BY <1>1, <1>2, <1>6, PayingTyped, ThresholdAssumption DEF ApartInv, ConfirmedIsBacked, InStatus
<1>8. ExpiredHoldsNoMoney'
  BY <1>1, <1>6 DEF ApartInv, ExpiredHoldsNoMoney, InStatus
<1>9. (WritersApart /\ MatchIsOpen /\ RescueUnanswered /\ RetriesWait)'
  BY <1>1 DEF ApartInv, WritersApart, MatchIsOpen, RescueUnanswered, RetriesWait, Notices
<1>10. (LostAsStored /\ SettlesConfirmed /\ OpenUnconfirmed)'
  BY <1>1 DEF ApartInv, LostAsStored, SettlesConfirmed, OpenUnconfirmed, InStatus
<1> QED
  BY <1>5, <1>7, <1>8, <1>9, <1>10 DEF ApartInv

\* The API adds new invoices and pending events.
LEMMA IntakeApart ==
  ASSUME Known, ApartInv, Requesting
  PROVE  ApartInv'
<1>1. UNCHANGED <<payments, deliveries, proc, swp, disp, recon, head>> /\ IntakeNext
  BY DEF Requesting, IntakeNext, Creating, Arriving, CreateInvoice, ElapseTtl, IngestEvents,
         sessions, chainVars
<1>2. /\ \A i \in InvoiceIds :
           \/ invoices'[i] = invoices[i]
           \/ /\ invoices[i].status = "absent"
              /\ invoices'[i].status = "AWAITING_PAYMENT" /\ invoices'[i].confirmed = NoBlock
      /\ \A l \in Logs : events[l].status # "absent" => events'[l] = events[l]
  <2>1. ASSUME NEW i \in InvoiceIds, NEW r \in Requests, CreateInvoice(i, r)
        PROVE  /\ invoices[i].status = "absent" /\ invoices'[i].status = "AWAITING_PAYMENT"
               /\ invoices'[i].confirmed = NoBlock
               /\ \A j \in InvoiceIds \ {i} : invoices'[j] = invoices[j]
               /\ UNCHANGED events
    BY <2>1 DEF CreateInvoice, Known, TypeInv, TypeOK, StoreTypeOK, AbsentInvoice
  <2>2. ASSUME NEW batch, IngestEvents(batch)
        PROVE  /\ UNCHANGED invoices
               /\ \A l \in Logs : events[l].status # "absent" => events'[l] = events[l]
    BY <2>2 DEF IngestEvents
  <2> QED
    BY <1>1, <2>1, <2>2 DEF IntakeNext, Creating, Arriving, ElapseTtl
<1>3. \A i : Paying(i)' = Paying(i)
  BY <1>1 DEF Paying, LivePayments
<1>4. /\ swp.expiring \subseteq InvoiceIds /\ swp.confirming \subseteq InvoiceIds
      /\ proc.invoice \in InvoiceIds \cup {NoInvoice}
      /\ \A d \in disp.posted : d.invoice \in InvoiceIds
  BY DEF Known, TypeInv, TypeOK, SweepTypeOK, ProcTypeOK, DispTypeOK, DeliveryRow
<1>5. MatchIsOpen'
  BY <1>1, <1>2, <1>4 DEF ApartInv, MatchIsOpen
<1>6. SweepIsCurrent'
  BY <1>1, <1>2, <1>4 DEF ApartInv, SweepIsCurrent
<1>7. (LostAsStored /\ SettlesConfirmed /\ OpenUnconfirmed)'
  <2>1. \A l \in recon.lost : invoices'[payments[l].invoice] = invoices[payments[l].invoice]
    BY <1>2, LostInvoices DEF Held
  <2>2. LostAsStored'
    BY <1>1, <2>1 DEF ApartInv, LostAsStored
  <2>3. SettlesConfirmed'
    BY <1>1, <1>2, <1>4 DEF ApartInv, SettlesConfirmed
  <2>4. OpenUnconfirmed'
    BY <1>2 DEF ApartInv, OpenUnconfirmed, InStatus
  <2> QED
    BY <2>2, <2>3, <2>4
<1>8. ExpiredHoldsNoMoney'
  BY <1>2, <1>3 DEF ApartInv, ExpiredHoldsNoMoney, InStatus
<1>9. ConfirmedIsBacked'
  BY <1>1, <1>2, <1>3, PayingTyped DEF ApartInv, ConfirmedIsBacked, InStatus
<1>10. (WritersApart /\ RescueUnanswered /\ RetriesWait)'
  BY <1>1 DEF ApartInv, WritersApart, RescueUnanswered, RetriesWait, Notices
<1> QED
  BY <1>5, <1>6, <1>7, <1>8, <1>9, <1>10 DEF ApartInv

\* The processor alone credits an invoice that is still open.
LEMMA ProcessorApart ==
  ASSUME Known, ApartInv, Processing, swp = SweepIdle, disp = NoAnswer, recon = ReconIdle
  PROVE  ApartInv'
<1>1. ProcNext /\ UNCHANGED <<head, swp, disp, recon, deliveries>>
  BY DEF Processing, chainVars, ProcNext, MatchEvent, MissEvent, CreditEvent, SkipEvent,
         AbortProcessor, tables
<1>2. /\ (WritersApart /\ SweepIsCurrent /\ RescueUnanswered /\ RetriesWait)'
      /\ (LostAsStored /\ SettlesConfirmed)'
  <2>1. (swp = SweepIdle)' /\ (recon = ReconIdle)'
    BY <1>1
  <2>2. (SweepIsCurrent /\ LostAsStored /\ SettlesConfirmed /\ RescueUnanswered)'
    <3>1. SweepIsCurrent'
      BY <1>1 DEF SweepIdle, SweepIsCurrent, Known, TypeInv, TypeOK, ChainTypeOK
    <3> QED
      BY <1>1, <3>1 DEF ReconIdle, LostAsStored, NoAnswer, SettlesConfirmed, RescueUnanswered
  <2>3. WritersApart' /\ RetriesWait'
    BY <1>1 DEF ApartInv, WritersApart, RetriesWait
  <2> QED
    BY <2>2, <2>3
<1>3. ASSUME UNCHANGED <<invoices, payments>>,
             \A l \in Logs : events'[l].block = events[l].block
      PROVE  (ExpiredHoldsNoMoney /\ ConfirmedIsBacked /\ OpenUnconfirmed)'
  <2>1. \A i : Paying(i)' = Paying(i)
    BY <1>3 DEF Paying, LivePayments
  <2> QED
    BY <1>1, <1>3, <2>1, PayingTyped DEF ApartInv, ExpiredHoldsNoMoney, ConfirmedIsBacked,
                                         OpenUnconfirmed, InStatus
<1>4. proc' = ProcIdle => MatchIsOpen'
  BY DEF ProcIdle, MatchIsOpen
<1>5. ASSUME NEW l \in Logs, NEW i \in InvoiceIds, MatchEvent(l, i) PROVE ApartInv'
  <2>1. MatchIsOpen' /\ UNCHANGED <<invoices, payments, events>>
    BY <1>5 DEF MatchEvent, Matching, InStatus, MatchIsOpen, tables
  <2> QED
    BY <1>2, <1>3, <2>1 DEF ApartInv
<1>6. ASSUME NEW l \in Logs, MissEvent(l) PROVE ApartInv'
  <2>1. MatchIsOpen' /\ UNCHANGED <<invoices, payments, events>>
    BY <1>6 DEF MissEvent, ProcIdle, MatchIsOpen, tables
  <2> QED
    BY <1>2, <1>3, <2>1 DEF ApartInv
<1>7. CASE CreditEvent
  <2>1. /\ proc.log \in Logs /\ proc.invoice \in InvoiceIds
        /\ payments[proc.log].status = "absent"
        /\ \A k \in Logs \ {proc.log} : events'[k] = events[k] /\ payments'[k] = payments[k]
        /\ payments'[proc.log].invoice = proc.invoice
        /\ invoices'[proc.invoice].status = "CONFIRMING"
        /\ \A j \in InvoiceIds \ {proc.invoice} : invoices'[j] = invoices[j]
        /\ proc' = ProcIdle
    BY <1>7, CreditWrites DEF Known
  <2>2. ASSUME NEW j \in InvoiceIds, j # proc.invoice PROVE Paying(j)' = Paying(j)
    BY <2>1, <2>2 DEF Paying, LivePayments
  <2>3. ASSUME NEW j, NEW l \in Paying(j) PROVE l \in Logs /\ events'[l] = events[l]
    BY <2>1 DEF Paying, LivePayments
  <2>4. ExpiredHoldsNoMoney'
    BY <2>1, <2>2 DEF ApartInv, ExpiredHoldsNoMoney, InStatus
  <2>5. ConfirmedIsBacked'
    BY <1>1, <2>1, <2>2, <2>3 DEF ApartInv, ConfirmedIsBacked, InStatus
  <2>6. OpenUnconfirmed'
    BY <2>1 DEF ApartInv, OpenUnconfirmed, InStatus
  <2> QED
    BY <1>2, <1>4, <2>1, <2>4, <2>5, <2>6 DEF ApartInv
<1>8. CASE SkipEvent
  <2>1. UNCHANGED <<invoices, payments>> /\ proc' = ProcIdle
    BY <1>8 DEF SkipEvent
  <2>2. \A l \in Logs : events'[l].block = events[l].block
    BY <1>8 DEF SkipEvent, Known, TypeInv, TypeOK, StoreTypeOK, EventRow
  <2> QED
    BY <1>2, <1>3, <1>4, <2>1, <2>2 DEF ApartInv
<1>9. CASE AbortProcessor
  <2>1. UNCHANGED <<invoices, payments, events>> /\ proc' = ProcIdle
    BY <1>9 DEF AbortProcessor, tables
  <2> QED
    BY <1>2, <1>3, <1>4, <2>1 DEF ApartInv
<1> QED
  BY <1>1, <1>5, <1>6, <1>7, <1>8, <1>9 DEF ProcNext

\* The sweep alone expires open invoices, and confirms those whose payment
\* reached the depth.
LEMMA SweepApart ==
  ASSUME Known, ApartInv, Sweeping, proc = ProcIdle, disp = NoAnswer, recon = ReconIdle
  PROVE  ApartInv'
<1>1. SweepNext /\ UNCHANGED <<head, proc, disp, recon>>
  BY DEF Sweeping, chainVars
<1>2. (WritersApart /\ MatchIsOpen /\ LostAsStored /\ SettlesConfirmed /\ RescueUnanswered)'
  <2>1. WritersApart'
    BY <1>1 DEF WritersApart
  <2> QED
    BY <1>1, <2>1 DEF ProcIdle, MatchIsOpen, ReconIdle, LostAsStored, NoAnswer, SettlesConfirmed,
                      RescueUnanswered
<1>3. head \in Nat /\ swp.latest \in Nat /\ ConfirmationThreshold \in Nat
      /\ \A i \in InvoiceIds : invoices[i].detected \in Nat
  BY ThresholdAssumption DEF Known, TypeInv, TypeOK, StoreTypeOK, ChainTypeOK, SweepTypeOK,
                             InvoiceRow
<1>4. ASSUME UNCHANGED tables, SweepIsCurrent' PROVE ApartInv'
  <2>1. UNCHANGED <<invoices, events, payments, deliveries>>
    BY <1>4 DEF tables
  <2>2. \A i : Paying(i)' = Paying(i)
    BY <2>1 DEF Paying, LivePayments
  <2>3. (RetriesWait /\ ExpiredHoldsNoMoney /\ ConfirmedIsBacked /\ OpenUnconfirmed)'
    BY <1>1, <2>1, <2>2 DEF ApartInv, RetriesWait, ExpiredHoldsNoMoney, ConfirmedIsBacked,
                            OpenUnconfirmed, InStatus
  <2> QED
    BY <1>2, <1>4, <2>3 DEF ApartInv
<1>5. swp' = SweepIdle => SweepIsCurrent'
  BY <1>1, <1>3 DEF SweepIdle, SweepIsCurrent
<1>6. ASSUME NEW latest \in LatestBlock, SelectAwaiting(latest) PROVE ApartInv'
  <2>1. /\ swp'.latest = latest /\ swp'.confirming = {}
        /\ swp'.expiring = InStatus("AWAITING_PAYMENT") \cap overdue
        /\ UNCHANGED tables /\ UNCHANGED invoices
    BY <1>6 DEF SelectAwaiting, SweepIdle, tables
  <2>2. latest <= head
    BY <1>3 DEF LatestBlock
  <2>3. SweepIsCurrent'
    BY <1>1, <2>1, <2>2 DEF SweepIsCurrent, InStatus
  <2> QED
    BY <1>4, <2>1, <2>3
<1>7. CASE SelectConfirming
  <2>1. /\ swp'.latest = 0 /\ swp'.expiring = swp.expiring /\ swp'.confirming = Deep
        /\ UNCHANGED tables /\ UNCHANGED invoices
    BY <1>7 DEF SelectConfirming, SweepIdle, tables
  <2>2. \A i \in Deep : /\ i \in InvoiceIds /\ invoices[i].status = "CONFIRMING"
                        /\ invoices[i].detected + ConfirmationThreshold <= swp.latest
    BY DEF Deep, InStatus, DepthReached
  <2>3. swp.latest <= head
    BY DEF ApartInv, SweepIsCurrent
  <2>4. \A i \in Deep : invoices[i].detected + ConfirmationThreshold <= head
    BY <1>3, <2>2, <2>3
  <2>5. SweepIsCurrent'
    BY <1>1, <1>3, <2>1, <2>2, <2>4 DEF ApartInv, SweepIsCurrent
  <2> QED
    BY <1>4, <2>1, <2>5
<1>8. CASE AbortSweep
  BY <1>4, <1>5, <1>8 DEF AbortSweep
<1>9. CASE CommitSweep
  <2>1. /\ UNCHANGED <<events, payments>> /\ swp' = SweepIdle
        /\ \A i \in InvoiceIds :
             invoices'[i].status = IF i \in swp.expiring THEN "EXPIRED"
                                   ELSE IF i \in swp.confirming THEN "CONFIRMED"
                                   ELSE invoices[i].status
    BY <1>9, SweepStatuses DEF Known, NoticeInv, CommitSweep
  <2>2. \A i : Paying(i)' = Paying(i)
    BY <2>1 DEF Paying, LivePayments
  <2>3. ExpiredHoldsNoMoney'
    <3> SUFFICES ASSUME NEW i \in InvoiceIds, invoices'[i].status = "EXPIRED"
                 PROVE  Paying(i) = {}
      BY <2>2 DEF ExpiredHoldsNoMoney, InStatus
    <3>1. CASE i \in swp.expiring
      BY <3>1 DEF ApartInv, SweepIsCurrent, Known, MoneyInv, FreshIsUnpaid
    <3>2. CASE i \notin swp.expiring
      BY <2>1, <3>2 DEF ApartInv, ExpiredHoldsNoMoney, InStatus
    <3> QED
      BY <3>1, <3>2
  <2>4. ConfirmedIsBacked'
    <3> SUFFICES ASSUME NEW i \in InvoiceIds, invoices'[i].status = "CONFIRMED"
                 PROVE  \E l \in Paying(i) : events[l].block + ConfirmationThreshold <= head
      BY <1>1, <2>1, <2>2 DEF ConfirmedIsBacked, InStatus
    <3>1. CASE i \in swp.confirming
      <4>1. /\ invoices[i].status = "CONFIRMING"
            /\ invoices[i].detected + ConfirmationThreshold <= head
        BY <3>1 DEF ApartInv, SweepIsCurrent
      <4>2. PICK l \in Paying(i) : TRUE
        BY <4>1 DEF Known, DepthInv, ConfirmingIsPaid, InStatus
      <4> QED
        BY <4>1, <4>2, PayingTyped
    <3>2. CASE i \notin swp.confirming
      BY <2>1, <3>2 DEF ApartInv, ConfirmedIsBacked, InStatus
    <3> QED
      BY <3>1, <3>2
  <2>5. RetriesWait'
    <3>1. deliveries' = deliveries \cup Enqueued(swp.expiring, "invoice.expired")
                                   \cup Enqueued(swp.confirming, "invoice.confirmed")
      BY <1>9 DEF CommitSweep
    <3> QED
      BY <3>1, EnqueuedRows DEF ApartInv, RetriesWait
  <2>6. OpenUnconfirmed'
    <3>1. \A i \in InvoiceIds \ (swp.expiring \cup swp.confirming) : invoices'[i] = invoices[i]
      BY <1>9 DEF CommitSweep
    <3> QED
      BY <2>1, <3>1 DEF ApartInv, OpenUnconfirmed, InStatus
  <2> QED
    BY <1>2, <1>5, <2>1, <2>3, <2>4, <2>5, <2>6 DEF ApartInv
<1> QED
  BY <1>1, <1>6, <1>7, <1>8, <1>9 DEF SweepNext

\* The rows the dispatcher writes: none is a first attempt that is due and was
\* not there before, and only retries wait.
LEMMA DispatchWaits ==
  ASSUME Known, RetriesWait, Sending
  PROVE  /\ RetriesWait'
         /\ \A d \in deliveries' \ deliveries :
              ~(d.type = "invoice.confirmed" /\ d.attempt = 1 /\ d.due /\ d.status = "pending")
<1> DEFINE Fine(d) == /\ ~d.due => d.attempt > 1
                      /\ \/ d \in deliveries
                         \/ ~(/\ d.type = "invoice.confirmed" /\ d.attempt = 1
                              /\ d.due /\ d.status = "pending")
<1> SUFFICES \A e \in deliveries' : Fine(e)
  BY DEF RetriesWait
<1>1. deliveries \subseteq DeliveryRow /\ disp.posted \subseteq Due /\ Due \subseteq deliveries
  BY DEF Known, TypeInv, TypeOK, StoreTypeOK, NoticeInv, DeliveryInv, PostedStillDue, Due
<1>2. \A d \in deliveries : Fine(d) /\ d.attempt \in Nat /\ d.attempt >= 1
  BY <1>1, AttemptsAssumption DEF RetriesWait, Known, NoticeInv, DeliveryInv, AttemptsInSequence,
                                  DeliveryRow
<1>3. ASSUME NEW d \in deliveries, NEW status \in {"delivered", "failed"}
      PROVE  \A e \in Finish(d, status) : Fine(e)
  <2>1. PICK r : r = [d EXCEPT !.status = status]
    OBVIOUS
  <2>2. r.due = d.due /\ r.attempt = d.attempt /\ r.status # "pending"
    BY <1>1, <2>1 DEF DeliveryRow
  <2> QED
    BY <1>2, <2>1, <2>2 DEF Finish, RetriesWait
<1>4. ASSUME NEW d \in Due, RefuseDelivery(d) PROVE \A e \in deliveries' : Fine(e)
  BY <1>1, <1>3, <1>4 DEF RefuseDelivery
<1>5. ASSUME NEW d \in disp.posted, CommitDelivered(d) PROVE \A e \in deliveries' : Fine(e)
  <2>1. \A e \in Enqueued({d.invoice}, "invoice.settled") : Fine(e)
    BY EnqueuedRows
  <2>2. deliveries' \subseteq Finish(d, "delivered") \cup Enqueued({d.invoice}, "invoice.settled")
    BY <1>5 DEF CommitDelivered
  <2> QED
    BY <1>1, <1>3, <2>1, <2>2
<1>6. ASSUME NEW d \in disp.posted, CommitFailed(d) PROVE \A e \in deliveries' : Fine(e)
  <2>1. PICK r : r = [d EXCEPT !.attempt = @ + 1, !.due = FALSE]
    OBVIOUS
  <2>2. d \in DeliveryRow /\ d.attempt \in Nat /\ d.attempt >= 1
    BY <1>1, <1>2
  <2>3. ~r.due /\ r.attempt = d.attempt + 1
    BY <2>1, <2>2 DEF DeliveryRow
  <2>4. deliveries' \subseteq Finish(d, "failed") \cup {r}
    BY <1>6, <2>1 DEF CommitFailed
  <2>5. Fine(r)
    BY <2>2, <2>3
  <2> QED
    BY <1>1, <1>3, <2>4, <2>5
<1>7. ASSUME NEW d \in deliveries, ElapseBackoff(d) PROVE \A e \in deliveries' : Fine(e)
  <2>1. PICK r : r = [d EXCEPT !.due = TRUE]
    OBVIOUS
  <2>2. r.due /\ r.attempt = d.attempt
    BY <1>1, <2>1 DEF DeliveryRow
  <2>3. d.attempt > 1 /\ d.attempt \in Nat
    BY <1>2, <1>7 DEF ElapseBackoff
  <2>4. deliveries' \subseteq deliveries \cup {r}
    BY <1>7, <2>1 DEF ElapseBackoff
  <2> QED
    BY <1>2, <2>2, <2>3, <2>4
<1>8. UNCHANGED deliveries => \A e \in deliveries' : Fine(e)
  BY <1>2
<1> QED
  BY <1>4, <1>5, <1>6, <1>7, <1>8 DEF Sending, DispNext, PostDelivery, AbortDispatch, tables

\* Beside the reconciler the dispatcher settles at most, and closes no failed row.
LEMMA DispatchApart ==
  ASSUME Known, ApartInv, Sending, proc = ProcIdle, swp = SweepIdle
  PROVE  ApartInv'
<1>1. DispNext /\ UNCHANGED <<head, proc, swp, recon>>
  BY DEF Sending, chainVars
<1>2. UNCHANGED <<events, payments>>
  BY <1>1 DEF DispNext, RefuseDelivery, PostDelivery, CommitDelivered, CommitFailed,
              AbortDispatch, ElapseBackoff, tables
<1>3. \A i \in InvoiceIds :
        /\ invoices'[i].confirmed = invoices[i].confirmed
        /\ \/ invoices'[i].status = invoices[i].status
           \/ /\ invoices'[i].status = "SETTLED"
              /\ invoices[i].status \in {"CONFIRMED", "AWAITING_PAYMENT"}
  <2>1. ASSUME NEW d \in disp.posted, CommitDelivered(d)
        PROVE  \A i \in InvoiceIds :
                 /\ invoices'[i].confirmed = invoices[i].confirmed
                 /\ \/ invoices'[i].status = invoices[i].status
                    \/ /\ invoices'[i].status = "SETTLED"
                       /\ invoices[i].status \in {"CONFIRMED", "AWAITING_PAYMENT"}
    <3>1. invoices \in [InvoiceIds -> InvoiceRow]
      BY DEF Known, TypeInv, TypeOK, StoreTypeOK
    <3>2. CASE disp.settles
      <4>1. invoices' = [invoices EXCEPT ![d.invoice].status = "SETTLED"]
        BY <2>1, <3>2 DEF CommitDelivered
      <4>2. invoices[d.invoice].status \in {"CONFIRMED", "AWAITING_PAYMENT"}
        BY <3>2 DEF ApartInv, SettlesConfirmed
      <4> QED
        BY <3>1, <4>1, <4>2 DEF InvoiceRow
    <3>3. CASE ~disp.settles
      BY <2>1, <3>3 DEF CommitDelivered
    <3> QED
      BY <3>2, <3>3
  <2>2. (~\E d \in disp.posted : CommitDelivered(d)) => UNCHANGED invoices
    BY <1>1 DEF DispNext, RefuseDelivery, PostDelivery, CommitFailed, AbortDispatch,
                ElapseBackoff, tables
  <2> QED
    BY <2>1, <2>2
<1>4. \A i : Paying(i)' = Paying(i)
  BY <1>2 DEF Paying, LivePayments
<1>5. WritersApart' /\ MatchIsOpen' /\ SweepIsCurrent'
  <2>1. WritersApart' /\ MatchIsOpen'
    BY <1>1 DEF WritersApart, ProcIdle, MatchIsOpen
  <2>2. SweepIsCurrent'
    BY <1>1 DEF SweepIdle, SweepIsCurrent, ApartInv
  <2> QED
    BY <2>1, <2>2
<1>6. (LostAsStored /\ SettlesConfirmed /\ OpenUnconfirmed)'
  <2>1. LostAsStored'
    BY <1>1, <1>2, <1>3, LostInvoices DEF ApartInv, LostAsStored, Held
  <2>2. SettlesConfirmed'
    <3>1. ASSUME NEW d \in Due, NEW ok \in BOOLEAN, PostDelivery(d, ok) PROVE SettlesConfirmed'
      BY <3>1 DEF PostDelivery, SettlesConfirmed, tables
    <3>2. disp' = NoAnswer => SettlesConfirmed'
      BY DEF NoAnswer, SettlesConfirmed
    <3>3. UNCHANGED <<invoices, disp>> => SettlesConfirmed'
      BY DEF ApartInv, SettlesConfirmed
    <3> QED
      BY <1>1, <3>1, <3>2, <3>3 DEF DispNext, RefuseDelivery, CommitDelivered, CommitFailed,
                                    AbortDispatch, ElapseBackoff
  <2>3. OpenUnconfirmed'
    BY <1>3 DEF ApartInv, OpenUnconfirmed, InStatus
  <2> QED
    BY <2>1, <2>2, <2>3
<1>7. RescueUnanswered'
  BY <1>1, DispatchRows DEF Known, NoticeInv, ApartInv, RescueUnanswered
<1>8. RetriesWait'
  BY DispatchWaits DEF ApartInv
<1>9. ExpiredHoldsNoMoney'
  BY <1>3, <1>4 DEF ApartInv, ExpiredHoldsNoMoney, InStatus
<1>10. ConfirmedIsBacked'
  BY <1>1, <1>2, <1>3, <1>4 DEF ApartInv, ConfirmedIsBacked, InStatus
<1> QED
  BY <1>5, <1>6, <1>7, <1>8, <1>9, <1>10 DEF ApartInv

\* A rollback of what is stored as it was loaded clears confirmed_block.
LEMMA ReopenedUnconfirmed ==
  ASSUME Known, LostAsStored, CommitPass, NEW i \in Reopened
  PROVE  invoices'[i].confirmed = NoBlock
<1> DEFINE l == CHOOSE k \in Undone : payments[k].invoice = i
           new == RolledBack(recon.rows[i], l)
<1>1. l \in Undone /\ payments[l].invoice = i
  BY DEF Reopened
<1>2. l \in recon.lost /\ i \in InvoiceIds
  BY <1>1, LostInvoices DEF Undone
<1>3. recon.rows[i] \in InvoiceRow
  BY <1>2 DEF Known, TypeInv, TypeOK, ReconTypeOK
<1>4. new.confirmed = NoBlock
  <2> HIDE DEF l
  <2> QED
    BY <1>3 DEF RolledBack, InvoiceRow
<1>5. invoices'[i] = Flush(invoices[i], recon.rows[i], new)
  BY <1>2 DEF CommitPass
<1>6. recon.rows[i].confirmed = invoices[i].confirmed
  BY <1>1, <1>2 DEF LostAsStored
<1> HIDE DEF new, l
<1> QED
  BY <1>4, <1>5, <1>6 DEF Flush, Column

\* Beside the dispatcher the reconciler undoes every payment it found lost that
\* a CONFIRMED invoice holds, and rescues what no merchant received.
LEMMA PassApart ==
  ASSUME Known, ApartInv, Verifying, proc = ProcIdle, swp = SweepIdle
  PROVE  ApartInv'
<1>1. ReconNext /\ UNCHANGED <<head, proc, swp, disp>>
  BY DEF Verifying, chainVars
<1>2. (WritersApart /\ MatchIsOpen /\ SweepIsCurrent)'
  <2>1. WritersApart' /\ MatchIsOpen'
    BY <1>1 DEF WritersApart, ProcIdle, MatchIsOpen
  <2> QED
    BY <1>1, <2>1 DEF SweepIdle, SweepIsCurrent, ApartInv
<1>3. ASSUME UNCHANGED tables, (LostAsStored /\ RescueUnanswered)' PROVE ApartInv'
  <2>1. UNCHANGED <<invoices, events, payments, deliveries>>
    BY <1>3 DEF tables
  <2>2. \A i : Paying(i)' = Paying(i)
    BY <2>1 DEF Paying, LivePayments
  <2>3. (RetriesWait /\ ExpiredHoldsNoMoney /\ ConfirmedIsBacked)'
    BY <1>1, <2>1, <2>2 DEF ApartInv, RetriesWait, ExpiredHoldsNoMoney, ConfirmedIsBacked, InStatus
  <2>4. (SettlesConfirmed /\ OpenUnconfirmed)'
    BY <1>1, <2>1 DEF ApartInv, SettlesConfirmed, OpenUnconfirmed, InStatus
  <2> QED
    BY <1>2, <1>3, <2>3, <2>4 DEF ApartInv
<1>4. ASSUME UNCHANGED tables, recon'.lost = recon.lost, recon'.rows = recon.rows,
             recon'.rescue = recon.rescue
      PROVE  ApartInv'
  BY <1>3, <1>4 DEF ApartInv, LostAsStored, RescueUnanswered, Notices, tables
<1>5. ASSUME NEW latest, NEW S, Rescue(latest, S) PROVE ApartInv'
  <2>1. recon'.lost = {} /\ recon'.rescue = S /\ UNCHANGED <<tables, deliveries>>
    BY <1>5 DEF Rescue, ReconIdle, tables
  <2>2. \A i \in S : \A d \in Notices(i, "invoice.confirmed") : d.status = "failed"
    BY <1>5 DEF Rescue, Rescuable, Unnotified
  <2> QED
    BY <1>3, <2>1, <2>2 DEF LostAsStored, RescueUnanswered, Notices
<1>6. ASSUME NEW S, ListPayments(S) PROVE ApartInv'
  BY <1>4, <1>6 DEF ListPayments, Known, TypeInv, TypeOK, ReconTypeOK
<1>7. ASSUME NEW l \in recon.todo, KeepPayment(l) PROVE ApartInv'
  BY <1>4, <1>7 DEF KeepPayment, Known, TypeInv, TypeOK, ReconTypeOK
<1>8. CASE BreakOff
  BY <1>4, <1>8 DEF BreakOff, Known, TypeInv, TypeOK, ReconTypeOK
<1>9. ASSUME NEW l \in recon.todo, LosePayment(l) PROVE ApartInv'
  <2> DEFINE i == payments[l].invoice
  <2>1. l \in LivePayments /\ recon.lost \subseteq LivePayments /\ i \in InvoiceIds
    BY DEF Known, MoneyInv, PassStillGood, PayeesExist, LivePayments
  <2>2. /\ recon'.lost = recon.lost \cup {l} /\ recon'.rescue = recon.rescue
        /\ recon'.rows = [recon.rows EXCEPT ![i] = invoices[i]]
        /\ recon.rows \in [InvoiceIds -> InvoiceRow]
        /\ UNCHANGED <<tables, invoices, payments, deliveries>>
    BY <1>9 DEF LosePayment, Known, TypeInv, TypeOK, ReconTypeOK, tables
  <2>3. \A k \in recon.lost : payments[k].invoice \in InvoiceIds
    BY LostInvoices
  <2>4. \A k \in recon'.lost :
          \/ recon'.rows[payments[k].invoice] = invoices[payments[k].invoice]
          \/ /\ k \in recon.lost
             /\ recon'.rows[payments[k].invoice] = recon.rows[payments[k].invoice]
    BY <2>1, <2>2, <2>3
  <2>5. LostAsStored'
    BY <2>2, <2>4 DEF ApartInv, LostAsStored
  <2>6. RescueUnanswered'
    BY <2>2 DEF ApartInv, RescueUnanswered, Notices
  <2> QED
    BY <1>3, <2>2, <2>5, <2>6
<1>10. CASE CommitPass
  <2>1. recon.lost \subseteq LivePayments /\ LivePayments' = LivePayments \ recon.lost
    BY <1>10, PassWrites DEF Known
  <2>2. \A l \in Logs : /\ payments'[l].invoice = payments[l].invoice
                        /\ l \notin recon.lost => events'[l] = events[l]
    BY <1>10, PassWrites DEF Known
  <2>3. /\ \A i \in InvoiceIds \ Reopened : invoices'[i] = invoices[i]
        /\ \A i \in Reopened : invoices'[i].status = "AWAITING_PAYMENT"
    BY <1>10, PassWrites DEF Known
  <2>4. \A i : Paying(i)' = Paying(i) \ recon.lost
    BY <2>1, <2>2 DEF Paying, LivePayments
  <2>5. ExpiredHoldsNoMoney'
    <3> SUFFICES ASSUME NEW i \in InvoiceIds, invoices'[i].status = "EXPIRED"
                 PROVE  Paying(i) = {}
      BY <2>4 DEF ExpiredHoldsNoMoney, InStatus
    <3>1. invoices[i].status = "EXPIRED"
      BY <2>3
    <3> QED
      BY <3>1 DEF ApartInv, ExpiredHoldsNoMoney, InStatus
  <2>6. ConfirmedIsBacked'
    <3> SUFFICES ASSUME NEW i \in InvoiceIds, invoices'[i].status = "CONFIRMED"
                 PROVE  \E l \in Paying(i)' : events'[l].block + ConfirmationThreshold <= head
      BY <1>1 DEF ConfirmedIsBacked, InStatus
    <3>1. i \notin Reopened /\ invoices[i].status = "CONFIRMED"
      BY <2>3
    <3>2. PICK l \in Paying(i) : events[l].block + ConfirmationThreshold <= head
      BY <3>1 DEF ApartInv, ConfirmedIsBacked, InStatus
    <3>3. l \in Logs /\ payments[l].invoice = i
      BY DEF Paying, LivePayments
    <3>4. l \notin recon.lost
      <4>1. CanRollBack("CONFIRMED")
        BY DEF CanRollBack, RollbackEdge, CanTransition, LEGAL
      <4> QED
        BY <3>1, <3>3, <4>1 DEF ApartInv, LostAsStored, Undone, Reopened
    <3> QED
      BY <2>2, <2>4, <3>2, <3>3, <3>4
  <2>7. RetriesWait'
    <3>1. deliveries' = deliveries \cup Enqueued(recon.rescue, "invoice.confirmed")
                                   \cup Enqueued(Reopened, "invoice.reorgged")
      BY <1>10 DEF CommitPass
    <3> QED
      BY <3>1, EnqueuedRows DEF ApartInv, RetriesWait
  <2>8. LostAsStored' /\ RescueUnanswered'
    BY <1>10 DEF CommitPass, ReconIdle, LostAsStored, RescueUnanswered
  <2>9. SettlesConfirmed'
    <3>1. \A d \in disp.posted : d.invoice \in InvoiceIds
      BY DEF Known, TypeInv, TypeOK, DispTypeOK, DeliveryRow
    <3> QED
      BY <1>1, <2>3, <3>1 DEF ApartInv, SettlesConfirmed
  <2>10. OpenUnconfirmed'
    <3>1. ASSUME NEW i \in Reopened PROVE invoices'[i].confirmed = NoBlock
      BY <1>10, <3>1, ReopenedUnconfirmed DEF ApartInv
    <3> QED
      BY <2>3, <3>1 DEF ApartInv, OpenUnconfirmed, InStatus
  <2> QED
    BY <1>2, <2>5, <2>6, <2>7, <2>8, <2>9, <2>10 DEF ApartInv
<1>11. CASE AbortPass
  BY <1>3, <1>11 DEF AbortPass, ReconIdle, LostAsStored, RescueUnanswered
<1> QED
  BY <1>1, <1>5, <1>6, <1>7, <1>8, <1>9, <1>10, <1>11 DEF ReconNext

-----------------------------------------------------------------------------
LEMMA ApartStart == Init => ApartInv
<1> SUFFICES ASSUME Init PROVE ApartInv
  OBVIOUS
<1>1. /\ swp = SweepIdle /\ disp = NoAnswer /\ recon = ReconIdle /\ proc = ProcIdle
      /\ deliveries = {} /\ invoices = [i \in InvoiceIds |-> AbsentInvoice]
  BY DEF Init, StoreInit, ProcInit, SweepInit, DispInit, ReconInit
<1>2. head \in Nat
  BY DEF Init, ChainInit
<1>3. WritersApart /\ MatchIsOpen /\ LostAsStored /\ SettlesConfirmed
  BY <1>1 DEF WritersApart, MatchIsOpen, ProcIdle, LostAsStored, ReconIdle, SettlesConfirmed,
              NoAnswer
<1>4. SweepIsCurrent
  BY <1>1, <1>2 DEF SweepIsCurrent, SweepIdle
<1>5. RescueUnanswered /\ RetriesWait
  BY <1>1 DEF RescueUnanswered, RetriesWait, ReconIdle
<1>6. ExpiredHoldsNoMoney /\ ConfirmedIsBacked /\ OpenUnconfirmed
  BY <1>1 DEF ExpiredHoldsNoMoney, ConfirmedIsBacked, OpenUnconfirmed, InStatus, AbsentInvoice
<1> QED
  BY <1>3, <1>4, <1>5, <1>6 DEF ApartInv

LEMMA ApartStep == Known /\ ApartInv /\ [ApartNext]_vars => ApartInv'
<1> SUFFICES ASSUME Known, ApartInv, [ApartNext]_vars PROVE ApartInv'
  OBVIOUS
<1>1. CASE World
  BY <1>1, WorldApart
<1>2. CASE Requesting
  BY <1>2, IntakeApart
<1>3. CASE Processing /\ <<swp, disp, recon>> = <<SweepIdle, NoAnswer, ReconIdle>>
  BY <1>3, ProcessorApart
<1>4. CASE Sweeping /\ <<proc, disp, recon>> = <<ProcIdle, NoAnswer, ReconIdle>>
  BY <1>4, SweepApart
<1>5. CASE Sending /\ <<proc, swp>> = <<ProcIdle, SweepIdle>>
  BY <1>5, DispatchApart
<1>6. CASE Verifying /\ <<proc, swp>> = <<ProcIdle, SweepIdle>>
  BY <1>6, PassApart
<1>7. CASE UNCHANGED vars
  <2>1. UNCHANGED <<invoices, events, payments, deliveries, head, proc, swp, disp, recon>>
    BY <1>7 DEF vars, tables, chainVars, sessions
  <2>2. /\ UNCHANGED <<InStatus("EXPIRED"), InStatus("CONFIRMED"), InStatus("AWAITING_PAYMENT")>>
        /\ \A i : Paying(i)' = Paying(i)
    BY <2>1 DEF InStatus, Paying, LivePayments
  <2>3. (ExpiredHoldsNoMoney /\ ConfirmedIsBacked /\ OpenUnconfirmed)'
    BY <2>1, <2>2 DEF ApartInv, ExpiredHoldsNoMoney, ConfirmedIsBacked, OpenUnconfirmed
  <2> QED
    BY <2>1, <2>3 DEF ApartInv, WritersApart, MatchIsOpen, SweepIsCurrent, LostAsStored,
                      SettlesConfirmed, RescueUnanswered, RetriesWait, Notices
<1> QED
  BY <1>1, <1>2, <1>3, <1>4, <1>5, <1>6, <1>7 DEF ApartNext

LEMMA ApartIsSpec == ApartSpec => Spec
<1>1. [ApartNext]_vars => [Next]_vars
  BY DEF ApartNext, Next
<1> QED
  BY <1>1, PTL DEF ApartSpec, Spec

LEMMA ApartKnown == ApartSpec => []Known
<1>1. IInv /\ DepthInv /\ NoticeInv => Known
  BY DEF IInv, Known
<1> QED
  BY <1>1, ApartIsSpec, Invariance, DepthInvariance, NoticeInvariance, PTL

\* Of the writers of deliveries, two add first attempts of a confirmation: the
\* sweep for what it confirms, the reconciler for what nobody was told of.
LEMMA AnnouncedOnce ==
  ASSUME Known, ApartInv, [ApartNext]_vars,
         NEW d \in deliveries' \ deliveries,
         d.type = "invoice.confirmed", d.attempt = 1, d.due, d.status = "pending"
  PROVE  \/ invoices[d.invoice].status # "CONFIRMED" /\ invoices'[d.invoice].status = "CONFIRMED"
         \/ \A e \in Notices(d.invoice, d.type) : e.status = "failed"
<1>1. ~UNCHANGED deliveries
  OBVIOUS
<1>2. ~(World \/ Requesting \/ Processing \/ UNCHANGED vars)
  <2>1. World \/ Requesting \/ UNCHANGED vars => UNCHANGED deliveries
    BY DEF World, ChainNext, MineBlock, Reorg, Requesting, IntakeNext, Creating, Arriving,
           CreateInvoice, ElapseTtl, IngestEvents, vars, tables
  <2>2. Processing => UNCHANGED deliveries
    BY DEF Processing, ProcNext, MatchEvent, MissEvent, CreditEvent, SkipEvent, AbortProcessor,
           tables
  <2> QED
    BY <1>1, <2>1, <2>2
<1>3. ~Sending
  BY DispatchWaits DEF ApartInv
<1>4. CASE Sweeping
  <2>1. CommitSweep
    BY <1>1, <1>4 DEF Sweeping, SweepNext, SelectAwaiting, SelectConfirming, AbortSweep, tables
  <2>2. d.invoice \in swp.confirming
    BY <2>1, EnqueuedRows DEF CommitSweep
  <2>3. d.invoice \in InvoiceIds /\ d.invoice \notin swp.expiring
    BY <2>2 DEF Known, TypeInv, TypeOK, SweepTypeOK, NoticeInv, SweepStillGood
  <2>4. invoices[d.invoice].status = "CONFIRMING" /\ invoices'[d.invoice].status = "CONFIRMED"
    BY <2>1, <2>2, <2>3, SweepStatuses DEF Known, NoticeInv, ApartInv, SweepIsCurrent
  <2> QED
    BY <2>4
<1>5. CASE Verifying
  <2>1. CommitPass
    BY <1>1, <1>5 DEF Verifying, ReconNext, Rescue, ListPayments, KeepPayment, LosePayment,
                      BreakOff, AbortPass, tables
  <2>2. d.invoice \in recon.rescue
    BY <2>1, EnqueuedRows DEF CommitPass
  <2> QED
    BY <2>2 DEF ApartInv, RescueUnanswered
<1> QED
  BY <1>2, <1>3, <1>4, <1>5 DEF ApartNext

\* What the sweep has read is still stored when it commits, and what a pass
\* found lost is undone whole.
THEOREM ApartInvariance == ApartSpec => []ApartInv
<1>1. Known /\ ApartInv /\ [ApartNext]_vars => ApartInv'
  BY ApartStep
<1> QED
  BY <1>1, ApartKnown, ApartStart, PTL DEF ApartSpec

\* Money never expires while the processor and the sweep run alone: the TTL
\* closes open invoices only, and a credit is given to open ones only.
THEOREM NoMoneyExpires == ApartSpec => []ExpiredHoldsNoMoney
<1>1. ApartInv => ExpiredHoldsNoMoney
  BY DEF ApartInv
<1> QED
  BY <1>1, ApartInvariance, PTL

\* While the processor and the sweep run alone, a CONFIRMED invoice has a
\* payment that stands at the threshold depth, for every chain, reorganisation
\* and pass.
THEOREM ConfirmedIsDeep == ApartSpec => []ConfirmedIsBacked
<1>1. ApartInv => ConfirmedIsBacked
  BY DEF ApartInv
<1> QED
  BY <1>1, ApartInvariance, PTL

\* While the processor and the sweep run alone, the rescue and the sweep never
\* announce a confirmation beside one that is delivered or on its way.
THEOREM RenotifiesWhenNeeded == ApartSpec => RenotifiedOnlyWhenNeeded
<1> DEFINE Fresh == \A d \in deliveries' \ deliveries :
      d.type = "invoice.confirmed" /\ d.attempt = 1 /\ d.due /\ d.status = "pending" =>
        \/ invoices[d.invoice].status # "CONFIRMED" /\ invoices'[d.invoice].status = "CONFIRMED"
        \/ \A e \in Notices(d.invoice, d.type) : e.status = "failed"
<1>1. Known /\ ApartInv /\ [ApartNext]_vars => [Fresh]_vars
  BY AnnouncedOnce
<1> HIDE DEF Fresh
<1>2. ApartSpec => [][Fresh]_vars
  BY <1>1, ApartKnown, ApartInvariance, PTL DEF ApartSpec
<1> QED
  BY <1>2 DEF Fresh, RenotifiedOnlyWhenNeeded

\* The only commit that moves a SETTLED or EXPIRED invoice is a rollback, over
\* a settlement the pass did not see.
LEMMA TerminalLeft ==
  ASSUME Known, ApartInv, [ApartNext]_vars,
         NEW i \in InvoiceIds, invoices[i].status \in {"SETTLED", "EXPIRED"},
         invoices'[i].status # invoices[i].status
  PROVE  /\ invoices[i].status = "SETTLED" /\ recon.rows[i].status = "CONFIRMED"
         /\ invoices'[i].status = "AWAITING_PAYMENT"
         /\ \E l \in Paying(i) : l \in recon.lost /\ payments'[l].status = "orphaned"
<1>1. CASE World \/ UNCHANGED vars
  BY <1>1 DEF World, ChainNext, MineBlock, Reorg, vars, tables
<1>2. CASE Requesting
  <2>1. ASSUME NEW j \in InvoiceIds, NEW r \in Requests, CreateInvoice(j, r)
        PROVE  invoices'[i] = invoices[i]
    BY <2>1 DEF CreateInvoice, Known, TypeInv, TypeOK, StoreTypeOK, AbsentInvoice
  <2> QED
    BY <1>2, <2>1 DEF Requesting, IntakeNext, Creating, Arriving, ElapseTtl, IngestEvents
<1>3. CASE Processing
  <2>1. CASE CreditEvent
    <3>1. proc.invoice # NoInvoice
      BY <2>1 DEF CreditEvent
    <3>2. i # proc.invoice
      BY <3>1 DEF ApartInv, MatchIsOpen
    <3> QED
      BY <2>1, <3>2, CreditWrites DEF Known
  <2> QED
    BY <1>3, <2>1 DEF Processing, ProcNext, MatchEvent, MissEvent, SkipEvent, AbortProcessor, tables
<1>4. CASE Sweeping
  <2>1. CASE CommitSweep
    <3>1. i \notin swp.expiring \cup swp.confirming
      BY DEF ApartInv, SweepIsCurrent
    <3> QED
      BY <2>1, <3>1, SweepStatuses DEF Known, NoticeInv
  <2> QED
    BY <1>4, <2>1 DEF Sweeping, SweepNext, SelectAwaiting, SelectConfirming, AbortSweep, tables
<1>5. CASE Sending
  <2>1. ASSUME NEW d \in disp.posted, CommitDelivered(d)
        PROVE  invoices'[i].status = invoices[i].status
    <3>1. disp.settles => i # d.invoice
      BY DEF ApartInv, SettlesConfirmed
    <3>2. disp.settles => invoices' = [invoices EXCEPT ![d.invoice].status = "SETTLED"]
      BY <2>1 DEF CommitDelivered
    <3>3. ~disp.settles => UNCHANGED invoices
      BY <2>1 DEF CommitDelivered
    <3>4. invoices \in [InvoiceIds -> InvoiceRow]
      BY DEF Known, TypeInv, TypeOK, StoreTypeOK
    <3> QED
      BY <3>1, <3>2, <3>3, <3>4
  <2> QED
    BY <1>5, <2>1 DEF Sending, DispNext, RefuseDelivery, PostDelivery, CommitFailed,
                      AbortDispatch, ElapseBackoff, tables
<1>6. CASE Verifying
  <2>1. CASE CommitPass
    <3>1. i \in Reopened /\ invoices'[i].status = "AWAITING_PAYMENT"
      BY <2>1, PassWrites DEF Known
    <3>2. PICK l \in Undone : payments[l].invoice = i
      BY <3>1 DEF Reopened
    <3>3. l \in recon.lost /\ l \in Logs /\ l \in Paying(i)
      BY <3>2, LostInvoices DEF Undone
    <3>4. payments'[l].status = "orphaned"
      BY <2>1, <3>3, PassWrites DEF Known
    <3>5. recon.rows[i].status \notin {"SETTLED", "EXPIRED"}
      BY <3>2 DEF Undone, CanRollBack, RollbackEdge
    <3>6. invoices[i].status = "SETTLED" /\ recon.rows[i].status = "CONFIRMED"
      BY <3>2, <3>3, <3>5 DEF ApartInv, LostAsStored
    <3> QED
      BY <3>1, <3>3, <3>4, <3>6
  <2> QED
    BY <1>6, <2>1 DEF Verifying, ReconNext, Rescue, ListPayments, KeepPayment, LosePayment,
                      BreakOff, AbortPass, tables
<1> QED
  BY <1>1, <1>2, <1>3, <1>4, <1>5, <1>6 DEF ApartNext

\* While the processor and the sweep run alone, EXPIRED is terminal, and SETTLED
\* is left only by a pass that had loaded the invoice before it settled.
THEOREM TerminalLeftByPass == ApartSpec => TerminalUnlessUndone
<1> DEFINE Undoes == \A i \in InvoiceIds :
      /\ invoices[i].status \in {"SETTLED", "EXPIRED"}
      /\ invoices'[i].status # invoices[i].status
      => /\ invoices[i].status = "SETTLED" /\ recon.rows[i].status = "CONFIRMED"
         /\ invoices'[i].status = "AWAITING_PAYMENT"
         /\ \E l \in Paying(i) : payments'[l].status = "orphaned"
<1>1. Known /\ ApartInv /\ [ApartNext]_vars => [Undoes]_vars
  BY TerminalLeft
<1> HIDE DEF Undoes
<1>2. ApartSpec => [][Undoes]_vars
  BY <1>1, ApartKnown, ApartInvariance, PTL DEF ApartSpec
<1> QED
  BY <1>2 DEF Undoes, TerminalUnlessUndone

\* While the processor and the sweep run alone, a rollback leaves nothing of the
\* payment on the invoice it reopens, confirmed_block included.
THEOREM OpenOwesEverything == ApartSpec => []OpenMeansUnpaid
<1>1. OpenIsUncredited /\ ApartInv => OpenMeansUnpaid
  BY DEF ApartInv, OpenUnconfirmed, OpenMeansUnpaid
<1> QED
  BY <1>1, ApartIsSpec, ApartInvariance, OpenUncredited, PTL

-----------------------------------------------------------------------------
\* Whoever opens a session alone finds the others closed when it commits.
LEMMA SerialStep == Known /\ SerialInv /\ [SerialNext]_vars => SerialInv'
<1> SUFFICES ASSUME Known, SerialInv, [SerialNext]_vars PROVE SerialInv'
  OBVIOUS
<1>1. ASSUME UNCHANGED <<payments, disp, recon>>,
             \A i \in InvoiceIds : invoices[i].status # "absent" =>
                                     invoices'[i].status = invoices[i].status
      PROVE  SerialInv'
  BY <1>1, LostInvoices DEF SerialInv, Held
<1>2. disp' = NoAnswer /\ recon' = ReconIdle => SerialInv'
  BY DEF SerialInv, NoAnswer, ReconIdle
<1>3. CASE World
  BY <1>1, <1>3 DEF World, ChainNext, MineBlock, Reorg, tables, sessions
<1>4. CASE Requesting
  <2>1. UNCHANGED <<payments, disp, recon>> /\ IntakeNext
    BY <1>4 DEF Requesting, IntakeNext, Creating, Arriving, CreateInvoice, ElapseTtl,
                IngestEvents, sessions
  <2>2. ASSUME NEW i \in InvoiceIds, NEW r \in Requests, CreateInvoice(i, r)
        PROVE  \A j \in InvoiceIds : invoices[j].status # "absent" =>
                                       invoices'[j].status = invoices[j].status
    BY <2>2 DEF CreateInvoice, Known, TypeInv, TypeOK, StoreTypeOK, AbsentInvoice
  <2>3. Arriving \/ (\E i \in InvoiceIds : ElapseTtl(i)) => UNCHANGED invoices
    BY DEF Arriving, IngestEvents, ElapseTtl
  <2> QED
    BY <1>1, <2>1, <2>2, <2>3 DEF IntakeNext, Creating
<1>5. CASE Processing /\ <<swp, disp, recon>> = <<SweepIdle, NoAnswer, ReconIdle>>
  BY <1>2, <1>5 DEF Processing
<1>6. CASE Sweeping /\ <<proc, disp, recon>> = <<ProcIdle, NoAnswer, ReconIdle>>
  BY <1>2, <1>6 DEF Sweeping
<1>7. CASE Sending /\ <<proc, swp, recon>> = <<ProcIdle, SweepIdle, ReconIdle>>
  <2>1. DispNext /\ recon = ReconIdle /\ recon' = ReconIdle
    BY <1>7 DEF Sending
  <2> QED
    BY <2>1 DEF SerialInv, ReconIdle
<1>8. CASE Verifying /\ <<proc, swp, disp>> = <<ProcIdle, SweepIdle, NoAnswer>>
  <2>1. ReconNext /\ disp = NoAnswer /\ disp' = NoAnswer
    BY <1>8 DEF Verifying
  <2>2. recon'.lost = {} => SerialInv'
    BY <2>1 DEF SerialInv, NoAnswer
  <2>3. ASSUME recon'.lost = recon.lost, recon'.rows = recon.rows, UNCHANGED tables
        PROVE  SerialInv'
    BY <2>1, <2>3 DEF SerialInv, NoAnswer, tables
  <2>4. ASSUME NEW l \in recon.todo, LosePayment(l) PROVE SerialInv'
    <3> DEFINE i == payments[l].invoice
    <3>1. /\ recon'.lost = recon.lost \cup {l}
          /\ recon'.rows = [recon.rows EXCEPT ![i] = invoices[i]]
          /\ recon.rows \in [InvoiceIds -> InvoiceRow]
          /\ UNCHANGED <<invoices, payments>>
      BY <2>4 DEF LosePayment, Known, TypeInv, TypeOK, ReconTypeOK, tables
    <3>2. \A k \in recon.lost \cup {l} : payments[k].invoice \in InvoiceIds
      BY DEF Known, MoneyInv, PassStillGood, PayeesExist, LivePayments
    <3>3. \A k \in recon'.lost :
            recon'.rows[payments[k].invoice].status = invoices[payments[k].invoice].status
      BY <3>1, <3>2 DEF SerialInv
    <3> QED
      BY <2>1, <3>1, <3>3 DEF SerialInv, NoAnswer
  <2>5. ASSUME NEW S, ListPayments(S) PROVE SerialInv'
    BY <2>3, <2>5 DEF ListPayments, Known, TypeInv, TypeOK, ReconTypeOK
  <2>6. ASSUME NEW l \in recon.todo, KeepPayment(l) PROVE SerialInv'
    BY <2>3, <2>6 DEF KeepPayment, Known, TypeInv, TypeOK, ReconTypeOK
  <2>7. CASE BreakOff
    BY <2>3, <2>7 DEF BreakOff, Known, TypeInv, TypeOK, ReconTypeOK
  <2>8. ASSUME NEW latest, NEW S, Rescue(latest, S) PROVE SerialInv'
    BY <2>2, <2>8 DEF Rescue, ReconIdle
  <2>9. CASE CommitPass \/ AbortPass
    BY <2>2, <2>9 DEF CommitPass, AbortPass, ReconIdle
  <2> QED
    BY <2>1, <2>4, <2>5, <2>6, <2>7, <2>8, <2>9 DEF ReconNext
<1>9. CASE UNCHANGED vars
  BY <1>1, <1>9 DEF vars, tables, sessions
<1> QED
  BY <1>3, <1>4, <1>5, <1>6, <1>7, <1>8, <1>9 DEF SerialNext

LEMMA SerialIsApart == SerialSpec => ApartSpec
<1>1. [SerialNext]_vars => [ApartNext]_vars
  BY DEF SerialNext, ApartNext
<1> QED
  BY <1>1, PTL DEF SerialSpec, ApartSpec

LEMMA SerialInvariance == SerialSpec => []SerialInv
<1>1. Init => SerialInv
  BY DEF Init, DispInit, ReconInit, SerialInv, NoAnswer, ReconIdle
<1>2. Known /\ SerialInv /\ [SerialNext]_vars => SerialInv'
  BY SerialStep
<1> QED
  BY <1>1, <1>2, SerialIsApart, ApartKnown, PTL DEF SerialSpec

\* SETTLED and EXPIRED are terminal while no two sessions overlap, whatever
\* the merchants answer and the chain undoes.
THEOREM TerminalIsFinal == SerialSpec => TerminalStatusesFinal
<1> DEFINE Stays == \A i \in InvoiceIds :
      invoices[i].status \in {"SETTLED", "EXPIRED"} => invoices'[i].status = invoices[i].status
<1>1. Known /\ ApartInv /\ SerialInv /\ [SerialNext]_vars => [Stays]_vars
  <2> SUFFICES ASSUME Known, ApartInv, SerialInv, [SerialNext]_vars, NEW i \in InvoiceIds,
                      invoices[i].status \in {"SETTLED", "EXPIRED"},
                      invoices'[i].status # invoices[i].status
               PROVE  FALSE
    OBVIOUS
  <2>1. [ApartNext]_vars
    BY DEF SerialNext, ApartNext
  <2>2. /\ invoices[i].status = "SETTLED" /\ recon.rows[i].status = "CONFIRMED"
        /\ \E l \in Paying(i) : l \in recon.lost
    BY <2>1, TerminalLeft
  <2> QED
    BY <2>2 DEF SerialInv, Paying
<1> HIDE DEF Stays
<1>2. SerialSpec => [][Stays]_vars
  BY <1>1, SerialIsApart, ApartKnown, ApartInvariance, SerialInvariance, PTL DEF SerialSpec
<1> QED
  BY <1>2 DEF Stays, TerminalStatusesFinal
=============================================================================
