----------------------------- MODULE EngineProofs -----------------------------
(***************************************************************************)
(* The engine keeps its books: IInv is inductive, for any number of        *)
(* invoices and transfers and any interleaving of the loops.               *)
(***************************************************************************)
EXTENDS EngineTypes

\* Steps that leave the money tables and both sessions that write them alone.
LEMMA MoneyKept ==
  ASSUME MoneyInv, UNCHANGED <<invoices, events, payments, proc, recon>>
  PROVE  MoneyInv'
BY DEF MoneyInv, AtMostOneLivePayment, CreditedInFull, AuditTrailAgrees, EventsDecide,
       PayeesExist, FreshIsUnpaid, MatchStillGood, PassStillGood, LivePayments, Paying

\* A step that leaves payments and events alone keeps what is said of them.
LEMMA RowsKept ==
  ASSUME MoneyInv, UNCHANGED <<events, payments>>
  PROVE  /\ LivePayments' = LivePayments
         /\ \A i : Paying(i)' = Paying(i)
         /\ (AtMostOneLivePayment /\ AuditTrailAgrees /\ EventsDecide /\ PayeesExist)'
BY DEF MoneyInv, LivePayments, Paying, AtMostOneLivePayment, AuditTrailAgrees,
       EventsDecide, PayeesExist

\* The sweep and the dispatcher write statuses past AWAITING_PAYMENT only.
\* Whatever row they overwrite, no credit is touched.
LEMMA StatusWrites ==
  ASSUME TypeInv, MoneyInv, UNCHANGED <<events, payments, proc, recon>>,
         \A i \in InvoiceIds :
           /\ invoices'[i].amount = invoices[i].amount
           /\ invoices'[i].paid = invoices[i].paid
           /\ invoices'[i].status = invoices[i].status
              \/ invoices'[i].status \in {"EXPIRED", "CONFIRMED", "SETTLED"}
  PROVE  MoneyInv'
<1>1. PayeesExist /\ CreditedInFull /\ FreshIsUnpaid /\ MatchStillGood /\ PassStillGood
  BY DEF MoneyInv
<1>2. CreditedInFull'
  <2>1. ASSUME NEW l \in LivePayments PROVE payments[l].invoice \in InvoiceIds
    BY <1>1 DEF PayeesExist, LivePayments
  <2> QED
    BY <1>1, <2>1, RowsKept DEF CreditedInFull, Held
<1>3. FreshIsUnpaid'
  BY <1>1, RowsKept DEF FreshIsUnpaid
<1>4. MatchStillGood'
  <2>1. proc.invoice # NoInvoice => proc.invoice \in InvoiceIds
    BY DEF TypeInv, TypeOK, ProcTypeOK
  <2> QED
    BY <1>1, <2>1, RowsKept DEF MatchStillGood
<1>5. PassStillGood'
  BY <1>1, RowsKept DEF PassStillGood
<1> QED
  BY <1>2, <1>3, <1>4, <1>5, RowsKept DEF MoneyInv

\* The chain moves no money by itself.
LEMMA ChainMoney ==
  ASSUME MoneyInv, World
  PROVE  MoneyInv'
<1>1. UNCHANGED <<invoices, events, payments, proc, recon>>
  BY DEF World, ChainNext, MineBlock, Reorg, tables, sessions
<1> QED
  BY <1>1, MoneyKept

\* A new invoice owes everything, and a recorded transfer pays nothing yet.
LEMMA IntakeMoney ==
  ASSUME TypeInv, MoneyInv, Requesting
  PROVE  MoneyInv'
<1>1. IntakeNext /\ UNCHANGED <<proc, recon>>
  BY DEF Requesting, sessions
<1>2. ASSUME NEW i \in InvoiceIds, NEW r \in Requests, CreateInvoice(i, r)
      PROVE  MoneyInv'
  <2>1. /\ invoices[i].status = "absent"
        /\ invoices' = [invoices EXCEPT ![i] =
             [AbsentInvoice EXCEPT !.status = "AWAITING_PAYMENT", !.amount = r + i]]
        /\ UNCHANGED <<events, payments>>
    BY <1>2, IdsAssumption DEF CreateInvoice
  <2>2. /\ invoices'[i].status = "AWAITING_PAYMENT" /\ invoices'[i].paid = 0
        /\ \A j \in InvoiceIds \ {i} : invoices'[j] = invoices[j]
    BY <2>1 DEF TypeInv, TypeOK, StoreTypeOK, AbsentInvoice
  <2>3. Paying(i) = {} /\ FreshIsUnpaid /\ CreditedInFull /\ PayeesExist
    BY <2>1 DEF MoneyInv, FreshIsUnpaid
  <2>4. CreditedInFull'
    <3>1. ASSUME NEW l \in LivePayments
          PROVE  payments[l].invoice \in InvoiceIds \ {i}
      BY <2>3 DEF PayeesExist, LivePayments, Paying
    <3> QED
      BY <2>1, <2>2, <2>3, <3>1, RowsKept DEF CreditedInFull
  <2>5. FreshIsUnpaid'
    BY <2>1, <2>2, <2>3, RowsKept DEF FreshIsUnpaid
  <2>6. MatchStillGood'
    <3>1. proc.invoice # NoInvoice => proc.log # NoLog /\ proc.invoice \in InvoiceIds
      BY DEF TypeInv, TypeOK, ProcTypeOK
    <3>2. proc.invoice # i
      BY <2>1, <3>1, IdsAssumption DEF MoneyInv, MatchStillGood, NoInvoice
    <3> QED
      BY <1>1, <2>1, <2>2, <3>1, <3>2, RowsKept DEF MoneyInv, MatchStillGood
  <2>7. PassStillGood'
    BY <1>1, <2>1, RowsKept DEF MoneyInv, PassStillGood
  <2> QED
    BY <2>1, <2>4, <2>5, <2>6, <2>7, RowsKept DEF MoneyInv
<1>3. ASSUME NEW i \in InvoiceIds, ElapseTtl(i) PROVE MoneyInv'
  BY <1>1, <1>3, MoneyKept DEF ElapseTtl
<1>4. ASSUME NEW batch, IngestEvents(batch) PROVE MoneyInv'
  <2>1. UNCHANGED <<invoices, payments>>
    BY <1>4 DEF IngestEvents
  <2>2. \A l \in Logs : \/ events'[l] = events[l]
                        \/ events[l].status = "absent" /\ events'[l].status = "pending"
    BY <1>4 DEF IngestEvents, TypeInv, TypeOK, StoreTypeOK
  <2>3. EventsDecide' /\ AuditTrailAgrees'
    BY <2>1, <2>2 DEF MoneyInv, EventsDecide, AuditTrailAgrees
  <2>4. (AtMostOneLivePayment /\ CreditedInFull /\ PayeesExist /\ FreshIsUnpaid)'
    BY <2>1 DEF MoneyInv, AtMostOneLivePayment, CreditedInFull, PayeesExist, FreshIsUnpaid,
                LivePayments, Paying
  <2>5. MatchStillGood'
    <3>1. proc.log # NoLog => proc.log \in Logs
      BY DEF TypeInv, TypeOK, ProcTypeOK
    <3> QED
      BY <1>1, <2>1, <2>2, <3>1 DEF MoneyInv, MatchStillGood, LivePayments, Paying
  <2>6. PassStillGood'
    BY <1>1, <2>1 DEF MoneyInv, PassStillGood, LivePayments
  <2> QED
    BY <2>3, <2>4, <2>5, <2>6 DEF MoneyInv
<1> QED
  BY <1>1, <1>2, <1>3, <1>4 DEF IntakeNext, Creating, Arriving

\* What a credit writes: the matched invoice, still unpaid, is paid in full,
\* whatever status it was given since it was matched.
LEMMA CreditWrites ==
  ASSUME TypeInv, MoneyInv, CreditEvent
  PROVE  /\ proc.log \in Logs /\ proc.invoice \in InvoiceIds
         /\ Paying(proc.invoice) = {} /\ invoices[proc.invoice].paid = 0
         /\ events[proc.log].status = "pending" /\ payments[proc.log].status = "absent"
         /\ events'[proc.log].status = "processed"
         /\ \A k \in Logs \ {proc.log} : events'[k] = events[k]
         /\ payments'[proc.log].status = "live"
         /\ payments'[proc.log].invoice = proc.invoice
         /\ \A k \in Logs \ {proc.log} : payments'[k] = payments[k]
         /\ invoices'[proc.invoice].status = "CONFIRMING"
         /\ invoices'[proc.invoice].paid = Value[proc.log]
         /\ invoices'[proc.invoice].amount = Value[proc.log]
         /\ \A j \in InvoiceIds \ {proc.invoice} : invoices'[j] = invoices[j]
         /\ proc' = ProcIdle
<1> DEFINE l == proc.log
           i == proc.invoice
<1>1. l \in Logs /\ i \in InvoiceIds /\ proc.row \in InvoiceRow /\ l # NoLog /\ i # NoInvoice
  BY NoLogAssumption DEF TypeInv, TypeOK, ProcTypeOK, CreditEvent
<1>2. /\ events[l].status = "pending"
      /\ proc.row.status = "AWAITING_PAYMENT" /\ proc.row.paid = 0
      /\ Paying(i) = {} /\ invoices[i].paid = 0 /\ invoices[i].amount = Value[l]
  BY <1>1 DEF MoneyInv, MatchStillGood
<1>3. Value[l] \in Nat
  BY <1>1, ValueAssumption
<1> DEFINE new == Credited(proc.row, l)
<1>4. /\ new.status = "CONFIRMING"
      /\ new.paid = Value[l]
      /\ new.amount = proc.row.amount
  BY <1>1, <1>2, <1>3 DEF Credited, InvoiceRow
<1>5. invoices' = [invoices EXCEPT ![i] = Flush(invoices[i], proc.row, new)]
  BY DEF CreditEvent
<1>6. /\ invoices'[i].status = "CONFIRMING"
      /\ invoices'[i].paid = Value[l]
      /\ invoices'[i].amount = Value[l]
      /\ \A j \in InvoiceIds \ {i} : invoices'[j] = invoices[j]
  <2> HIDE DEF new
  <2> QED
    BY <1>1, <1>2, <1>3, <1>4, <1>5 DEF Flush, Column, TypeInv, TypeOK, StoreTypeOK
<1>7. /\ payments[l].status = "absent"
      /\ payments'[l].status = "live" /\ payments'[l].invoice = i
      /\ \A k \in Logs \ {l} : payments'[k] = payments[k]
  BY <1>1 DEF CreditEvent, TypeInv, TypeOK, StoreTypeOK
<1>8. /\ events'[l].status = "processed"
      /\ \A k \in Logs \ {l} : events'[k] = events[k]
  BY <1>1 DEF CreditEvent, TypeInv, TypeOK, StoreTypeOK, EventRow
<1> QED
  BY <1>1, <1>2, <1>6, <1>7, <1>8 DEF CreditEvent

\* The processor credits an event once, to an invoice without a credit.
LEMMA ProcessorMoney ==
  ASSUME TypeInv, MoneyInv, Processing
  PROVE  MoneyInv'
<1>1. ProcNext /\ UNCHANGED recon
  BY DEF Processing
<1>2. ASSUME UNCHANGED tables, MatchStillGood' PROVE MoneyInv'
  <2>1. UNCHANGED <<invoices, events, payments, recon>>
    BY <1>1, <1>2 DEF tables
  <2>2. (CreditedInFull /\ FreshIsUnpaid /\ PassStillGood)'
    BY <2>1, RowsKept DEF MoneyInv, CreditedInFull, FreshIsUnpaid, PassStillGood
  <2> QED
    BY <1>2, <2>1, <2>2, RowsKept DEF MoneyInv
<1>3. proc' = ProcIdle => MatchStillGood'
  BY DEF MatchStillGood, ProcIdle
<1>4. ASSUME NEW l \in Logs, NEW i \in InvoiceIds, MatchEvent(l, i) PROVE MoneyInv'
  <2>1. UNCHANGED <<invoices, events, payments, overdue, deliveries>>
    BY <1>4 DEF MatchEvent, tables
  <2>2. /\ invoices[i].status = "AWAITING_PAYMENT" /\ invoices[i].amount = Value[l]
        /\ events[l].status = "pending"
        /\ proc' = [log |-> l, invoice |-> i, row |-> invoices[i]]
    BY <1>4 DEF MatchEvent, Matching, InStatus
  <2>3. Paying(i) = {} /\ invoices[i].paid = 0
    BY <2>2 DEF MoneyInv, FreshIsUnpaid
  <2>4. MatchStillGood'
    BY <2>1, <2>2, <2>3, RowsKept DEF MatchStillGood
  <2> QED
    BY <1>2, <2>1, <2>4 DEF tables
<1>5. ASSUME NEW l \in Logs, MissEvent(l) PROVE MoneyInv'
  <2>1. /\ proc' = [ProcIdle EXCEPT !.log = l] /\ UNCHANGED tables
        /\ events[l].status = "pending"
    BY <1>5 DEF MissEvent
  <2>2. MatchStillGood'
    BY <2>1 DEF MatchStillGood, ProcIdle, tables
  <2> QED
    BY <1>2, <2>1, <2>2
<1>6. CASE CreditEvent
  <2> DEFINE l == proc.log
             i == proc.invoice
  <2>1. /\ l \in Logs /\ i \in InvoiceIds
        /\ Paying(i) = {} /\ payments[l].status = "absent"
        /\ payments'[l].status = "live" /\ payments'[l].invoice = i
        /\ \A k \in Logs \ {l} : payments'[k] = payments[k]
    BY <1>6, CreditWrites
  <2>2. /\ events[l].status = "pending" /\ events'[l].status = "processed"
        /\ \A k \in Logs \ {l} : events'[k] = events[k]
    BY <1>6, CreditWrites
  <2>3. /\ invoices'[i].status = "CONFIRMING"
        /\ invoices'[i].paid = Value[l] /\ invoices'[i].amount = Value[l]
        /\ \A j \in InvoiceIds \ {i} : invoices'[j] = invoices[j]
    BY <1>6, CreditWrites
  <2> HIDE DEF l, i
  <2>4. LivePayments' = LivePayments \cup {l} /\ l \notin LivePayments
    BY <2>1 DEF LivePayments
  <2>5. \A k \in LivePayments : payments[k].invoice # i /\ payments'[k] = payments[k]
    BY <2>1 DEF LivePayments, Paying
  <2>6. AtMostOneLivePayment'
    BY <2>1, <2>4, <2>5 DEF MoneyInv, AtMostOneLivePayment
  <2>7. CreditedInFull'
    <3>1. ASSUME NEW k \in LivePayments PROVE payments[k].invoice \in InvoiceIds \ {i}
      BY <2>5, <3>1 DEF MoneyInv, PayeesExist, LivePayments
    <3> QED
      BY <2>1, <2>3, <2>4, <2>5, <3>1 DEF MoneyInv, CreditedInFull, Held
  <2>8. AuditTrailAgrees' /\ EventsDecide' /\ PayeesExist'
    BY <2>1, <2>2 DEF MoneyInv, AuditTrailAgrees, EventsDecide, PayeesExist
  <2>9. FreshIsUnpaid'
    <3>1. ASSUME NEW j \in InvoiceIds \ {i} PROVE Paying(j)' = Paying(j)
      BY <2>1, <2>4, <2>5 DEF Paying
    <3> QED
      BY <2>3, <3>1 DEF MoneyInv, FreshIsUnpaid
  <2>10. PassStillGood'
    BY <1>1, <2>4, <2>5 DEF MoneyInv, PassStillGood
  <2>11. MatchStillGood'
    BY <1>3, <1>6 DEF CreditEvent
  <2> QED
    BY <2>6, <2>7, <2>8, <2>9, <2>10, <2>11 DEF MoneyInv
<1>7. CASE SkipEvent
  <2>1. UNCHANGED <<invoices, payments, recon>> /\ proc' = ProcIdle
    BY <1>1, <1>7 DEF SkipEvent
  <2>2. proc.log \in Logs /\ events[proc.log].status = "pending"
    BY <1>7 DEF SkipEvent, TypeInv, TypeOK, ProcTypeOK, MoneyInv, MatchStillGood
  <2>3. events'[proc.log].status = "skipped"
        /\ \A k \in Logs \ {proc.log} : events'[k] = events[k]
    BY <1>7, <2>2 DEF SkipEvent, TypeInv, TypeOK, StoreTypeOK, EventRow
  <2>4. EventsDecide' /\ AuditTrailAgrees'
    BY <2>1, <2>2, <2>3 DEF MoneyInv, EventsDecide, AuditTrailAgrees
  <2>5. (AtMostOneLivePayment /\ CreditedInFull /\ PayeesExist /\ FreshIsUnpaid
           /\ PassStillGood)'
    BY <2>1 DEF MoneyInv, AtMostOneLivePayment, CreditedInFull, PayeesExist, FreshIsUnpaid,
                PassStillGood, LivePayments, Paying
  <2> QED
    BY <1>3, <2>1, <2>4, <2>5 DEF MoneyInv
<1>8. CASE AbortProcessor
  BY <1>2, <1>3, <1>8 DEF AbortProcessor
<1> QED
  BY <1>1, <1>4, <1>5, <1>6, <1>7, <1>8 DEF ProcNext

\* What the sweep's commit writes, stale or not: EXPIRED or CONFIRMED, and the
\* confirmed block, nothing else.
LEMMA SweepWrites ==
  ASSUME TypeInv, CommitSweep
  PROVE  /\ UNCHANGED <<events, payments>>
         /\ \A i \in InvoiceIds :
              /\ invoices'[i].amount = invoices[i].amount
              /\ invoices'[i].paid = invoices[i].paid
              /\ invoices'[i].detected = invoices[i].detected
              /\ i \in swp.expiring => invoices'[i].status = "EXPIRED"
              /\ i \in swp.confirming \ swp.expiring =>
                   invoices'[i].status \in {invoices[i].status, "CONFIRMED"}
              /\ i \notin swp.expiring \cup swp.confirming =>
                   invoices'[i].status = invoices[i].status
<1>1. UNCHANGED <<events, payments>>
  BY DEF CommitSweep
<1> SUFFICES ASSUME NEW i \in InvoiceIds
             PROVE  /\ invoices'[i].amount = invoices[i].amount
                    /\ invoices'[i].paid = invoices[i].paid
                    /\ invoices'[i].detected = invoices[i].detected
                    /\ i \in swp.expiring => invoices'[i].status = "EXPIRED"
                    /\ i \in swp.confirming \ swp.expiring =>
                         invoices'[i].status \in {invoices[i].status, "CONFIRMED"}
                    /\ i \notin swp.expiring \cup swp.confirming =>
                         invoices'[i].status = invoices[i].status
  BY <1>1
<1>2. invoices[i] \in InvoiceRow /\ swp.rows[i] \in InvoiceRow
  BY DEF TypeInv, TypeOK, StoreTypeOK, SweepTypeOK
<1> DEFINE expired == [invoices[i] EXCEPT !.status = "EXPIRED"]
           flushed == Flush(invoices[i], swp.rows[i], Confirmed(swp.rows[i]))
<1>3. invoices'[i] = IF i \in swp.expiring THEN expired
                     ELSE IF i \in swp.confirming THEN flushed ELSE invoices[i]
  BY DEF CommitSweep
<1>4. /\ expired.amount = invoices[i].amount /\ expired.paid = invoices[i].paid
      /\ expired.detected = invoices[i].detected /\ expired.status = "EXPIRED"
  BY <1>2 DEF InvoiceRow
<1>5. /\ Confirmed(swp.rows[i]).amount = swp.rows[i].amount
      /\ Confirmed(swp.rows[i]).paid = swp.rows[i].paid
      /\ Confirmed(swp.rows[i]).detected = swp.rows[i].detected
      /\ Confirmed(swp.rows[i]).status = "CONFIRMED"
  BY <1>2 DEF Confirmed, InvoiceRow
<1>6. /\ flushed.amount = invoices[i].amount /\ flushed.paid = invoices[i].paid
      /\ flushed.detected = invoices[i].detected
      /\ flushed.status \in {invoices[i].status, "CONFIRMED"}
  BY <1>5 DEF Flush, Column
<1> HIDE DEF expired, flushed
<1> QED
  BY <1>3, <1>4, <1>6

\* The sweep moves no money.
LEMMA SweepMoney ==
  ASSUME TypeInv, MoneyInv, Sweeping
  PROVE  MoneyInv'
<1>1. SweepNext /\ UNCHANGED <<proc, recon>>
  BY DEF Sweeping
<1>2. ASSUME UNCHANGED tables PROVE MoneyInv'
  BY <1>1, <1>2, MoneyKept DEF tables
<1>3. CASE CommitSweep
  BY <1>1, <1>3, SweepWrites, StatusWrites
<1> QED
  BY <1>1, <1>2, <1>3 DEF SweepNext, SelectAwaiting, SelectConfirming, AbortSweep

\* What the commit of an acknowledged delivery writes: SETTLED at most, and
\* only on the invoice it was about to settle.
LEMMA SettleWrites ==
  ASSUME TypeInv, NEW d \in disp.posted, CommitDelivered(d)
  PROVE  /\ UNCHANGED <<events, payments>>
         /\ d \in DeliveryRow /\ d.invoice \in InvoiceIds
         /\ \A i \in InvoiceIds :
              /\ invoices'[i].amount = invoices[i].amount
              /\ invoices'[i].paid = invoices[i].paid
              /\ invoices'[i].detected = invoices[i].detected
              /\ invoices'[i].status = IF disp.settles /\ i = d.invoice
                                         THEN "SETTLED" ELSE invoices[i].status
<1>1. d \in DeliveryRow /\ d.invoice \in InvoiceIds /\ UNCHANGED <<events, payments>>
  BY DEF TypeInv, TypeOK, DispTypeOK, DeliveryRow, CommitDelivered
<1>2. ASSUME NEW i \in InvoiceIds
      PROVE  /\ invoices'[i].amount = invoices[i].amount
             /\ invoices'[i].paid = invoices[i].paid
             /\ invoices'[i].detected = invoices[i].detected
             /\ invoices'[i].status = IF disp.settles /\ i = d.invoice
                                        THEN "SETTLED" ELSE invoices[i].status
  <2>1. invoices[i] \in InvoiceRow
    BY DEF TypeInv, TypeOK, StoreTypeOK
  <2> DEFINE settled == [invoices[i] EXCEPT !.status = "SETTLED"]
  <2>2. invoices'[i] = IF disp.settles /\ i = d.invoice THEN settled ELSE invoices[i]
    BY <1>1 DEF CommitDelivered, TypeInv, TypeOK, StoreTypeOK
  <2>3. /\ settled.amount = invoices[i].amount /\ settled.paid = invoices[i].paid
        /\ settled.detected = invoices[i].detected /\ settled.status = "SETTLED"
    BY <2>1 DEF InvoiceRow
  <2> HIDE DEF settled
  <2> QED
    BY <2>2, <2>3
<1> QED
  BY <1>1, <1>2

\* The dispatcher's commits settle an invoice or touch deliveries only.
LEMMA DispatchMoney ==
  ASSUME TypeInv, MoneyInv, Sending
  PROVE  MoneyInv'
<1>1. DispNext /\ UNCHANGED <<proc, recon>>
  BY DEF Sending
<1>2. ASSUME UNCHANGED <<invoices, events, payments>> PROVE MoneyInv'
  BY <1>1, <1>2, MoneyKept
<1>3. ASSUME NEW d \in disp.posted, CommitDelivered(d) PROVE MoneyInv'
  BY <1>1, <1>3, SettleWrites, StatusWrites
<1> QED
  BY <1>1, <1>2, <1>3
     DEF DispNext, RefuseDelivery, PostDelivery, CommitFailed, AbortDispatch, ElapseBackoff, tables

\* What a pass writes.  An invoice it reopens holds exactly one live payment,
\* which the pass orphans; the invoice is left open, unpaid, its amount kept.
LEMMA PassWrites ==
  ASSUME TypeInv, MoneyInv, CommitPass
  PROVE  /\ recon.lost \subseteq LivePayments
         /\ LivePayments' = LivePayments \ recon.lost
         /\ \A l \in Logs :
              /\ payments'[l].invoice = payments[l].invoice
              /\ l \in recon.lost => /\ payments'[l].status = "orphaned"
                                     /\ events'[l].status = "orphaned"
              /\ l \notin recon.lost => payments'[l] = payments[l] /\ events'[l] = events[l]
         /\ \A i \in InvoiceIds \ Reopened : invoices'[i] = invoices[i]
         /\ \A i \in Reopened :
              /\ i \in InvoiceIds
              /\ \E l \in recon.lost : payments[l].invoice = i
              /\ invoices'[i].status = "AWAITING_PAYMENT"
              /\ invoices'[i].paid = 0
              /\ invoices'[i].amount = invoices[i].amount
<1>1. recon.lost \subseteq LivePayments /\ recon.lost \subseteq Logs
  BY DEF MoneyInv, PassStillGood, LivePayments
<1>2. \A l \in Logs :
        /\ payments'[l].invoice = payments[l].invoice
        /\ l \in recon.lost => /\ payments'[l].status = "orphaned"
                               /\ events'[l].status = "orphaned"
        /\ l \notin recon.lost => payments'[l] = payments[l] /\ events'[l] = events[l]
  <2> SUFFICES ASSUME NEW l \in Logs
               PROVE  /\ payments'[l].invoice = payments[l].invoice
                      /\ l \in recon.lost => /\ payments'[l].status = "orphaned"
                                             /\ events'[l].status = "orphaned"
                      /\ l \notin recon.lost => /\ payments'[l] = payments[l]
                                                /\ events'[l] = events[l]
    OBVIOUS
  <2>1. payments[l] \in PaymentRow /\ events[l] \in EventRow
    BY DEF TypeInv, TypeOK, StoreTypeOK
  <2>2. /\ payments'[l] = IF l \in recon.lost THEN [payments[l] EXCEPT !.status = "orphaned"]
                                             ELSE payments[l]
        /\ events'[l] = IF l \in recon.lost THEN [events[l] EXCEPT !.status = "orphaned"]
                                           ELSE events[l]
    BY DEF CommitPass, Orphaned
  <2> QED
    BY <2>1, <2>2 DEF PaymentRow, EventRow
<1>3. LivePayments' = LivePayments \ recon.lost
  BY <1>1, <1>2 DEF LivePayments
<1>4. \A i \in InvoiceIds \ Reopened : invoices'[i] = invoices[i]
  BY DEF CommitPass
<1>5. ASSUME NEW i \in Reopened
      PROVE  /\ i \in InvoiceIds
             /\ \E l \in recon.lost : payments[l].invoice = i
             /\ invoices'[i].status = "AWAITING_PAYMENT"
             /\ invoices'[i].paid = 0
             /\ invoices'[i].amount = invoices[i].amount
  <2> DEFINE l == CHOOSE k \in Undone : payments[k].invoice = i
  <2>1. l \in Undone /\ payments[l].invoice = i
    BY DEF Reopened
  <2>2. l \in recon.lost /\ CanRollBack(recon.rows[i].status)
    BY <2>1 DEF Undone
  <2>3. i \in InvoiceIds
    BY <1>1, <2>1, <2>2 DEF MoneyInv, PayeesExist, LivePayments
  <2>4. recon.rows[i] \in InvoiceRow /\ recon.rows[i].paid = Value[l] /\ Value[l] \in Nat
    BY <1>1, <2>1, <2>2, <2>3, ValueAssumption
       DEF TypeInv, TypeOK, ReconTypeOK, MoneyInv, PassStillGood
  <2>5. recon.rows[i].status # "AWAITING_PAYMENT"
    BY <2>2 DEF CanRollBack, RollbackEdge
  <2>9. invoices[i].paid = Value[l]
    BY <1>1, <2>1, <2>2 DEF MoneyInv, CreditedInFull, PassStillGood
  <2> DEFINE new == RolledBack(recon.rows[i], l)
  <2>6. invoices'[i] = Flush(invoices[i], recon.rows[i], new)
    BY <2>3 DEF CommitPass
  <2> HIDE DEF l
  <2>7. /\ new.status = "AWAITING_PAYMENT" /\ new.paid = 0
        /\ new.amount = recon.rows[i].amount
    BY <2>4 DEF RolledBack, LessOrZero, InvoiceRow
  <2> HIDE DEF new
  <2>8. /\ invoices'[i].status = "AWAITING_PAYMENT" /\ invoices'[i].paid = 0
        /\ invoices'[i].amount = invoices[i].amount
    BY <2>4, <2>5, <2>6, <2>7, <2>9 DEF Flush, Column
  <2> QED
    BY <2>1, <2>2, <2>3, <2>8
<1> QED
  BY <1>1, <1>2, <1>3, <1>4, <1>5

\* A pass checks live payments, and its commit undoes whole credits.
LEMMA PassMoney ==
  ASSUME TypeInv, MoneyInv, Verifying
  PROVE  MoneyInv'
<1>1. ReconNext /\ UNCHANGED proc
  BY DEF Verifying
<1>2. ASSUME UNCHANGED tables, PassStillGood' PROVE MoneyInv'
  <2>1. UNCHANGED <<invoices, events, payments>>
    BY <1>2 DEF tables
  <2>2. (CreditedInFull /\ FreshIsUnpaid /\ MatchStillGood)'
    BY <1>1, <2>1, RowsKept DEF MoneyInv, CreditedInFull, FreshIsUnpaid, MatchStillGood
  <2> QED
    BY <1>2, <2>1, <2>2, RowsKept DEF MoneyInv
<1>3. recon' = ReconIdle => PassStillGood'
  BY DEF PassStillGood, ReconIdle
<1>4. ASSUME NEW latest, NEW S, Rescue(latest, S) PROVE MoneyInv'
  <2>1. recon'.todo = {} /\ recon'.lost = {} /\ UNCHANGED tables
    BY <1>4 DEF Rescue, ReconIdle
  <2> QED
    BY <1>2, <2>1 DEF PassStillGood
<1>5. ASSUME NEW S \in SUBSET LivePayments, ListPayments(S) PROVE MoneyInv'
  <2>1. /\ recon'.todo = S /\ recon'.lost = recon.lost /\ recon'.rows = recon.rows
        /\ UNCHANGED tables
    BY <1>5 DEF ListPayments, TypeInv, TypeOK, ReconTypeOK
  <2>2. LivePayments' = LivePayments /\ UNCHANGED payments
    BY <2>1 DEF LivePayments, tables
  <2> QED
    BY <1>2, <2>1, <2>2 DEF MoneyInv, PassStillGood
<1>6. ASSUME UNCHANGED tables, recon'.todo \subseteq recon.todo,
             recon'.lost = recon.lost, recon'.rows = recon.rows
      PROVE  MoneyInv'
  <2>1. LivePayments' = LivePayments /\ UNCHANGED payments
    BY <1>6 DEF LivePayments, tables
  <2> QED
    BY <1>2, <1>6, <2>1 DEF MoneyInv, PassStillGood
<1>7. ASSUME NEW l \in recon.todo, KeepPayment(l) PROVE MoneyInv'
  BY <1>6, <1>7 DEF KeepPayment, TypeInv, TypeOK, ReconTypeOK
<1>8. CASE BreakOff
  BY <1>6, <1>8 DEF BreakOff, TypeInv, TypeOK, ReconTypeOK
<1>9. ASSUME NEW l \in recon.todo, LosePayment(l) PROVE MoneyInv'
  <2> DEFINE i == payments[l].invoice
  <2>1. l \in LivePayments /\ recon.todo \subseteq LivePayments
        /\ recon.lost \subseteq LivePayments
    BY DEF MoneyInv, PassStillGood
  <2>2. i \in InvoiceIds /\ invoices[i].paid = Value[l]
    BY <2>1 DEF MoneyInv, PayeesExist, CreditedInFull, LivePayments
  <2>3. /\ UNCHANGED tables
        /\ recon' = [recon EXCEPT !.todo = @ \ {l}, !.lost = @ \cup {l},
                                  !.rows[i] = invoices[i]]
    BY <1>9 DEF LosePayment
  <2>4. /\ recon'.todo = recon.todo \ {l} /\ recon'.lost = recon.lost \cup {l}
        /\ recon'.rows = [recon.rows EXCEPT ![i] = invoices[i]]
        /\ recon.rows \in [InvoiceIds -> InvoiceRow]
    BY <2>3 DEF TypeInv, TypeOK, ReconTypeOK
  <2>5. LivePayments' = LivePayments /\ UNCHANGED payments
    BY <2>3 DEF LivePayments, tables
  <2>6. ASSUME NEW k \in recon'.lost
        PROVE  recon'.rows[payments[k].invoice].paid = Value[k]
    <3>1. CASE k = l
      BY <2>2, <2>4, <3>1
    <3>2. CASE k # l
      <4>1. k \in recon.lost /\ payments[k].invoice # i
        BY <2>1, <2>4, <2>6, <3>2 DEF MoneyInv, AtMostOneLivePayment
      <4> QED
        BY <2>4, <4>1 DEF MoneyInv, PassStillGood
    <3> QED
      BY <3>1, <3>2
  <2>7. PassStillGood'
    BY <2>1, <2>4, <2>5, <2>6 DEF PassStillGood
  <2> QED
    BY <1>2, <2>3, <2>7
<1>10. CASE CommitPass
  <2>1. /\ recon.lost \subseteq LivePayments
        /\ LivePayments' = LivePayments \ recon.lost
        /\ \A l \in Logs :
             /\ payments'[l].invoice = payments[l].invoice
             /\ l \in recon.lost => /\ payments'[l].status = "orphaned"
                                    /\ events'[l].status = "orphaned"
             /\ l \notin recon.lost => payments'[l] = payments[l] /\ events'[l] = events[l]
    BY <1>10, PassWrites
  <2>2. \A i \in InvoiceIds \ Reopened : invoices'[i] = invoices[i]
    BY <1>10, PassWrites
  <2>3. \A i \in Reopened :
          /\ i \in InvoiceIds
          /\ \E l \in recon.lost : payments[l].invoice = i
          /\ invoices'[i].status = "AWAITING_PAYMENT"
          /\ invoices'[i].paid = 0
          /\ invoices'[i].amount = invoices[i].amount
    BY <1>10, PassWrites
  <2>4. AtMostOneLivePayment'
    BY <2>1 DEF MoneyInv, AtMostOneLivePayment, LivePayments
  <2>5. CreditedInFull'
    <3> SUFFICES ASSUME NEW l \in LivePayments'
                 PROVE  LET row == invoices'[payments'[l].invoice]
                        IN row.status \in Held /\ row.amount = Value[l] /\ row.paid = Value[l]
      BY DEF CreditedInFull
    <3>1. l \in LivePayments /\ l \notin recon.lost /\ l \in Logs
      BY <2>1 DEF LivePayments
    <3>2. payments[l].invoice \in InvoiceIds \ Reopened
      BY <2>1, <2>3, <3>1 DEF MoneyInv, AtMostOneLivePayment, PayeesExist, LivePayments
    <3> QED
      BY <2>1, <2>2, <3>1, <3>2 DEF MoneyInv, CreditedInFull
  <2>6. AuditTrailAgrees' /\ EventsDecide' /\ PayeesExist'
    BY <2>1 DEF MoneyInv, AuditTrailAgrees, EventsDecide, PayeesExist, LivePayments
  <2>7. \A i : Paying(i)' = Paying(i) \ recon.lost
    BY <2>1 DEF Paying, LivePayments
  <2>8. FreshIsUnpaid'
    <3> SUFFICES ASSUME NEW i \in InvoiceIds,
                        invoices'[i].status \in {"absent", "AWAITING_PAYMENT"}
                 PROVE  Paying(i)' = {} /\ invoices'[i].paid = 0
      BY DEF FreshIsUnpaid
    <3>1. CASE i \in Reopened
      <4>1. PICK l \in recon.lost : payments[l].invoice = i
        BY <2>3, <3>1
      <4>2. Paying(i) \subseteq {l}
        BY <2>1, <4>1 DEF MoneyInv, AtMostOneLivePayment, Paying
      <4> QED
        BY <2>3, <2>7, <3>1, <4>1, <4>2
    <3>2. CASE i \notin Reopened
      BY <2>2, <2>7, <3>2 DEF MoneyInv, FreshIsUnpaid
    <3> QED
      BY <3>1, <3>2
  <2>9. MatchStillGood'
    <3>1. /\ proc.log # NoLog => proc.log \in Logs
          /\ proc.invoice # NoInvoice => proc.log # NoLog /\ proc.invoice \in InvoiceIds
      BY DEF TypeInv, TypeOK, ProcTypeOK
    <3>2. proc.log # NoLog => proc.log \notin recon.lost
      BY <2>1, <3>1 DEF MoneyInv, MatchStillGood, EventsDecide, LivePayments
    <3>3. proc.invoice # NoInvoice => proc.invoice \notin Reopened
      BY <2>1, <2>3, <3>1 DEF MoneyInv, MatchStillGood, Paying
    <3> QED
      BY <1>1, <2>1, <2>2, <2>7, <3>1, <3>2, <3>3 DEF MoneyInv, MatchStillGood
  <2>10. PassStillGood'
    BY <1>3, <1>10 DEF CommitPass
  <2> QED
    BY <2>4, <2>5, <2>6, <2>8, <2>9, <2>10 DEF MoneyInv
<1>11. CASE AbortPass
  BY <1>2, <1>3, <1>11 DEF AbortPass
<1> QED
  BY <1>1, <1>4, <1>5, <1>7, <1>8, <1>9, <1>10, <1>11 DEF ReconNext

-----------------------------------------------------------------------------
\* The empty database satisfies the invariant.
LEMMA InitInv == Init => IInv
<1> SUFFICES ASSUME Init PROVE IInv
  OBVIOUS
<1> USE DEF Init
<1>1. AbsentInvoice \in InvoiceRow /\ AbsentEvent \in EventRow /\ AbsentPayment \in PaymentRow
  BY DEF AbsentInvoice, InvoiceRow, AbsentEvent, EventRow, AbsentPayment, PaymentRow,
         NoBlock, NoInvoice
<1>2. StoreTypeOK /\ IsFiniteSet(deliveries)
  BY <1>1, FS_EmptySet DEF StoreInit, StoreTypeOK
<1>3. ChainTypeOK
  BY DEF ChainInit, ChainTypeOK, Unmined, NoBlock
<1>4. ProcTypeOK /\ SweepTypeOK /\ DispTypeOK /\ ReconTypeOK
  BY <1>1 DEF ProcInit, ProcIdle, ProcTypeOK, SweepInit, SweepIdle, SweepTypeOK,
              DispInit, NoAnswer, DispTypeOK, ReconInit, ReconIdle, ReconTypeOK, NoInvoice
<1>5. LivePayments = {} /\ \A i : Paying(i) = {}
  BY DEF StoreInit, AbsentPayment, LivePayments, Paying
<1>6. MoneyInv
  BY <1>5 DEF MoneyInv, AtMostOneLivePayment, CreditedInFull, AuditTrailAgrees, EventsDecide,
              PayeesExist, FreshIsUnpaid, MatchStillGood, PassStillGood, StoreInit,
              AbsentInvoice, AbsentEvent, AbsentPayment, ProcInit, ProcIdle, ReconInit, ReconIdle
<1> QED
  BY <1>2, <1>3, <1>4, <1>6 DEF IInv, TypeInv, TypeOK

\* Every step of every loop keeps it.
LEMMA StepInv == IInv /\ [Next]_vars => IInv'
<1> SUFFICES ASSUME IInv, [Next]_vars PROVE IInv'
  OBVIOUS
<1>0. TypeInv /\ MoneyInv /\ PayeesExist /\ PassStillGood
  BY DEF IInv, MoneyInv
<1>1. CASE World
  BY <1>0, <1>1, ChainTypes, ChainMoney DEF IInv
<1>2. CASE Requesting
  BY <1>0, <1>2, IntakeTypes, IntakeMoney DEF IInv
<1>3. CASE Processing
  BY <1>0, <1>3, ProcessorTypes, ProcessorMoney DEF IInv
<1>4. CASE Sweeping
  BY <1>0, <1>4, SweepTypes, SweepMoney DEF IInv
<1>5. CASE Sending
  BY <1>0, <1>5, DispatchTypes, DispatchMoney DEF IInv
<1>6. CASE Verifying
  BY <1>0, <1>6, PassTypes, PassMoney DEF IInv
<1>7. CASE UNCHANGED vars
  <2>1. UNCHANGED <<invoices, events, payments, proc, recon>>
    BY <1>7 DEF vars, tables, sessions
  <2>2. TypeInv'
    BY <1>0, <1>7 DEF vars, tables, chainVars, sessions, TypeInv, TypeOK, StoreTypeOK,
                      ChainTypeOK, ProcTypeOK, SweepTypeOK, DispTypeOK, ReconTypeOK
  <2> QED
    BY <1>0, <2>1, <2>2, MoneyKept DEF IInv
<1> QED
  BY <1>1, <1>2, <1>3, <1>4, <1>5, <1>6, <1>7 DEF Next

\* The invariant of every behaviour: the tables agree on every credit, and the
\* open sessions still hold what they read when they commit.
THEOREM Invariance == Spec => []IInv
BY InitInv, StepInv, PTL DEF Spec

\* Every table and session keeps its type.
THEOREM TypeCorrect == Spec => []TypeOK
<1>1. IInv => TypeOK
  BY DEF IInv, TypeInv
<1> QED
  BY <1>1, Invariance, PTL

\* No invoice ever holds two live payments, although the processor matches it
\* in one step and credits it in a later one.
THEOREM NoDoubleCredit == Spec => []AtMostOneLivePayment
<1>1. IInv => AtMostOneLivePayment
  BY DEF IInv, MoneyInv
<1> QED
  BY <1>1, Invariance, PTL

\* Every live payment is counted once and in full on its invoice, through any
\* sequence of credits, rollbacks and stale writes.
THEOREM CreditsInFull == Spec => []CreditedInFull
<1>1. IInv => CreditedInFull
  BY DEF IInv, MoneyInv
<1> QED
  BY <1>1, Invariance, PTL

\* Chain events and payments never disagree about a transfer.
THEOREM AuditTrail == Spec => []AuditTrailAgrees
<1>1. IInv => AuditTrailAgrees
  BY DEF IInv, MoneyInv
<1> QED
  BY <1>1, Invariance, PTL

\* Only the commit that orphans the payment of an invoice reopens the invoice.
THEOREM ReopeningOrphans == Spec => ReopensWithOrphan
<1> DEFINE Reopening ==
      \A i \in InvoiceIds :
        /\ invoices[i].status \notin {"absent", "AWAITING_PAYMENT"}
        /\ invoices'[i].status = "AWAITING_PAYMENT"
        => \E l \in Paying(i) : payments'[l].status = "orphaned"
<1>1. ASSUME IInv, [Next]_vars PROVE Reopening
  <2> SUFFICES ASSUME NEW i \in InvoiceIds,
                      invoices[i].status \notin {"absent", "AWAITING_PAYMENT"},
                      invoices'[i].status = "AWAITING_PAYMENT"
               PROVE  \E l \in Paying(i) : payments'[l].status = "orphaned"
    OBVIOUS
  <2>0. TypeInv /\ MoneyInv /\ StoreTypeOK
    BY <1>1 DEF IInv, TypeInv, TypeOK
  <2>1. invoices' # invoices
    OBVIOUS
  <2>2. CASE Requesting
    <3>1. ASSUME NEW j \in InvoiceIds, NEW r \in Requests, CreateInvoice(j, r) PROVE FALSE
      <4>1. invoices[j].status = "absent"
        BY <3>1, IdsAssumption DEF CreateInvoice
      <4> QED
        BY <2>0, <3>1, <4>1 DEF CreateInvoice, StoreTypeOK
    <3> QED
      BY <2>1, <2>2, <3>1 DEF Requesting, IntakeNext, Creating, Arriving, ElapseTtl, IngestEvents
  <2>3. CASE Processing
    <3>1. CASE CreditEvent
      BY <2>0, <3>1, CreditWrites
    <3> QED
      BY <2>1, <2>3, <3>1 DEF Processing, ProcNext, MatchEvent, MissEvent, SkipEvent,
                              AbortProcessor, tables
  <2>4. CASE Sweeping
    <3>1. CASE CommitSweep
      <4>1. invoices[i] \in InvoiceRow /\ swp.rows[i] \in InvoiceRow
        BY <2>0 DEF TypeInv, TypeOK, StoreTypeOK, SweepTypeOK
      <4>2. [invoices[i] EXCEPT !.status = "EXPIRED"].status = "EXPIRED"
            /\ Confirmed(swp.rows[i]).status = "CONFIRMED"
        BY <4>1 DEF Confirmed, InvoiceRow
      <4> QED
        BY <3>1, <4>1, <4>2 DEF CommitSweep, Flush, Column
    <3> QED
      BY <2>1, <2>4, <3>1 DEF Sweeping, SweepNext, SelectAwaiting, SelectConfirming,
                              AbortSweep, tables
  <2>5. CASE Sending
    <3>1. ASSUME NEW d \in disp.posted, CommitDelivered(d) PROVE FALSE
      BY <2>0, <2>1, <3>1 DEF CommitDelivered, StoreTypeOK, InvoiceRow
    <3> QED
      BY <2>1, <2>5, <3>1 DEF Sending, DispNext, RefuseDelivery, PostDelivery, CommitFailed,
                              AbortDispatch, ElapseBackoff, tables
  <2>6. CASE Verifying
    <3>1. CASE CommitPass
      <4>1. i \in Reopened
        BY <2>0, <3>1, PassWrites
      <4>2. PICK l \in recon.lost : payments[l].invoice = i
        BY <2>0, <3>1, <4>1, PassWrites
      <4>3. l \in Paying(i) /\ l \in Logs /\ payments'[l].status = "orphaned"
        BY <2>0, <3>1, <4>2, PassWrites DEF Paying, LivePayments
      <4> QED
        BY <4>3
    <3> QED
      BY <2>1, <2>6, <3>1 DEF Verifying, ReconNext, Rescue, ListPayments, KeepPayment,
                              LosePayment, BreakOff, AbortPass, tables
  <2>7. CASE World
    BY <2>1, <2>7 DEF World, ChainNext, MineBlock, Reorg, tables
  <2>8. CASE UNCHANGED vars
    BY <2>1, <2>8 DEF vars, tables
  <2> QED
    BY <1>1, <2>2, <2>3, <2>4, <2>5, <2>6, <2>7, <2>8 DEF Next
<1>2. IInv /\ [Next]_vars => [Reopening]_vars
  BY <1>1
<1> QED
  BY <1>2, Invariance, PTL DEF Spec, ReopensWithOrphan
=============================================================================
