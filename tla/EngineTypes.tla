----------------------------- MODULE EngineTypes -----------------------------
(***************************************************************************)
(* Type correctness of the engine: every component keeps the types, one    *)
(* lemma for each.                                                         *)
(***************************************************************************)
EXTENDS EngineInv, FiniteSetTheorems, TLAPS

\* A commit writes a well-typed row from well-typed ones.
LEMMA FlushType ==
  ASSUME NEW stored \in InvoiceRow, NEW loaded \in InvoiceRow, NEW new \in InvoiceRow
  PROVE  Flush(stored, loaded, new) \in InvoiceRow
BY DEF Flush, Column, InvoiceRow

\* Marking an event keeps it an event.
LEMMA EventMarkType ==
  ASSUME NEW row \in EventRow, NEW mark \in {"processed", "skipped", "orphaned"}
  PROVE  [row EXCEPT !.status = mark] \in EventRow
BY DEF EventRow

\* enqueue() adds finitely many well-typed rows: its round is a number
\* because the table is finite.
LEMMA EnqueuedType ==
  ASSUME IsFiniteSet(deliveries), deliveries \subseteq DeliveryRow,
         NEW S \in SUBSET InvoiceIds, NEW type \in NoticeType
  PROVE  Enqueued(S, type) \subseteq DeliveryRow /\ IsFiniteSet(Enqueued(S, type))
<1> DEFINE firsts(i) == {d \in Notices(i, type) : d.attempt = 1}
           row(i) == [invoice |-> i, type |-> type, attempt |-> 1,
                      round |-> 1 + Cardinality(firsts(i)),
                      status |-> "pending", due |-> TRUE]
           f == [i \in S |-> row(i)]
<1>1. ASSUME NEW i \in S PROVE Cardinality(firsts(i)) \in Nat
  <2>1. firsts(i) \in SUBSET deliveries
    BY DEF Notices
  <2>2. IsFiniteSet(firsts(i))
    BY <2>1, FS_Subset
  <2> QED
    BY <2>2, FS_CardinalityType
<1>2. Enqueued(S, type) = {row(i) : i \in S}
  BY DEF Enqueued
<1>3. Enqueued(S, type) \subseteq DeliveryRow
  <2>1. ASSUME NEW i \in S PROVE row(i) \in DeliveryRow
    BY <1>1, <2>1 DEF DeliveryRow
  <2> QED
    BY <2>1, <1>2
<1>4. f \in Surjection(S, Enqueued(S, type))
  BY <1>2 DEF Surjection
<1>5. IsFiniteSet(S)
  BY FS_Subset, FiniteAssumption
<1>6. IsFiniteSet(Enqueued(S, type))
  BY <1>4, <1>5, FS_Surjection
<1> QED
  BY <1>3, <1>6

\* The tables as a record-free conjunction of their types.
LEMMA NextTables ==
  ASSUME TypeInv, UNCHANGED tables
  PROVE  StoreTypeOK' /\ IsFiniteSet(deliveries')
BY DEF TypeInv, TypeOK, StoreTypeOK, tables

\* The chain's blocks and reorganisations keep the types.
LEMMA ChainTypes ==
  ASSUME TypeInv, World
  PROVE  TypeInv'
<1>1. UNCHANGED <<tables, sessions>> /\ ChainNext
  BY DEF World, ChainNext, MineBlock, Reorg
<1>2. ChainTypeOK'
  <2>1. ASSUME NEW S, MineBlock(S) PROVE ChainTypeOK'
    BY <2>1 DEF MineBlock, TypeInv, TypeOK, ChainTypeOK
  <2>2. ASSUME NEW b \in 1..head,
               NEW place \in [Movable(b) -> {NoBlock} \cup b..head], Reorg(b, place)
        PROVE  ChainTypeOK'
    <3>1. head \in Nat /\ fork \in Nat /\ onChain \in [Logs -> [block : Nat, fork : Nat]]
      BY DEF TypeInv, TypeOK, ChainTypeOK
    <3>2. \A l \in Movable(b) : place[l] \in Nat
      BY <3>1 DEF NoBlock
    <3> QED
      BY <2>2, <3>1, <3>2 DEF Reorg, ChainTypeOK, Unmined, NoBlock
  <2> QED
    BY <1>1, <2>1, <2>2 DEF ChainNext
<1>3. StoreTypeOK' /\ IsFiniteSet(deliveries')
  BY <1>1, NextTables
<1>4. UNCHANGED <<proc, swp, disp, recon>>
  BY <1>1 DEF sessions
<1> QED
  BY <1>2, <1>3, <1>4 DEF TypeInv, TypeOK, ProcTypeOK, SweepTypeOK, DispTypeOK, ReconTypeOK

\* The API's two writers keep the types.
LEMMA IntakeTypes ==
  ASSUME TypeInv, Requesting
  PROVE  TypeInv'
<1>1. UNCHANGED <<chainVars, sessions>> /\ IntakeNext
  BY DEF Requesting
<1>2. StoreTypeOK' /\ IsFiniteSet(deliveries')
  <2>1. ASSUME NEW i \in InvoiceIds, NEW r \in Requests, CreateInvoice(i, r)
        PROVE  StoreTypeOK' /\ IsFiniteSet(deliveries')
    <3>1. r + i \in Nat
      BY IdsAssumption, RequestsAssumption
    <3>2. [AbsentInvoice EXCEPT !.status = "AWAITING_PAYMENT", !.amount = r + i] \in InvoiceRow
      BY <3>1 DEF AbsentInvoice, InvoiceRow, InvoiceStatus, NoBlock
    <3> QED
      BY <2>1, <3>2 DEF CreateInvoice, TypeInv, TypeOK, StoreTypeOK
  <2>2. ASSUME NEW i \in InvoiceIds, ElapseTtl(i)
        PROVE  StoreTypeOK' /\ IsFiniteSet(deliveries')
    BY <2>2 DEF ElapseTtl, TypeInv, TypeOK, StoreTypeOK
  <2>3. ASSUME NEW batch, IngestEvents(batch)
        PROVE  StoreTypeOK' /\ IsFiniteSet(deliveries')
    BY <2>3 DEF IngestEvents, TypeInv, TypeOK, StoreTypeOK, ChainTypeOK, EventRow
  <2> QED
    BY <1>1, <2>1, <2>2, <2>3 DEF IntakeNext, Creating, Arriving
<1> QED
  BY <1>1, <1>2 DEF TypeInv, TypeOK, chainVars, sessions, ChainTypeOK, ProcTypeOK,
                    SweepTypeOK, DispTypeOK, ReconTypeOK

\* The processor keeps the types.
LEMMA ProcessorTypes ==
  ASSUME TypeInv, Processing
  PROVE  TypeInv'
<1>1. UNCHANGED <<chainVars, swp, disp, recon>> /\ ProcNext
  BY DEF Processing
<1> DEFINE Goal == StoreTypeOK' /\ IsFiniteSet(deliveries') /\ ProcTypeOK'
<1> SUFFICES Goal
  BY <1>1 DEF TypeInv, TypeOK, chainVars, ChainTypeOK, SweepTypeOK, DispTypeOK, ReconTypeOK
<1> USE DEF TypeInv, TypeOK
<1>2. ASSUME NEW l \in Logs, NEW i \in InvoiceIds, MatchEvent(l, i) PROVE Goal
  <2>1. i # NoInvoice /\ l # NoLog
    BY IdsAssumption, NoLogAssumption DEF NoInvoice
  <2>2. ProcTypeOK'
    BY <1>2, <2>1 DEF MatchEvent, ProcTypeOK, StoreTypeOK
  <2> QED
    BY <1>2, <2>2, NextTables DEF MatchEvent
<1>3. ASSUME NEW l \in Logs, MissEvent(l) PROVE Goal
  <2>1. ProcTypeOK'
    BY <1>3 DEF MissEvent, ProcTypeOK, ProcIdle, AbsentInvoice, InvoiceRow, NoInvoice, NoBlock
  <2> QED
    BY <1>3, <2>1, NextTables DEF MissEvent
<1>4. ProcTypeOK /\ proc' = ProcIdle => ProcTypeOK'
  BY DEF ProcTypeOK, ProcIdle, AbsentInvoice, InvoiceRow, NoInvoice, NoBlock
<1>5. CASE CreditEvent
  <2> DEFINE l == proc.log
             i == proc.invoice
             K == {k \in Logs : payments[k].status # "absent"}
  <2>1. l \in Logs /\ i \in InvoiceIds /\ proc.row \in InvoiceRow
    BY <1>5 DEF CreditEvent, ProcTypeOK
  <2>2. K \in SUBSET Logs /\ IsFiniteSet(Logs)
    BY FiniteAssumption
  <2>3. 1..1 + Cardinality(K) \subseteq Nat
    <3> HIDE DEF K
    <3>1. IsFiniteSet(K)
      BY <2>2, FS_Subset
    <3> QED
      BY <3>1, FS_CardinalityType
  <2>4. \A now \in Nat : [status |-> "live", invoice |-> i, rank |-> now] \in PaymentRow
    BY <2>1 DEF PaymentRow
  <2>5. payments' \in [Logs -> PaymentRow]
    BY <1>5, <2>3, <2>4 DEF CreditEvent, StoreTypeOK
  <2>6. Credited(proc.row, l) \in InvoiceRow
    <3>1. events[l] \in EventRow /\ Value[l] \in Nat
      BY <2>1, ValueAssumption DEF StoreTypeOK
    <3>2. events[l].block \in Nat /\ proc.row.paid + Value[l] \in Nat
      BY <2>1, <3>1 DEF EventRow, InvoiceRow
    <3> HIDE DEF l
    <3> QED
      BY <2>1, <3>2 DEF Credited, InvoiceRow, InvoiceStatus
  <2>7. invoices' \in [InvoiceIds -> InvoiceRow]
    BY <1>5, <2>1, <2>6, FlushType DEF CreditEvent, StoreTypeOK
  <2>8. events' \in [Logs -> EventRow]
    BY <1>5, <2>1, EventMarkType DEF CreditEvent, StoreTypeOK
  <2>9. UNCHANGED <<overdue, deliveries>> /\ proc' = ProcIdle
    BY <1>5 DEF CreditEvent
  <2> QED
    BY <1>4, <2>5, <2>7, <2>8, <2>9 DEF StoreTypeOK
<1>6. CASE SkipEvent
  <2>1. proc.log \in Logs
    BY <1>6 DEF SkipEvent, ProcTypeOK
  <2>2. events' \in [Logs -> EventRow]
    BY <1>6, <2>1, EventMarkType DEF SkipEvent, StoreTypeOK
  <2> QED
    BY <1>4, <1>6, <2>2 DEF SkipEvent, StoreTypeOK
<1>7. CASE AbortProcessor
  BY <1>4, <1>7, NextTables DEF AbortProcessor
<1> QED
  BY <1>1, <1>2, <1>3, <1>5, <1>6, <1>7 DEF ProcNext

\* The sweep keeps the types: what it loaded and what it writes are rows.
LEMMA SweepTypes ==
  ASSUME TypeInv, Sweeping
  PROVE  TypeInv'
<1>1. UNCHANGED <<chainVars, proc, disp, recon>> /\ SweepNext
  BY DEF Sweeping
<1> DEFINE Goal == StoreTypeOK' /\ IsFiniteSet(deliveries') /\ SweepTypeOK'
<1> SUFFICES Goal
  BY <1>1 DEF TypeInv, TypeOK, chainVars, ChainTypeOK, ProcTypeOK, DispTypeOK, ReconTypeOK
<1> USE DEF TypeInv, TypeOK
<1>2. AbsentInvoice \in InvoiceRow
  BY DEF AbsentInvoice, InvoiceRow, NoBlock
<1>3. swp' = SweepIdle => SweepTypeOK'
  BY <1>2 DEF SweepTypeOK, SweepIdle
<1>4. ASSUME NEW latest \in LatestBlock, SelectAwaiting(latest) PROVE Goal
  <2>1. latest \in Nat
    BY DEF LatestBlock, ChainTypeOK
  <2>2. SweepTypeOK'
    BY <1>2, <1>4, <2>1 DEF SelectAwaiting, SweepIdle, SweepTypeOK, InStatus
  <2> QED
    BY <1>4, <2>2, NextTables DEF SelectAwaiting
<1>5. CASE SelectConfirming
  <2>1. Deep \subseteq InvoiceIds
    BY DEF Deep, InStatus
  <2>2. [i \in InvoiceIds |-> IF i \in Deep THEN invoices[i] ELSE AbsentInvoice]
          \in [InvoiceIds -> InvoiceRow]
    BY <1>2 DEF StoreTypeOK
  <2>3. SweepTypeOK'
    <3> HIDE DEF Deep
    <3> QED
      BY <1>5, <2>1, <2>2 DEF SelectConfirming, SweepIdle, SweepTypeOK
  <2> QED
    BY <1>5, <2>3, NextTables DEF SelectConfirming
<1>6. CASE CommitSweep
  <2>1. /\ swp.expiring \in SUBSET InvoiceIds
        /\ swp.confirming \in SUBSET InvoiceIds
        /\ swp.rows \in [InvoiceIds -> InvoiceRow]
    BY DEF SweepTypeOK
  <2>2. ASSUME NEW row \in InvoiceRow PROVE Confirmed(row) \in InvoiceRow
    <3>1. row.detected + ConfirmationThreshold - 1 \in Nat
      BY ThresholdAssumption DEF InvoiceRow
    <3> QED
      BY <3>1 DEF Confirmed, InvoiceRow, InvoiceStatus
  <2>3. ASSUME NEW row \in InvoiceRow PROVE [row EXCEPT !.status = "EXPIRED"] \in InvoiceRow
    BY DEF InvoiceRow, InvoiceStatus
  <2>4. ASSUME NEW i \in InvoiceIds PROVE invoices'[i] \in InvoiceRow
    <3>1. invoices[i] \in InvoiceRow /\ swp.rows[i] \in InvoiceRow
      BY <2>1 DEF StoreTypeOK
    <3>2. Flush(invoices[i], swp.rows[i], Confirmed(swp.rows[i])) \in InvoiceRow
      BY <2>2, <3>1, FlushType
    <3> QED
      BY <1>6, <2>3, <3>1, <3>2 DEF CommitSweep
  <2>5. invoices' \in [InvoiceIds -> InvoiceRow]
    BY <1>6, <2>4 DEF CommitSweep
  <2>6. deliveries' \subseteq DeliveryRow /\ IsFiniteSet(deliveries')
    <3>1. {"invoice.expired", "invoice.confirmed"} \subseteq NoticeType
      BY DEF NoticeType
    <3>2. deliveries' = deliveries \cup Enqueued(swp.expiring, "invoice.expired")
                                   \cup Enqueued(swp.confirming, "invoice.confirmed")
      BY <1>6 DEF CommitSweep
    <3>3. /\ Enqueued(swp.expiring, "invoice.expired") \subseteq DeliveryRow
          /\ IsFiniteSet(Enqueued(swp.expiring, "invoice.expired"))
      BY <2>1, <3>1, EnqueuedType DEF StoreTypeOK
    <3>4. /\ Enqueued(swp.confirming, "invoice.confirmed") \subseteq DeliveryRow
          /\ IsFiniteSet(Enqueued(swp.confirming, "invoice.confirmed"))
      BY <2>1, <3>1, EnqueuedType DEF StoreTypeOK
    <3> QED
      BY <3>2, <3>3, <3>4, FS_Union DEF StoreTypeOK
  <2> QED
    BY <1>3, <1>6, <2>5, <2>6 DEF CommitSweep, StoreTypeOK
<1>7. CASE AbortSweep
  BY <1>3, <1>7, NextTables DEF AbortSweep
<1> QED
  BY <1>1, <1>4, <1>5, <1>6, <1>7 DEF SweepNext

\* The dispatcher keeps the types: a retry is a delivery row.
LEMMA DispatchTypes ==
  ASSUME TypeInv, Sending
  PROVE  TypeInv'
<1>1. UNCHANGED <<chainVars, proc, swp, recon>> /\ DispNext
  BY DEF Sending
<1> DEFINE Goal == StoreTypeOK' /\ IsFiniteSet(deliveries') /\ DispTypeOK'
<1> SUFFICES Goal
  BY <1>1 DEF TypeInv, TypeOK, chainVars, ChainTypeOK, ProcTypeOK, SweepTypeOK, ReconTypeOK
<1> USE DEF TypeInv, TypeOK
<1>2. disp' = NoAnswer => DispTypeOK'
  BY DEF DispTypeOK, NoAnswer
<1>3. ASSUME NEW d \in DeliveryRow, NEW status \in {"delivered", "failed"}
      PROVE  Finish(d, status) \subseteq DeliveryRow /\ IsFiniteSet(Finish(d, status))
  <2>1. [d EXCEPT !.status = status] \in DeliveryRow
    BY DEF DeliveryRow
  <2>2. IsFiniteSet(deliveries \ {d})
    BY FS_Difference
  <2>3. IsFiniteSet({[d EXCEPT !.status = status]})
    BY FS_Singleton
  <2> QED
    BY <2>1, <2>2, <2>3, FS_Union DEF Finish, StoreTypeOK
<1>4. ASSUME NEW d \in Due, RefuseDelivery(d) PROVE Goal
  BY <1>3, <1>4 DEF RefuseDelivery, Due, StoreTypeOK, DispTypeOK
<1>5. ASSUME NEW d \in Due, NEW ok \in BOOLEAN, PostDelivery(d, ok) PROVE Goal
  <2>1. DispTypeOK'
    BY <1>5 DEF PostDelivery, Due, StoreTypeOK, DispTypeOK
  <2> QED
    BY <1>5, <2>1, NextTables DEF PostDelivery
<1>6. ASSUME NEW d \in disp.posted, CommitDelivered(d) PROVE Goal
  <2>1. d \in DeliveryRow /\ d.invoice \in InvoiceIds
    BY DEF DispTypeOK, DeliveryRow
  <2>2. invoices' \in [InvoiceIds -> InvoiceRow]
    <3>1. ASSUME NEW row \in InvoiceRow PROVE [row EXCEPT !.status = "SETTLED"] \in InvoiceRow
      BY DEF InvoiceRow, InvoiceStatus
    <3> QED
      BY <1>6, <2>1, <3>1 DEF CommitDelivered, StoreTypeOK
  <2>3. deliveries' \subseteq DeliveryRow /\ IsFiniteSet(deliveries')
    <3>1. /\ Enqueued({d.invoice}, "invoice.settled") \subseteq DeliveryRow
          /\ IsFiniteSet(Enqueued({d.invoice}, "invoice.settled"))
      BY <2>1, EnqueuedType DEF StoreTypeOK, NoticeType
    <3>2. \/ deliveries' = Finish(d, "delivered")
          \/ deliveries' = Finish(d, "delivered") \cup Enqueued({d.invoice}, "invoice.settled")
      BY <1>6 DEF CommitDelivered
    <3> QED
      BY <1>3, <2>1, <3>1, <3>2, FS_Union
  <2> QED
    BY <1>2, <1>6, <2>2, <2>3 DEF CommitDelivered, StoreTypeOK
<1>7. ASSUME NEW d \in disp.posted, CommitFailed(d) PROVE Goal
  <2>1. d \in DeliveryRow
    BY DEF DispTypeOK
  <2>2. [d EXCEPT !.attempt = @ + 1, !.due = FALSE] \in DeliveryRow
    <3>1. d.attempt + 1 \in Nat
      BY <2>1 DEF DeliveryRow
    <3> QED
      BY <2>1, <3>1 DEF DeliveryRow
  <2>3. IsFiniteSet({[d EXCEPT !.attempt = @ + 1, !.due = FALSE]}) /\ IsFiniteSet({})
    BY FS_Singleton, FS_EmptySet
  <2>4. deliveries' \subseteq DeliveryRow /\ IsFiniteSet(deliveries')
    BY <1>3, <1>7, <2>1, <2>2, <2>3, FS_Union DEF CommitFailed
  <2> QED
    BY <1>2, <1>7, <2>4 DEF CommitFailed, StoreTypeOK
<1>8. CASE AbortDispatch
  BY <1>2, <1>8, NextTables DEF AbortDispatch
<1>9. ASSUME NEW d \in deliveries, ElapseBackoff(d) PROVE Goal
  <2>1. [d EXCEPT !.due = TRUE] \in DeliveryRow
    BY DEF DeliveryRow, StoreTypeOK
  <2>2. IsFiniteSet(deliveries \ {d})
    BY FS_Difference
  <2>3. IsFiniteSet((deliveries \ {d}) \cup {[d EXCEPT !.due = TRUE]})
    BY <2>2, FS_AddElement
  <2> QED
    BY <1>9, <2>1, <2>3 DEF ElapseBackoff, StoreTypeOK, DispTypeOK
<1> QED
  BY <1>1, <1>4, <1>5, <1>6, <1>7, <1>8, <1>9 DEF DispNext

\* The reconciler keeps the types: the payments it undoes name an invoice.
LEMMA PassTypes ==
  ASSUME TypeInv, PayeesExist, PassStillGood, Verifying
  PROVE  TypeInv'
<1>1. UNCHANGED <<chainVars, proc, swp, disp>> /\ ReconNext
  BY DEF Verifying
<1> DEFINE Goal == StoreTypeOK' /\ IsFiniteSet(deliveries') /\ ReconTypeOK'
<1> SUFFICES Goal
  BY <1>1 DEF TypeInv, TypeOK, chainVars, ChainTypeOK, ProcTypeOK, SweepTypeOK, DispTypeOK
<1> USE DEF TypeInv, TypeOK
<1>2. AbsentInvoice \in InvoiceRow
  BY DEF AbsentInvoice, InvoiceRow, NoBlock
<1>3. recon' = ReconIdle => ReconTypeOK'
  BY <1>2 DEF ReconTypeOK, ReconIdle
<1>4. ASSUME NEW latest \in LatestBlock, NEW S \in SUBSET InvoiceIds, Rescue(latest, S)
      PROVE  Goal
  <2>1. latest \in Nat
    BY DEF LatestBlock, ChainTypeOK
  <2>2. ReconTypeOK'
    BY <1>2, <1>4, <2>1 DEF Rescue, ReconIdle, ReconTypeOK
  <2> QED
    BY <1>4, <2>2, NextTables DEF Rescue
<1>5. ASSUME NEW S \in SUBSET LivePayments, ListPayments(S) PROVE Goal
  <2>1. ReconTypeOK'
    BY <1>5 DEF ListPayments, ReconTypeOK, LivePayments
  <2> QED
    BY <1>5, <2>1, NextTables DEF ListPayments
<1>6. ASSUME NEW l \in recon.todo, KeepPayment(l) PROVE Goal
  <2>1. ReconTypeOK'
    BY <1>6 DEF KeepPayment, ReconTypeOK
  <2> QED
    BY <1>6, <2>1, NextTables DEF KeepPayment
<1>7. ASSUME NEW l \in recon.todo, LosePayment(l) PROVE Goal
  <2> DEFINE i == payments[l].invoice
  <2>1. recon' = [recon EXCEPT !.todo = @ \ {l}, !.lost = @ \cup {l}, !.rows[i] = invoices[i]]
    BY <1>7 DEF LosePayment
  <2>2. l \in Logs
    BY DEF ReconTypeOK
  <2>3. [recon.rows EXCEPT ![i] = invoices[i]] \in [InvoiceIds -> InvoiceRow]
    BY DEF ReconTypeOK, StoreTypeOK
  <2>4. ReconTypeOK'
    BY <2>1, <2>2, <2>3 DEF ReconTypeOK
  <2> QED
    BY <1>7, <2>4, NextTables DEF LosePayment
<1>8. CASE BreakOff
  <2>1. ReconTypeOK'
    BY <1>8 DEF BreakOff, ReconTypeOK
  <2> QED
    BY <1>8, <2>1, NextTables DEF BreakOff
<1>9. CASE CommitPass
  <2>1. recon.rows \in [InvoiceIds -> InvoiceRow] /\ recon.lost \in SUBSET Logs
        /\ recon.rescue \in SUBSET InvoiceIds
    BY DEF ReconTypeOK
  <2>2. payments' \in [Logs -> PaymentRow]
    <3>1. ASSUME NEW row \in PaymentRow
          PROVE  [row EXCEPT !.status = "orphaned"] \in PaymentRow
      BY DEF PaymentRow
    <3> QED
      BY <1>9, <3>1 DEF CommitPass, Orphaned, StoreTypeOK
  <2>3. events' \in [Logs -> EventRow]
    BY <1>9, EventMarkType DEF CommitPass, Orphaned, StoreTypeOK
  <2>4. ASSUME NEW i \in InvoiceIds PROVE invoices'[i] \in InvoiceRow
    <3>1. invoices[i] \in InvoiceRow /\ recon.rows[i] \in InvoiceRow
      BY <2>1 DEF StoreTypeOK
    <3> DEFINE l == CHOOSE k \in Undone : payments[k].invoice = i
    <3>2. CASE i \in Reopened
      <4>1. l \in Undone
        BY <3>2 DEF Reopened
      <4>2. Value[l] \in Nat
        BY <2>1, <4>1, ValueAssumption DEF Undone
      <4>3. LessOrZero(recon.rows[i].paid, Value[l]) \in Nat
        BY <3>1, <4>2 DEF LessOrZero, InvoiceRow
      <4>4. RolledBack(recon.rows[i], l) \in InvoiceRow
        <5> HIDE DEF l
        <5> QED
          BY <3>1, <4>3 DEF RolledBack, InvoiceRow, InvoiceStatus, NoBlock
      <4>5. invoices'[i] = Flush(invoices[i], recon.rows[i], RolledBack(recon.rows[i], l))
        BY <1>9, <3>2 DEF CommitPass
      <4> QED
        BY <3>1, <4>4, <4>5, FlushType
    <3>3. CASE i \notin Reopened
      BY <1>9, <3>1, <3>3 DEF CommitPass
    <3> QED
      BY <3>2, <3>3
  <2>5. invoices' \in [InvoiceIds -> InvoiceRow]
    BY <1>9, <2>4 DEF CommitPass
  <2>6. deliveries' \subseteq DeliveryRow /\ IsFiniteSet(deliveries')
    <3>1. {"invoice.confirmed", "invoice.reorgged"} \subseteq NoticeType
      BY DEF NoticeType
    <3>2. deliveries' = deliveries \cup Enqueued(recon.rescue, "invoice.confirmed")
                                   \cup Enqueued(Reopened, "invoice.reorgged")
      BY <1>9 DEF CommitPass
    <3>3. Reopened \in SUBSET InvoiceIds
      BY <2>1 DEF PayeesExist, PassStillGood, LivePayments, Reopened, Undone
    <3>4. /\ Enqueued(recon.rescue, "invoice.confirmed") \subseteq DeliveryRow
          /\ IsFiniteSet(Enqueued(recon.rescue, "invoice.confirmed"))
      BY <2>1, <3>1, EnqueuedType DEF StoreTypeOK
    <3>5. /\ Enqueued(Reopened, "invoice.reorgged") \subseteq DeliveryRow
          /\ IsFiniteSet(Enqueued(Reopened, "invoice.reorgged"))
      BY <3>1, <3>3, EnqueuedType DEF StoreTypeOK
    <3> QED
      BY <3>2, <3>4, <3>5, FS_Union DEF StoreTypeOK
  <2> QED
    BY <1>3, <1>9, <2>2, <2>3, <2>5, <2>6 DEF CommitPass, StoreTypeOK
<1>10. CASE AbortPass
  BY <1>3, <1>10, NextTables DEF AbortPass
<1> QED
  BY <1>1, <1>4, <1>5, <1>6, <1>7, <1>8, <1>9, <1>10 DEF ReconNext
=============================================================================
