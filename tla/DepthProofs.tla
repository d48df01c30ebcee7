----------------------------- MODULE DepthProofs -----------------------------
(***************************************************************************)
(* Depth is counted from the right block: DepthInv is inductive beside     *)
(* IInv.  A row's detected_block is the block of the live payment it       *)
(* holds, and is cleared together with the payment.                        *)
(***************************************************************************)
EXTENDS EngineProofs

\* Steps that move no row, no block and no session of the two writers.
LEMMA DepthKept ==
  ASSUME DepthInv, UNCHANGED <<invoices, events, payments, onChain, proc, recon>>
  PROVE  DepthInv'
BY DEF DepthInv, BlocksNumbered, OpenUndetected, CountedFromPayment, ConfirmingIsPaid,
       LostAsLoaded, InStatus, LivePayments, Paying

\* Marking events does not move them.
LEMMA BlocksKept ==
  ASSUME DepthInv, UNCHANGED onChain,
         \A l \in Logs : events'[l].block = events[l].block
                        /\ (events[l].status = "absent" => events'[l].status = "absent")
  PROVE  BlocksNumbered'
<1> SUFFICES ASSUME NEW l \in Logs
             PROVE  /\ onChain'[l] # Unmined => onChain'[l].block > 0
                    /\ events'[l].status # "absent" => events'[l].block > 0
  BY DEF BlocksNumbered
<1>1. onChain[l] # Unmined => onChain[l].block > 0
  BY DEF DepthInv, BlocksNumbered
<1>2. events[l].status # "absent" => events[l].block > 0
  BY DEF DepthInv, BlocksNumbered
<1> QED
  BY <1>1, <1>2

\* Writing statuses past CONFIRMING moves no detected block.
LEMMA StatusDepth ==
  ASSUME TypeInv, MoneyInv, DepthInv, UNCHANGED <<events, payments, onChain, proc, recon>>,
         \A i \in InvoiceIds :
           /\ invoices'[i].detected = invoices[i].detected
           /\ invoices'[i].status = invoices[i].status
              \/ invoices'[i].status \in {"EXPIRED", "CONFIRMED", "SETTLED"}
  PROVE  DepthInv'
<1>1. \A l \in LivePayments : payments[l].invoice \in InvoiceIds
  BY DEF MoneyInv, PayeesExist, LivePayments
<1>2. recon.lost \subseteq LivePayments
  BY DEF MoneyInv, PassStillGood
<1>3. BlocksNumbered'
  BY DEF DepthInv, BlocksNumbered
<1>4. OpenUndetected'
  BY DEF DepthInv, OpenUndetected, InStatus
<1>5. CountedFromPayment'
  BY <1>1, RowsKept DEF DepthInv, CountedFromPayment
<1>6. ConfirmingIsPaid'
  BY RowsKept DEF DepthInv, ConfirmingIsPaid, InStatus
<1>7. LostAsLoaded'
  BY <1>1, <1>2 DEF DepthInv, LostAsLoaded
<1> QED
  BY <1>3, <1>4, <1>5, <1>6, <1>7 DEF DepthInv

\* Blocks are mined above the genesis block.
LEMMA ChainDepth ==
  ASSUME TypeInv, DepthInv, World
  PROVE  DepthInv'
<1>1. UNCHANGED <<invoices, events, payments, proc, recon>> /\ ChainNext
  BY DEF World, ChainNext, MineBlock, Reorg, tables, sessions
<1>2. head \in Nat /\ onChain \in [Logs -> [block : Nat, fork : Nat]]
  BY DEF TypeInv, TypeOK, ChainTypeOK
<1>3. \A l \in Logs : onChain'[l] # Unmined => onChain'[l].block > 0
  <2>1. ASSUME NEW S, MineBlock(S)
        PROVE  \A l \in Logs : onChain'[l] # Unmined => onChain'[l].block > 0
    BY <1>2, <2>1 DEF MineBlock, DepthInv, BlocksNumbered
  <2>2. ASSUME NEW b \in 1..head,
               NEW place \in [Movable(b) -> {NoBlock} \cup b..head], Reorg(b, place)
        PROVE  \A l \in Logs : onChain'[l] # Unmined => onChain'[l].block > 0
    <3> SUFFICES ASSUME NEW l \in Logs, onChain'[l] # Unmined PROVE onChain'[l].block > 0
      OBVIOUS
    <3>1. CASE l \notin Movable(b)
      BY <2>2, <3>1 DEF Reorg, DepthInv, BlocksNumbered
    <3>2. CASE l \in Movable(b)
      <4>1. place[l] \in {NoBlock} \cup b..head
        BY <3>2
      <4>2. place[l] # NoBlock
        BY <2>2, <3>2 DEF Reorg
      <4>3. onChain'[l] = [block |-> place[l], fork |-> fork']
        BY <2>2, <3>2, <4>2 DEF Reorg
      <4> QED
        BY <1>2, <4>1, <4>2, <4>3
    <3> QED
      BY <3>1, <3>2
  <2> QED
    BY <1>1, <2>1, <2>2 DEF ChainNext
<1>4. BlocksNumbered'
  BY <1>1, <1>3 DEF DepthInv, BlocksNumbered
<1>5. (OpenUndetected /\ CountedFromPayment /\ ConfirmingIsPaid /\ LostAsLoaded)'
  BY <1>1 DEF DepthInv, OpenUndetected, CountedFromPayment, ConfirmingIsPaid, LostAsLoaded,
              InStatus, LivePayments, Paying
<1> QED
  BY <1>4, <1>5 DEF DepthInv

\* A new invoice has no block; a recorded transfer has the one it is mined in.
LEMMA IntakeDepth ==
  ASSUME TypeInv, MoneyInv, DepthInv, Requesting
  PROVE  DepthInv'
<1>1. IntakeNext /\ UNCHANGED <<onChain, proc, recon>>
  BY DEF Requesting, sessions, chainVars
<1>2. /\ \A l \in LivePayments : payments[l].invoice \in InvoiceIds
      /\ recon.lost \subseteq LivePayments
  BY DEF MoneyInv, PayeesExist, PassStillGood, LivePayments
<1>3. ASSUME NEW i \in InvoiceIds, NEW r \in Requests, CreateInvoice(i, r)
      PROVE  DepthInv'
  <2>1. /\ invoices[i].status = "absent"
        /\ invoices' = [invoices EXCEPT ![i] =
             [AbsentInvoice EXCEPT !.status = "AWAITING_PAYMENT", !.amount = r + i]]
        /\ UNCHANGED <<events, payments>>
    BY <1>3, IdsAssumption DEF CreateInvoice
  <2>2. /\ invoices'[i].status = "AWAITING_PAYMENT" /\ invoices'[i].detected = NoBlock
        /\ \A j \in InvoiceIds \ {i} : invoices'[j] = invoices[j]
    BY <2>1 DEF TypeInv, TypeOK, StoreTypeOK, AbsentInvoice
  <2>3. \A l \in LivePayments : payments[l].invoice # i
    BY <2>1 DEF MoneyInv, FreshIsUnpaid, Paying
  <2>4. BlocksNumbered' /\ OpenUndetected'
    BY <1>1, <2>1, <2>2 DEF DepthInv, BlocksNumbered, OpenUndetected, InStatus
  <2>5. CountedFromPayment'
    BY <1>2, <2>1, <2>2, <2>3, RowsKept DEF DepthInv, CountedFromPayment
  <2>6. ConfirmingIsPaid'
    BY <2>1, <2>2, RowsKept DEF DepthInv, ConfirmingIsPaid, InStatus
  <2>7. LostAsLoaded'
    BY <1>1, <1>2, <2>1, <2>2, <2>3 DEF DepthInv, LostAsLoaded
  <2> QED
    BY <2>4, <2>5, <2>6, <2>7 DEF DepthInv
<1>4. ASSUME NEW i \in InvoiceIds, ElapseTtl(i) PROVE DepthInv'
  BY <1>1, <1>4, DepthKept DEF ElapseTtl
<1>5. ASSUME NEW batch \in SUBSET Scanned, IngestEvents(batch) PROVE DepthInv'
  <2>1. UNCHANGED <<invoices, payments>>
    BY <1>5 DEF IngestEvents
  <2>2. \A l \in Logs : \/ events'[l] = events[l]
                        \/ events[l].status = "absent" /\ events'[l].block = onChain[l].block
                           /\ onChain[l] # Unmined
    BY <1>5 DEF IngestEvents, Scanned
  <2>3. \A l \in LivePayments : events'[l] = events[l]
    BY <2>2 DEF MoneyInv, AuditTrailAgrees, LivePayments
  <2>4. BlocksNumbered'
    BY <1>1, <2>2 DEF DepthInv, BlocksNumbered
  <2>5. (OpenUndetected /\ ConfirmingIsPaid)'
    BY <1>1, <2>1 DEF DepthInv, OpenUndetected, ConfirmingIsPaid, InStatus, LivePayments, Paying
  <2>6. CountedFromPayment'
    BY <2>1, <2>3 DEF DepthInv, CountedFromPayment, LivePayments
  <2>7. LostAsLoaded'
    BY <1>1, <1>2, <2>1, <2>3 DEF DepthInv, LostAsLoaded
  <2> QED
    BY <2>4, <2>5, <2>6, <2>7 DEF DepthInv
<1> QED
  BY <1>1, <1>3, <1>4, <1>5 DEF IntakeNext, Creating, Arriving

\* A credit writes the block of the transfer over a row that has none.
LEMMA CreditBlock ==
  ASSUME TypeInv, MoneyInv, DepthInv, CreditEvent
  PROVE  invoices'[proc.invoice].detected = events[proc.log].block
<1> DEFINE l == proc.log
           i == proc.invoice
           new == Credited(proc.row, l)
<1>1. l \in Logs /\ i \in InvoiceIds /\ proc.row \in InvoiceRow /\ i # NoInvoice
  BY CreditWrites, IdsAssumption DEF TypeInv, TypeOK, ProcTypeOK, NoInvoice
<1>2. events[l].block > 0 /\ proc.row.detected = NoBlock
  BY <1>1, CreditWrites DEF DepthInv, BlocksNumbered, OpenUndetected
<1>3. new.detected = events[l].block
  BY <1>1 DEF Credited, InvoiceRow
<1>4. invoices'[i] = Flush(invoices[i], proc.row, new)
  BY <1>1 DEF CreditEvent, TypeInv, TypeOK, StoreTypeOK
<1> HIDE DEF l, i, new
<1> QED
  BY <1>2, <1>3, <1>4 DEF Flush, Column, NoBlock, l, i

\* The processor credits rows without a block, with the block of the event.
LEMMA ProcessorDepth ==
  ASSUME TypeInv, MoneyInv, DepthInv, Processing
  PROVE  DepthInv'
<1>1. ProcNext /\ UNCHANGED <<onChain, recon>>
  BY DEF Processing, chainVars
<1>2. ASSUME UNCHANGED tables, proc'.invoice # NoInvoice => proc'.row.detected = NoBlock
      PROVE  DepthInv'
  <2>1. UNCHANGED <<invoices, events, payments>>
    BY <1>2 DEF tables
  <2>2. (BlocksNumbered /\ CountedFromPayment /\ ConfirmingIsPaid /\ LostAsLoaded)'
    BY <1>1, <2>1 DEF DepthInv, BlocksNumbered, CountedFromPayment, ConfirmingIsPaid,
                      LostAsLoaded, InStatus, LivePayments, Paying
  <2>3. OpenUndetected'
    BY <1>2, <2>1 DEF DepthInv, OpenUndetected, InStatus
  <2> QED
    BY <2>2, <2>3 DEF DepthInv
<1>3. ASSUME NEW l \in Logs, NEW i \in InvoiceIds, MatchEvent(l, i) PROVE DepthInv'
  <2>1. invoices[i].detected = NoBlock
    BY <1>3 DEF MatchEvent, Matching, InStatus, DepthInv, OpenUndetected
  <2>2. UNCHANGED tables /\ proc'.row = invoices[i]
    BY <1>3 DEF MatchEvent
  <2> QED
    BY <1>2, <2>1, <2>2
<1>4. ASSUME NEW l \in Logs, MissEvent(l) PROVE DepthInv'
  BY <1>2, <1>4 DEF MissEvent, ProcIdle
<1>5. CASE AbortProcessor
  BY <1>2, <1>5 DEF AbortProcessor, ProcIdle
<1>6. CASE SkipEvent
  <2>1. UNCHANGED <<invoices, payments>> /\ proc' = ProcIdle
    BY <1>6 DEF SkipEvent
  <2>2. proc.log \in Logs /\ events[proc.log].status = "pending"
    BY <1>6 DEF SkipEvent, TypeInv, TypeOK, ProcTypeOK, MoneyInv, MatchStillGood
  <2>3. \A l \in Logs : events'[l].block = events[l].block
                        /\ (events[l].status = "absent" => events'[l].status = "absent")
    BY <1>6, <2>2 DEF SkipEvent, TypeInv, TypeOK, StoreTypeOK, EventRow
  <2>4. BlocksNumbered'
    BY <1>1, <2>3, BlocksKept
  <2>5. (OpenUndetected /\ ConfirmingIsPaid)'
    BY <2>1 DEF DepthInv, OpenUndetected, ConfirmingIsPaid, InStatus, LivePayments, Paying,
                ProcIdle
  <2>6. (CountedFromPayment /\ LostAsLoaded)'
    <3>1. recon.lost \subseteq LivePayments /\ LivePayments \subseteq Logs
      BY DEF MoneyInv, PassStillGood, LivePayments
    <3> QED
      BY <1>1, <2>1, <2>3, <3>1 DEF DepthInv, CountedFromPayment, LostAsLoaded, LivePayments
  <2> QED
    BY <2>4, <2>5, <2>6 DEF DepthInv
<1>7. CASE CreditEvent
  <2> DEFINE l == proc.log
             i == proc.invoice
  <2>1. /\ l \in Logs /\ i \in InvoiceIds
        /\ Paying(i) = {} /\ payments[l].status = "absent"
        /\ payments'[l].status = "live" /\ payments'[l].invoice = i
        /\ \A k \in Logs \ {l} : payments'[k] = payments[k]
        /\ events[l].status = "pending"
        /\ \A k \in Logs \ {l} : events'[k] = events[k]
        /\ invoices'[i].status = "CONFIRMING"
        /\ \A j \in InvoiceIds \ {i} : invoices'[j] = invoices[j]
        /\ proc' = ProcIdle
    BY <1>7, CreditWrites
  <2>2. invoices'[i].detected = events[l].block
    BY <1>7, CreditBlock
  <2>3. events'[l].block = events[l].block
    BY <1>7, <2>1 DEF CreditEvent, TypeInv, TypeOK, StoreTypeOK, EventRow
  <2> HIDE DEF l, i
  <2>4. LivePayments' = LivePayments \cup {l}
    BY <2>1 DEF LivePayments
  <2>5. \A k \in LivePayments :
          /\ k \in Logs \ {l} /\ payments'[k] = payments[k]
          /\ payments[k].invoice \in InvoiceIds \ {i}
    BY <2>1 DEF LivePayments, Paying, MoneyInv, PayeesExist
  <2>6. BlocksNumbered'
    BY <1>1, <2>1, <2>3 DEF DepthInv, BlocksNumbered
  <2>7. OpenUndetected'
    BY <2>1 DEF DepthInv, OpenUndetected, InStatus, ProcIdle
  <2>8. CountedFromPayment'
    BY <2>1, <2>2, <2>3, <2>4, <2>5 DEF DepthInv, CountedFromPayment
  <2>9. ConfirmingIsPaid'
    BY <2>1, <2>4, <2>5 DEF DepthInv, ConfirmingIsPaid, InStatus, Paying
  <2>10. LostAsLoaded'
    <3>1. recon.lost \subseteq LivePayments
      BY DEF MoneyInv, PassStillGood
    <3> QED
      BY <1>1, <2>1, <2>5, <3>1 DEF DepthInv, LostAsLoaded
  <2> QED
    BY <2>6, <2>7, <2>8, <2>9, <2>10 DEF DepthInv
<1> QED
  BY <1>1, <1>3, <1>4, <1>5, <1>6, <1>7 DEF ProcNext

\* The sweep writes statuses past CONFIRMING and the confirmed block only.
LEMMA SweepDepth ==
  ASSUME TypeInv, MoneyInv, DepthInv, Sweeping
  PROVE  DepthInv'
<1>1. SweepNext /\ UNCHANGED <<onChain, proc, recon>>
  BY DEF Sweeping, chainVars
<1>2. ASSUME UNCHANGED tables PROVE DepthInv'
  BY <1>1, <1>2, DepthKept DEF tables
<1>3. CASE CommitSweep
  <2>1. \A i \in InvoiceIds :
          /\ invoices'[i].detected = invoices[i].detected
          /\ invoices'[i].status = invoices[i].status
             \/ invoices'[i].status \in {"EXPIRED", "CONFIRMED", "SETTLED"}
    BY <1>3, SweepWrites
  <2> QED
    BY <1>1, <1>3, <2>1, SweepWrites, StatusDepth
<1> QED
  BY <1>1, <1>2, <1>3 DEF SweepNext, SelectAwaiting, SelectConfirming, AbortSweep

\* The dispatcher settles at most.
LEMMA DispatchDepth ==
  ASSUME TypeInv, MoneyInv, DepthInv, Sending
  PROVE  DepthInv'
<1>1. DispNext /\ UNCHANGED <<onChain, proc, recon>>
  BY DEF Sending, chainVars
<1>2. ASSUME UNCHANGED <<invoices, events, payments>> PROVE DepthInv'
  BY <1>1, <1>2, DepthKept
<1>3. ASSUME NEW d \in disp.posted, CommitDelivered(d) PROVE DepthInv'
  <2>1. \A i \in InvoiceIds :
          /\ invoices'[i].detected = invoices[i].detected
          /\ invoices'[i].status = invoices[i].status
             \/ invoices'[i].status \in {"EXPIRED", "CONFIRMED", "SETTLED"}
    BY <1>3, SettleWrites
  <2> QED
    BY <1>1, <1>3, <2>1, SettleWrites, StatusDepth
<1> QED
  BY <1>1, <1>2, <1>3
     DEF DispNext, RefuseDelivery, PostDelivery, CommitFailed, AbortDispatch, ElapseBackoff, tables

\* A pass clears the block of every invoice it reopens and marks events
\* without moving them.
LEMMA PassBlocks ==
  ASSUME TypeInv, MoneyInv, DepthInv, CommitPass
  PROVE  /\ \A i \in Reopened : invoices'[i].detected = NoBlock
         /\ \A l \in Logs : events'[l].block = events[l].block
                            /\ (events[l].status = "absent" => events'[l].status = "absent")
<1>1. ASSUME NEW i \in Reopened PROVE invoices'[i].detected = NoBlock
  <2> DEFINE l == CHOOSE k \in Undone : payments[k].invoice = i
  <2>1. l \in Undone /\ payments[l].invoice = i
    BY DEF Reopened
  <2>2. l \in recon.lost
    BY <2>1 DEF Undone
  <2>3. i \in InvoiceIds
    BY PassWrites
  <2>4. recon.rows[i] \in InvoiceRow
    BY <2>3 DEF TypeInv, TypeOK, ReconTypeOK
  <2>5. recon.rows[i].detected = events[l].block /\ events[l].block > 0
    <3>1. events[l].status # "absent" /\ l \in Logs
      BY <2>2 DEF MoneyInv, PassStillGood, AuditTrailAgrees, LivePayments
    <3> QED
      BY <2>1, <2>2, <3>1 DEF DepthInv, LostAsLoaded, BlocksNumbered
  <2> DEFINE new == RolledBack(recon.rows[i], l)
  <2>6. invoices'[i] = Flush(invoices[i], recon.rows[i], new)
    BY <2>3 DEF CommitPass
  <2> HIDE DEF l
  <2>7. new.detected = NoBlock
    BY <2>4 DEF RolledBack, InvoiceRow
  <2> HIDE DEF new
  <2> QED
    BY <2>5, <2>6, <2>7 DEF Flush, Column, NoBlock
<1>2. ASSUME NEW l \in Logs
      PROVE  events'[l].block = events[l].block
             /\ (events[l].status = "absent" => events'[l].status = "absent")
  <2>1. events[l] \in EventRow /\ (l \in recon.lost => events[l].status # "absent")
    BY DEF TypeInv, TypeOK, StoreTypeOK, MoneyInv, PassStillGood, AuditTrailAgrees, LivePayments
  <2>2. events'[l] = IF l \in recon.lost THEN [events[l] EXCEPT !.status = "orphaned"]
                                         ELSE events[l]
    BY DEF CommitPass, Orphaned
  <2> QED
    BY <2>1, <2>2 DEF EventRow
<1> QED
  BY <1>1, <1>2

\* A payment that leaves an invoice takes the invoice's wait with it: either
\* the invoice is reopened, or it was past CONFIRMING for good.
LEMMA PassDepth ==
  ASSUME TypeInv, MoneyInv, DepthInv, Verifying
  PROVE  DepthInv'
<1>1. ReconNext /\ UNCHANGED <<onChain, proc>>
  BY DEF Verifying, chainVars
<1>2. ASSUME UNCHANGED tables, LostAsLoaded' PROVE DepthInv'
  <2>1. UNCHANGED <<invoices, events, payments>>
    BY <1>2 DEF tables
  <2>2. (BlocksNumbered /\ OpenUndetected /\ CountedFromPayment /\ ConfirmingIsPaid)'
    BY <1>1, <2>1 DEF DepthInv, BlocksNumbered, OpenUndetected, CountedFromPayment,
                      ConfirmingIsPaid, InStatus, LivePayments, Paying
  <2> QED
    BY <1>2, <2>2 DEF DepthInv
<1>3. recon' = ReconIdle => LostAsLoaded'
  BY DEF LostAsLoaded, ReconIdle
<1>4. ASSUME UNCHANGED tables, recon'.lost = recon.lost, recon'.rows = recon.rows
      PROVE  DepthInv'
  BY <1>2, <1>4 DEF DepthInv, LostAsLoaded, tables
<1>5. ASSUME NEW latest, NEW S, Rescue(latest, S) PROVE DepthInv'
  BY <1>2, <1>5 DEF Rescue, ReconIdle, LostAsLoaded
<1>6. ASSUME NEW S, ListPayments(S) PROVE DepthInv'
  BY <1>4, <1>6 DEF ListPayments, TypeInv, TypeOK, ReconTypeOK
<1>7. ASSUME NEW l, KeepPayment(l) PROVE DepthInv'
  BY <1>4, <1>7 DEF KeepPayment, TypeInv, TypeOK, ReconTypeOK
<1>8. CASE BreakOff
  BY <1>4, <1>8 DEF BreakOff, TypeInv, TypeOK, ReconTypeOK
<1>9. CASE AbortPass
  BY <1>2, <1>3, <1>9 DEF AbortPass
<1>10. ASSUME NEW l \in recon.todo, LosePayment(l) PROVE DepthInv'
  <2> DEFINE i == payments[l].invoice
  <2>1. l \in LivePayments /\ recon.lost \subseteq LivePayments
    BY DEF MoneyInv, PassStillGood
  <2>2. i \in InvoiceIds /\ invoices[i].status \in Held /\ invoices[i].detected = events[l].block
    BY <2>1 DEF MoneyInv, PayeesExist, CreditedInFull, LivePayments, DepthInv,
                CountedFromPayment
  <2>3. /\ UNCHANGED tables
        /\ recon' = [recon EXCEPT !.todo = @ \ {l}, !.lost = @ \cup {l},
                                  !.rows[i] = invoices[i]]
        /\ CanRollBack(invoices[i].status) \/ invoices[i].status # "CONFIRMING"
    BY <1>10 DEF LosePayment
  <2>4. /\ recon'.lost = recon.lost \cup {l}
        /\ recon'.rows = [recon.rows EXCEPT ![i] = invoices[i]]
        /\ recon.rows \in [InvoiceIds -> InvoiceRow]
    BY <2>3 DEF TypeInv, TypeOK, ReconTypeOK
  <2>5. UNCHANGED <<payments, events, invoices>>
    BY <2>3 DEF tables
  <2>6. \A k \in recon.lost : k # l => payments[k].invoice # i
    BY <2>1 DEF MoneyInv, AtMostOneLivePayment
  <2>7. LostAsLoaded'
    <3> SUFFICES ASSUME NEW k \in recon'.lost
                 PROVE  LET j == payments[k].invoice
                        IN /\ recon'.rows[j].detected = events[k].block
                           /\ CanRollBack(recon'.rows[j].status)
                              \/ invoices[j].status # "CONFIRMING"
      BY <2>5 DEF LostAsLoaded
    <3>1. CASE k = l
      BY <2>2, <2>3, <2>4, <3>1
    <3>2. CASE k # l
      BY <2>4, <2>6, <3>2 DEF DepthInv, LostAsLoaded
    <3> QED
      BY <3>1, <3>2
  <2> QED
    BY <1>2, <2>3, <2>7
<1>11. CASE CommitPass
  <2>1. /\ recon.lost \subseteq LivePayments
        /\ LivePayments' = LivePayments \ recon.lost
        /\ \A l \in Logs : payments'[l].invoice = payments[l].invoice
        /\ \A i \in InvoiceIds \ Reopened : invoices'[i] = invoices[i]
        /\ \A i \in Reopened :
             /\ i \in InvoiceIds
             /\ \E l \in recon.lost : payments[l].invoice = i
             /\ invoices'[i].status = "AWAITING_PAYMENT"
    BY <1>11, PassWrites
  <2>2. /\ \A i \in Reopened : invoices'[i].detected = NoBlock
        /\ \A l \in Logs : events'[l].block = events[l].block
                           /\ (events[l].status = "absent" => events'[l].status = "absent")
    BY <1>11, PassBlocks
  <2>3. LivePayments \subseteq Logs
    BY DEF LivePayments
  <2>4. BlocksNumbered'
    BY <1>1, <2>2, BlocksKept
  <2>5. OpenUndetected'
    BY <1>1, <2>1, <2>2 DEF DepthInv, OpenUndetected, InStatus
  <2>6. CountedFromPayment'
    <3> SUFFICES ASSUME NEW l \in LivePayments'
                 PROVE  invoices'[payments'[l].invoice].detected = events'[l].block
      BY DEF CountedFromPayment
    <3>1. l \in LivePayments /\ l \notin recon.lost /\ l \in Logs
      BY <2>1, <2>3
    <3>2. payments[l].invoice \in InvoiceIds \ Reopened
      BY <2>1, <3>1 DEF MoneyInv, AtMostOneLivePayment, PayeesExist, LivePayments
    <3> QED
      BY <2>1, <2>2, <3>1, <3>2 DEF DepthInv, CountedFromPayment
  <2>7. ConfirmingIsPaid'
    <3> SUFFICES ASSUME NEW i \in InvoiceIds, invoices'[i].status = "CONFIRMING"
                 PROVE  Paying(i)' # {}
      BY DEF ConfirmingIsPaid, InStatus
    <3>1. i \notin Reopened /\ invoices[i].status = "CONFIRMING"
      BY <2>1
    <3>2. PICK l \in LivePayments : payments[l].invoice = i
      BY <3>1 DEF DepthInv, ConfirmingIsPaid, InStatus, Paying
    <3>3. l \notin recon.lost
      BY <3>1, <3>2 DEF DepthInv, LostAsLoaded, Reopened, Undone
    <3> QED
      BY <2>1, <2>3, <3>2, <3>3 DEF Paying
  <2>8. LostAsLoaded'
    BY <1>3, <1>11 DEF CommitPass
  <2> QED
    BY <2>4, <2>5, <2>6, <2>7, <2>8 DEF DepthInv
<1> QED
  BY <1>1, <1>5, <1>6, <1>7, <1>8, <1>9, <1>10, <1>11 DEF ReconNext

-----------------------------------------------------------------------------
\* The empty database measures nothing.
LEMMA InitDepth == Init => DepthInv
<1> SUFFICES ASSUME Init PROVE DepthInv
  OBVIOUS
<1>1. LivePayments = {} /\ InStatus("AWAITING_PAYMENT") = {} /\ InStatus("CONFIRMING") = {}
  BY DEF Init, StoreInit, AbsentPayment, AbsentInvoice, LivePayments, InStatus
<1> QED
  BY <1>1 DEF Init, StoreInit, ChainInit, ProcInit, ReconInit, ProcIdle, ReconIdle, AbsentEvent,
              DepthInv, BlocksNumbered, OpenUndetected, CountedFromPayment, ConfirmingIsPaid,
              LostAsLoaded

\* Every step of every loop keeps it.
LEMMA StepDepth == IInv /\ DepthInv /\ [Next]_vars => DepthInv'
<1> SUFFICES ASSUME IInv, DepthInv, [Next]_vars PROVE DepthInv'
  OBVIOUS
<1>0. TypeInv /\ MoneyInv
  BY DEF IInv
<1>1. CASE World
  BY <1>0, <1>1, ChainDepth
<1>2. CASE Requesting
  BY <1>0, <1>2, IntakeDepth
<1>3. CASE Processing
  BY <1>0, <1>3, ProcessorDepth
<1>4. CASE Sweeping
  BY <1>0, <1>4, SweepDepth
<1>5. CASE Sending
  BY <1>0, <1>5, DispatchDepth
<1>6. CASE Verifying
  BY <1>0, <1>6, PassDepth
<1>7. CASE UNCHANGED vars
  BY <1>7, DepthKept DEF vars, tables, chainVars, sessions
<1> QED
  BY <1>1, <1>2, <1>3, <1>4, <1>5, <1>6, <1>7 DEF Next

\* The block a payment is counted from is its own through every interleaving.
THEOREM DepthInvariance == Spec => []DepthInv
BY InitDepth, StepDepth, Invariance, PTL DEF Spec

\* Nothing of an earlier credit is left on an invoice that can be paid: no
\* live payment, no paid amount, no detected block.
THEOREM OpenUncredited == Spec => []OpenIsUncredited
<1>1. IInv /\ DepthInv => OpenIsUncredited
  BY DEF IInv, MoneyInv, FreshIsUnpaid, DepthInv, OpenUndetected, OpenIsUncredited, InStatus
<1> QED
  BY <1>1, Invariance, DepthInvariance, PTL

\* The sweep's depth test on a CONFIRMING invoice measures a live payment from
\* the block it is recorded in.
THEOREM ConfirmingCountsPayment == Spec => []ConfirmingIsBacked
<1>1. IInv /\ DepthInv => ConfirmingIsBacked
  <2> SUFFICES ASSUME IInv, DepthInv, NEW i \in InStatus("CONFIRMING")
               PROVE  \E l \in Paying(i) :
                        invoices[i].detected = events[l].block /\ events[l].block > 0
    BY DEF ConfirmingIsBacked
  <2>1. PICK l \in Paying(i) : TRUE
    BY DEF DepthInv, ConfirmingIsPaid
  <2>2. l \in LivePayments /\ l \in Logs /\ payments[l].invoice = i
    BY DEF Paying, LivePayments
  <2>3. events[l].status # "absent"
    BY <2>2 DEF IInv, MoneyInv, AuditTrailAgrees, LivePayments
  <2> QED
    BY <2>2, <2>3 DEF DepthInv, CountedFromPayment, BlocksNumbered
<1> QED
  BY <1>1, Invariance, DepthInvariance, PTL
=============================================================================
