----------------------------- MODULE LedgerProofs -----------------------------
(***************************************************************************)
(* The engine implements the credit ledger: a credit maps to Credit, a     *)
(* completed pass to TakeBack, an ingested batch to Record, a skipped      *)
(* event to Ignore, and every other step to none.                          *)
(***************************************************************************)
EXTENDS EngineProofs

\* The mapping of Ledger, as operators to reason about.
Stage   == [l \in Logs |-> events[l].status]
Payee   == [l \in Logs |-> payments[l].invoice]
Balance == [i \in InvoiceIds |-> invoices[i].paid]

\* An empty database is an empty ledger.
LEMMA LedgerStart == Init => Ledger!LedgerInit
BY DEF Init, StoreInit, AbsentEvent, AbsentPayment, AbsentInvoice, Ledger!LedgerInit

\* A ledger that none of the mapped columns moves does not move.
LEMMA LedgerStutters ==
  ASSUME UNCHANGED <<events, payments>>,
         \A i \in InvoiceIds : invoices'[i].paid = invoices[i].paid
  PROVE  UNCHANGED Ledger!ledger
BY DEF Ledger!ledger

\* The credits of the ledger are the live payments of the engine.
LEMMA LedgerCredits ==
  ASSUME MoneyInv, NEW i \in InvoiceIds
  PROVE  Ledger!Credits(i) = Paying(i)
BY DEF Ledger!Credits, Paying, LivePayments, MoneyInv, AuditTrailAgrees

\* Crediting an event is a Credit.
LEMMA CreditRefines ==
  ASSUME TypeInv, MoneyInv, CreditEvent
  PROVE  \E l \in Logs, i \in InvoiceIds : Ledger!Credit(l, i)
<1>0. PICK l \in Logs, i \in InvoiceIds : l = proc.log /\ i = proc.invoice
  BY CreditWrites
<1>1. /\ Paying(i) = {} /\ invoices[i].paid = 0
      /\ events[l].status = "pending" /\ payments[l].status = "absent"
      /\ events'[l].status = "processed"
      /\ \A k \in Logs \ {l} : events'[k] = events[k]
      /\ payments'[l].invoice = i
      /\ \A k \in Logs \ {l} : payments'[k] = payments[k]
      /\ invoices'[i].paid = Value[l]
      /\ \A j \in InvoiceIds \ {i} : invoices'[j] = invoices[j]
  BY <1>0, CreditWrites
<1>2. Ledger!Credits(i) = {}
  BY <1>1, LedgerCredits
<1>3. payments[l].invoice = NoInvoice
  BY <1>1 DEF MoneyInv, PayeesExist
<1>4. Ledger!Moved({l}, "pending", "processed")
  BY <1>1 DEF Ledger!Moved
<1>5. Payee' = [Payee EXCEPT ![l] = i]
  BY <1>1 DEF Payee
<1>6. Balance' = [Balance EXCEPT ![i] = Balance[i] + Value[l]]
  <2>1. 0 + Value[l] = Value[l]
    BY <1>1, ValueAssumption
  <2> QED
    BY <1>1, <2>1 DEF Balance
<1>7. Ledger!Credit(l, i)
  BY <1>1, <1>2, <1>3, <1>4, <1>5, <1>6 DEF Ledger!Credit, Payee, Balance
<1> QED
  BY <1>7

\* The commit of a pass is a TakeBack of the payments it lost; the invoices it
\* does not reopen keep their balance.
LEMMA PassRefines ==
  ASSUME TypeInv, MoneyInv, CommitPass
  PROVE  \E S \in SUBSET Logs, K \in SUBSET InvoiceIds : Ledger!TakeBack(S, K)
<1>0. PICK S \in SUBSET Logs, K \in SUBSET InvoiceIds :
        S = recon.lost /\ K = InvoiceIds \ Reopened
  BY DEF TypeInv, TypeOK, ReconTypeOK
<1>1. /\ S \subseteq LivePayments
      /\ \A l \in Logs :
           /\ payments'[l].invoice = payments[l].invoice
           /\ l \in S => events'[l].status = "orphaned"
           /\ l \notin S => events'[l] = events[l]
      /\ \A i \in InvoiceIds \ Reopened : invoices'[i] = invoices[i]
      /\ \A i \in Reopened :
           /\ i \in InvoiceIds
           /\ \E l \in S : payments[l].invoice = i
           /\ invoices'[i].paid = 0
  BY <1>0, PassWrites
<1>2. Ledger!Moved(S, "processed", "orphaned")
  <2>1. \A l \in S : events[l].status = "processed"
    BY <1>1 DEF MoneyInv, AuditTrailAgrees, LivePayments
  <2> QED
    BY <1>1, <2>1 DEF Ledger!Moved
<1>3. UNCHANGED Payee
  BY <1>1 DEF Payee
<1>4. ASSUME NEW i \in InvoiceIds
      PROVE  \/ Balance'[i] = Balance[i] /\ (Ledger!Credits(i) \cap S = {} \/ i \in K)
             \/ i \notin K /\ \E l \in Ledger!Credits(i) \cap S :
                                Balance[i] = Balance'[i] + Value[l]
  <2>1. CASE i \in K
    BY <1>0, <1>1, <2>1 DEF Balance
  <2>2. CASE i \in Reopened
    <3>1. PICK l \in S : payments[l].invoice = i
      BY <1>1, <2>2
    <3>2. l \in Paying(i) /\ l \in Ledger!Credits(i) \cap S
      BY <1>1, <3>1, LedgerCredits DEF Paying
    <3>3. invoices[i].paid = Value[l] /\ invoices'[i].paid = 0
      BY <1>1, <2>2, <3>1 DEF MoneyInv, CreditedInFull
    <3>4. 0 + Value[l] = Value[l]
      BY <3>1, ValueAssumption
    <3> QED
      BY <1>0, <2>2, <3>2, <3>3, <3>4 DEF Balance
  <2> QED
    BY <1>0, <2>1, <2>2
<1>5. Ledger!TakeBack(S, K)
  BY <1>2, <1>3, <1>4 DEF Ledger!TakeBack, Payee, Balance
<1> QED
  BY <1>5

\* Every step maps to a step of the ledger or to none.
LEMMA StepRefines == IInv /\ [Next]_vars => [Ledger!LedgerNext]_(Ledger!ledger)
<1> SUFFICES ASSUME IInv, [Next]_vars PROVE Ledger!LedgerNext \/ UNCHANGED Ledger!ledger
  OBVIOUS
<1>1. TypeInv /\ MoneyInv /\ StoreTypeOK
  BY DEF IInv, TypeInv, TypeOK
<1>2. ASSUME UNCHANGED <<invoices, events, payments>> PROVE UNCHANGED Ledger!ledger
  BY <1>2, LedgerStutters
<1>3. CASE World
  BY <1>2, <1>3 DEF World, ChainNext, MineBlock, Reorg, tables
<1>4. CASE Requesting
  <2>1. ASSUME NEW i \in InvoiceIds, NEW r \in Requests, CreateInvoice(i, r)
        PROVE  UNCHANGED Ledger!ledger
    <3>1. invoices[i].status = "absent" /\ invoices[i].paid = 0
      BY <1>1, <2>1, IdsAssumption DEF CreateInvoice, MoneyInv, FreshIsUnpaid
    <3>2. \A j \in InvoiceIds : invoices'[j].paid = invoices[j].paid
      BY <1>1, <2>1, <3>1 DEF CreateInvoice, AbsentInvoice, StoreTypeOK
    <3> QED
      BY <2>1, <3>2, LedgerStutters DEF CreateInvoice
  <2>2. ASSUME NEW batch, IngestEvents(batch) PROVE Ledger!LedgerNext
    <3>0. PICK S \in SUBSET Logs : S = {l \in Logs : l \in batch /\ events[l].status = "absent"}
      OBVIOUS
    <3>1. /\ \A l \in S : events[l].status = "absent" /\ events'[l].status = "pending"
          /\ \A l \in Logs \ S : events'[l] = events[l]
          /\ UNCHANGED <<invoices, payments>>
      BY <2>2, <3>0 DEF IngestEvents
    <3>3. Ledger!Moved(S, "absent", "pending")
      BY <3>1 DEF Ledger!Moved
    <3>4. Ledger!Record(S)
      BY <3>1, <3>3 DEF Ledger!Record
    <3> QED
      BY <3>4 DEF Ledger!LedgerNext
  <2>3. ASSUME NEW i, ElapseTtl(i) PROVE UNCHANGED Ledger!ledger
    BY <1>2, <2>3 DEF ElapseTtl
  <2> QED
    BY <1>4, <2>1, <2>2, <2>3 DEF Requesting, IntakeNext, Creating, Arriving
<1>5. CASE Processing
  <2>1. CASE CreditEvent
    <3>1. \E l \in Logs, i \in InvoiceIds : Ledger!Credit(l, i)
      BY <1>1, <2>1, CreditRefines
    <3> QED
      BY <3>1 DEF Ledger!LedgerNext
  <2>2. CASE SkipEvent
    <3>1. PICK k \in Logs : k = proc.log /\ events[k].status = "pending"
      BY <1>1, <2>2 DEF SkipEvent, TypeInv, TypeOK, ProcTypeOK, MoneyInv, MatchStillGood
    <3>2. /\ events'[k].status = "skipped"
          /\ \A l \in Logs \ {k} : events'[l] = events[l]
          /\ UNCHANGED <<invoices, payments>>
      BY <1>1, <2>2, <3>1 DEF SkipEvent, StoreTypeOK, EventRow
    <3>3. Ledger!Moved({k}, "pending", "skipped")
      BY <3>1, <3>2 DEF Ledger!Moved
    <3>4. Ledger!Ignore(k)
      BY <3>2, <3>3 DEF Ledger!Ignore
    <3> QED
      BY <3>1, <3>4 DEF Ledger!LedgerNext
  <2> QED
    BY <1>2, <1>5, <2>1, <2>2 DEF Processing, ProcNext, MatchEvent, MissEvent,
                                  AbortProcessor, tables
<1>6. CASE Sweeping
  <2>1. CASE CommitSweep
    <3>1. ASSUME NEW i \in InvoiceIds PROVE invoices'[i].paid = invoices[i].paid
      <4>1. invoices[i] \in InvoiceRow /\ swp.rows[i] \in InvoiceRow
        BY <1>1 DEF TypeInv, TypeOK, StoreTypeOK, SweepTypeOK
      <4>2. /\ [invoices[i] EXCEPT !.status = "EXPIRED"].paid = invoices[i].paid
            /\ Confirmed(swp.rows[i]).paid = swp.rows[i].paid
        BY <4>1 DEF Confirmed, InvoiceRow
      <4> QED
        BY <2>1, <4>1, <4>2 DEF CommitSweep, Flush, Column
    <3> QED
      BY <2>1, <3>1, LedgerStutters DEF CommitSweep
  <2> QED
    BY <1>2, <1>6, <2>1 DEF Sweeping, SweepNext, SelectAwaiting, SelectConfirming,
                            AbortSweep, tables
<1>7. CASE Sending
  <2>1. ASSUME NEW d \in disp.posted, CommitDelivered(d) PROVE UNCHANGED Ledger!ledger
    <3>1. \A i \in InvoiceIds : invoices'[i].paid = invoices[i].paid
      BY <1>1, <2>1 DEF CommitDelivered, StoreTypeOK, InvoiceRow
    <3> QED
      BY <2>1, <3>1, LedgerStutters DEF CommitDelivered
  <2> QED
    BY <1>2, <1>7, <2>1 DEF Sending, DispNext, RefuseDelivery, PostDelivery, CommitFailed,
                            AbortDispatch, ElapseBackoff, tables
<1>8. CASE Verifying
  <2>1. CASE CommitPass
    BY <1>1, <2>1, PassRefines DEF Ledger!LedgerNext
  <2> QED
    BY <1>2, <1>8, <2>1 DEF Verifying, ReconNext, Rescue, ListPayments, KeepPayment,
                            LosePayment, BreakOff, AbortPass, tables
<1>9. CASE UNCHANGED vars
  BY <1>2, <1>9 DEF vars, tables
<1> QED
  BY <1>3, <1>4, <1>5, <1>6, <1>7, <1>8, <1>9 DEF Next

\* What the loops do to money together, in any interleaving, is what the
\* ledger allows: record once, credit at most once, take back whole credits.
THEOREM EngineImplementsLedger == Spec => ImplementsLedger
BY LedgerStart, StepRefines, Invariance, PTL
   DEF Spec, ImplementsLedger, Ledger!LedgerSpec
=============================================================================
