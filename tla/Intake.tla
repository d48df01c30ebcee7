------------------------------- MODULE Intake -------------------------------
(***************************************************************************)
(* The two writers behind the HTTP API (app/routes.py), each one database  *)
(* transaction per request: merchants create invoices, and the watcher     *)
(* posts the transfers it finds Lag blocks behind the head.                *)
(***************************************************************************)
EXTENDS Chain

CONSTANT Lag    \* the watcher's CONFIRMATIONS
ASSUME LagAssumption == Lag \in Nat

\* Mutant: the offset of the invoice is left out.
CreateRound(i, r) ==
  /\ invoices[i].status = "absent"
  /\ invoices' = [invoices EXCEPT ![i] =
       [AbsentInvoice EXCEPT !.status = "AWAITING_PAYMENT", !.amount = r]]
  /\ OpenAmountsUnique(invoices')
  /\ UNCHANGED <<overdue, events, payments, deliveries>>

\* create_invoice() for a request of r base units: the id becomes part of
\* the payable amount, and the row is AWAITING_PAYMENT when it is committed.
\* A collision with an open invoice is answered 409 and writes nothing.
CreateInvoice(i, r) ==
  /\ invoices[i].status = "absent"
  /\ CanTransition("CREATED", "AWAITING_PAYMENT")
  /\ invoices' = [invoices EXCEPT ![i] =
       [AbsentInvoice EXCEPT !.status = "AWAITING_PAYMENT", !.amount = r + i]]
  /\ OpenAmountsUnique(invoices')
  /\ UNCHANGED <<overdue, events, payments, deliveries>>

\* An invoice's expires_at passes (noticed only while it is open).
ElapseTtl(i) ==
  /\ invoices[i].status = "AWAITING_PAYMENT"
  /\ overdue' = overdue \cup {i}
  /\ UNCHANGED <<invoices, events, payments, deliveries>>

\* Transfers in the blocks the watcher scans: Lag blocks deep, except that
\* while the head is not above Lag it scans up to the head itself.
Scanned ==
  {l \in Logs : onChain[l] # Unmined /\ (onChain[l].block <= Lag \/ onChain[l].block + Lag <= head)}

\* IngestBatch's amount_base_units > 0: one zero-value transfer has its whole
\* batch answered 422.
Valid(batch) == \A l \in batch : Value[l] > 0

\* Mutant: a transfer mined again is recorded anew.
IngestLatest(batch) ==
  /\ events' = [l \in Logs |->
       IF l \in batch /\ (events[l].status = "absent" \/ events[l].fork # onChain[l].fork)
         THEN [status |-> "pending", block |-> onChain[l].block,
               fork |-> onChain[l].fork]
         ELSE events[l]]
  /\ UNCHANGED <<invoices, overdue, payments, deliveries>>

\* ingest_events(): a batch is stored whole, its duplicates dropped.
IngestEvents(batch) ==
  /\ Valid(batch)
  /\ events' = [l \in Logs |->
       IF l \in batch /\ events[l].status = "absent"
         THEN [status |-> "pending", block |-> onChain[l].block,
               fork |-> onChain[l].fork]
         ELSE events[l]]
  /\ UNCHANGED <<invoices, overdue, payments, deliveries>>

Creating == \E i \in InvoiceIds, r \in Requests : CreateInvoice(i, r)

Arriving ==
  \/ \E i \in InvoiceIds \ overdue : ElapseTtl(i)
  \/ \E batch \in SUBSET Scanned \ {{}} : IngestEvents(batch)

IntakeNext == Creating \/ Arriving
=============================================================================
