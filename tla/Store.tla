-------------------------------- MODULE Store --------------------------------
(***************************************************************************)
(* The database of app/models.py as the loops and the API share it: one    *)
(* variable per table.  A session reads rows in one step and commits in a  *)
(* later one; the operators here are what a commit may do to the tables.   *)
(*                                                                         *)
(* A chain event is identified by its (tx_hash, log_index) key, a member   *)
(* of Logs; the UNIQUE constraints on that key make events and payments    *)
(* functions of it.  Value[l] is the transfer's amount_base_units.  Block  *)
(* number 0 stands for NULL.                                               *)
(***************************************************************************)
EXTENDS Naturals, FiniteSets, StateMachine

CONSTANTS
  InvoiceIds,   \* primary keys the invoices table may hand out
  Logs,         \* (tx_hash, log_index) keys of transfers to the hot address
  Value,        \* amount_base_units of each transfer
  Requests,     \* amounts merchants ask for
  MaxAttempts   \* webhook_max_attempts

ASSUME IdsAssumption      == InvoiceIds \subseteq Nat \ {0}
ASSUME FiniteAssumption   == IsFiniteSet(InvoiceIds) /\ IsFiniteSet(Logs)
ASSUME ValueAssumption    == Value \in [Logs -> Nat]
ASSUME RequestsAssumption == Requests \subseteq Nat \ {0}
ASSUME AttemptsAssumption == MaxAttempts \in Nat \ {0}

VARIABLES
  invoices,     \* the invoices table
  overdue,      \* invoices whose expires_at has passed
  events,       \* the chain_events table
  payments,     \* the payments table
  deliveries    \* the webhook_deliveries table

tables == <<invoices, overdue, events, payments, deliveries>>

NoBlock   == 0
NoInvoice == 0

InvoiceRow ==
  [status : InvoiceStatus \cup {"absent"}, amount : Nat, paid : Nat,
   detected : Nat, confirmed : Nat]

AbsentInvoice ==
  [status |-> "absent", amount |-> 0, paid |-> 0,
   detected |-> NoBlock, confirmed |-> NoBlock]

\* block and fork together stand for (block_number, block_hash).
EventRow ==
  [status : {"absent", "pending", "processed", "skipped", "orphaned"},
   block : Nat, fork : Nat]

AbsentEvent == [status |-> "absent", block |-> NoBlock, fork |-> 0]

\* rank is created_at, of which only the order matters; two rows may have the
\* same.
PaymentRow ==
  [status : {"absent", "live", "orphaned"},
   invoice : InvoiceIds \cup {NoInvoice}, rank : Nat]

AbsentPayment == [status |-> "absent", invoice |-> NoInvoice, rank |-> 0]

NoticeType ==
  {"invoice.expired", "invoice.confirmed", "invoice.settled", "invoice.reorgged"}

(***************************************************************************)
(* One row per HTTP attempt.  A notification is an (invoice, type, round): *)
(* round counts the times that type was enqueued for the invoice, and its  *)
(* attempts are numbered from 1.  due: next_retry_at is NULL or passed.    *)
(***************************************************************************)
DeliveryRow ==
  [invoice : InvoiceIds, type : NoticeType, round : Nat, attempt : Nat,
   status : {"pending", "delivered", "failed"}, due : BOOLEAN]

StoreTypeOK ==
  /\ invoices   \in [InvoiceIds -> InvoiceRow]
  /\ overdue    \subseteq InvoiceIds
  /\ events     \in [Logs -> EventRow]
  /\ payments   \in [Logs -> PaymentRow]
  /\ deliveries \subseteq DeliveryRow

StoreInit ==
  /\ invoices   = [i \in InvoiceIds |-> AbsentInvoice]
  /\ overdue    = {}
  /\ events     = [l \in Logs |-> AbsentEvent]
  /\ payments   = [l \in Logs |-> AbsentPayment]
  /\ deliveries = {}

-----------------------------------------------------------------------------
(***************************************************************************)
(* SQLAlchemy's UPDATE names only the columns whose value differs from the *)
(* one loaded, WHERE id = ..., with no check of the stored status: a       *)
(* column another session changed meanwhile is kept if this one left it    *)
(* alone and overwritten if it did not.                                    *)
(***************************************************************************)
Column(stored, loaded, new) == IF new # loaded THEN new ELSE stored

Flush(stored, loaded, new) ==
  [status    |-> Column(stored.status,    loaded.status,    new.status),
   amount    |-> Column(stored.amount,    loaded.amount,    new.amount),
   paid      |-> Column(stored.paid,      loaded.paid,      new.paid),
   detected  |-> Column(stored.detected,  loaded.detected,  new.detected),
   confirmed |-> Column(stored.confirmed, loaded.confirmed, new.confirmed)]

\* The partial UNIQUE index uq_invoices_open_address_amount: a commit that
\* would break it raises IntegrityError instead.
OpenAmountsUnique(rows) ==
  \A i, j \in InvoiceIds :
    /\ rows[i].status = "AWAITING_PAYMENT"
    /\ rows[j].status = "AWAITING_PAYMENT"
    /\ rows[i].amount = rows[j].amount
    => i = j

InStatus(status) == {i \in InvoiceIds : invoices[i].status = status}
LivePayments     == {l \in Logs : payments[l].status = "live"}

\* The delivery rows of one event type of one invoice.
Notices(i, type) == {d \in deliveries : d.invoice = i /\ d.type = type}

\* enqueue(): a first attempt, due at once, for each invoice of S.
Enqueued(S, type) ==
  {[invoice |-> i, type |-> type, attempt |-> 1,
    round |-> 1 + Cardinality({d \in Notices(i, type) : d.attempt = 1}),
    status |-> "pending", due |-> TRUE] : i \in S}
=============================================================================
