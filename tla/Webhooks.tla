------------------------------- MODULE Webhooks -------------------------------
(***************************************************************************)
(* app/webhooks.py: dispatch_due_deliveries() sends the due rows one by    *)
(* one and commits after each.  Only this loop takes a row out of          *)
(* `pending`; the rows of one tick may be sent in any order.               *)
(***************************************************************************)
EXTENDS Store

VARIABLE disp   \* the session: row posted, its answer, invoice to settle

NoAnswer == [posted |-> {}, ok |-> FALSE, settles |-> FALSE]

DispTypeOK ==
  /\ disp \in [posted : SUBSET DeliveryRow, ok : BOOLEAN, settles : BOOLEAN]
  /\ \A c, d \in disp.posted : c = d

DispInit == disp = NoAnswer

Due == {d \in deliveries : d.status = "pending" /\ d.due}

Finish(d, status) == (deliveries \ {d}) \cup {[d EXCEPT !.status = status]}

\* No webhook URL, or the SSRF guard: failed, with no retry row.
RefuseDelivery(d) ==
  /\ disp.posted = {}
  /\ d \in Due
  /\ deliveries' = Finish(d, "failed")
  /\ UNCHANGED <<invoices, overdue, events, payments, disp>>

\* The POST is answered (ok: with a 2xx).  The merchant has it from here on,
\* whatever becomes of the commit.  An acknowledged invoice.confirmed settles
\* the invoice if the row loaded now is CONFIRMED.
PostDelivery(d, ok) ==
  /\ disp.posted = {}
  /\ d \in Due
  /\ disp' = [posted |-> {d}, ok |-> ok,
              settles |-> /\ ok
                          /\ d.type = "invoice.confirmed"
                          /\ invoices[d.invoice].status = "CONFIRMED"]
  /\ UNCHANGED tables

\* Mutant: any answer settles.
CommitAnswered(d) ==
  /\ d \in disp.posted
  /\ LET settled == d.type = "invoice.confirmed" /\ invoices[d.invoice].status = "CONFIRMED"
     IN invoices' = [invoices EXCEPT ![d.invoice].status = IF settled THEN "SETTLED" ELSE @]
  /\ deliveries' = Finish(d, IF disp.ok THEN "delivered" ELSE "failed")
  /\ disp' = NoAnswer
  /\ UNCHANGED <<overdue, events, payments>>

\* Mutant: the row is closed and the invoice left CONFIRMED.
CommitUnsettled(d) ==
  /\ d \in disp.posted
  /\ disp.ok
  /\ deliveries' = Finish(d, "delivered")
  /\ disp' = NoAnswer
  /\ UNCHANGED <<invoices, overdue, events, payments>>

\* 2xx: delivered, and the invoice loaded as CONFIRMED settles.
CommitDelivered(d) ==
  /\ d \in disp.posted
  /\ disp.ok
  /\ IF disp.settles
       THEN /\ CanTransition("CONFIRMED", "SETTLED")
            /\ invoices' = [invoices EXCEPT ![d.invoice].status = "SETTLED"]
            /\ deliveries' = Finish(d, "delivered")
                               \cup Enqueued({d.invoice}, "invoice.settled")
       ELSE /\ deliveries' = Finish(d, "delivered")
            /\ UNCHANGED invoices
  /\ disp' = NoAnswer
  /\ UNCHANGED <<overdue, events, payments>>

\* Mutant: one attempt too many.
CommitFailedOnceMore(d) ==
  /\ d \in disp.posted
  /\ ~disp.ok
  /\ deliveries' = Finish(d, "failed") \cup
       (IF d.attempt <= MaxAttempts
          THEN {[d EXCEPT !.attempt = @ + 1, !.due = FALSE]} ELSE {})
  /\ disp' = NoAnswer
  /\ UNCHANGED <<invoices, overdue, events, payments>>

\* Anything else: failed, followed by a retry row after a backoff while
\* attempts remain.
CommitFailed(d) ==
  /\ d \in disp.posted
  /\ ~disp.ok
  /\ deliveries' = Finish(d, "failed") \cup
       (IF d.attempt < MaxAttempts
          THEN {[d EXCEPT !.attempt = @ + 1, !.due = FALSE]} ELSE {})
  /\ disp' = NoAnswer
  /\ UNCHANGED <<invoices, overdue, events, payments>>

\* A crash between the answer and the commit: the row stays due.
AbortDispatch ==
  /\ disp.posted # {}
  /\ disp' = NoAnswer
  /\ UNCHANGED tables

\* A retry's next_retry_at passes.
ElapseBackoff(d) ==
  /\ d \in deliveries
  /\ ~d.due
  /\ deliveries' = (deliveries \ {d}) \cup {[d EXCEPT !.due = TRUE]}
  /\ UNCHANGED <<invoices, overdue, events, payments, disp>>

DispNext ==
  \/ \E d \in Due : RefuseDelivery(d) \/ \E ok \in BOOLEAN : PostDelivery(d, ok)
  \/ \E d \in disp.posted : CommitDelivered(d) \/ CommitFailed(d)
  \/ AbortDispatch
  \/ \E d \in deliveries : ElapseBackoff(d)
=============================================================================
