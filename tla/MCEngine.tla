------------------------------- MODULE MCEngine -------------------------------
(***************************************************************************)
(* Small instances of the engine.                                          *)
(***************************************************************************)
EXTENDS EngineInv, TLC

CONSTANTS l1, l2

\* Both transfers pay invoice 1's amount (Requests = {2}), or one pays each
\* of two invoices.
TwoLogs   == {l1, l2}
SameValue == [l \in TwoLogs |-> 3]
OwnValue  == [l \in TwoLogs |-> IF l = l1 THEN 3 ELSE 4]
OneValue  == [l \in {l1} |-> 3]

Symmetry == Permutations(TwoLogs)

\* Only confirmations are sent: the outcome of the other notifications
\* touches nothing but their own rows.
Quietly ==
  /\ \A d \in disp'.posted : d.type = "invoice.confirmed"
  /\ \A d \in deliveries' : d.type # "invoice.confirmed" => d.status = "pending"

QuietNext == World \/ Requesting \/ Processing \/ Sweeping \/ (Sending /\ Quietly) \/ Verifying
QuietSpec == Init /\ [][QuietNext]_vars

QuietSerialSpec == Init /\ [][SerialNext /\ Quietly]_vars
QuietApartSpec  == Init /\ [][ApartNext /\ Quietly]_vars

\* Nothing is sent: no invoice settles, and no delivery row changes.
SilentNext == World \/ Requesting \/ Processing \/ Sweeping \/ Verifying

FairSpec == QuietSpec /\ Fairness

\* What the reconciler repairs depends on nothing that is sent.  All invoices
\* are for the amount of a transfer, so that they contend for it.
ContendedNext ==
  /\ SilentNext
  /\ \A i \in InvoiceIds : \E l \in Logs : invoices'[i].amount \in {0, Value[l]}
RepairSpec == Init /\ [][ContendedNext]_vars /\ RepairFairness
=============================================================================
