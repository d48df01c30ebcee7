------------------------------ MODULE MCRequests ------------------------------
(***************************************************************************)
(* Small instances of the service.                                         *)
(***************************************************************************)
EXTENDS Service, TLC

CONSTANTS l1, l2, c1, c2, k1

\* 0.09 and 0.08, which the ids 1 and 2 make payable with 0.10; an amount of
\* too many decimals; and one of more digits than Precision, taken for 0.09.
TwoLogs    == {l1, l2}
TenUnits   == [l \in TwoLogs |-> 10]
AskedFor   == {[m |-> 9, e |-> 2], [m |-> 8, e |-> 2], [m |-> 105, e |-> 4],
               [m |-> 9000001, e |-> 8]}

Symmetry   == Permutations(TwoLogs) \cup Permutations(Clients)

ASSUME QuotesFit

\* Nothing is sent: what the dispatcher writes is no part of an amount or a key.
Unsent == disp' = NoAnswer /\ \A d \in deliveries' : d.status = "pending"
PatientRun == ServiceInit /\ [][HastyNext /\ Patient /\ Unsent]_allVars
=============================================================================
