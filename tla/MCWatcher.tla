------------------------------ MODULE MCWatcher ------------------------------
(***************************************************************************)
(* A small instance of the watcher: two transfers of one transaction, so   *)
(* of one block, and a zero-value transfer, on a chain that loses its last *)
(* Lag blocks once.                                                        *)
(***************************************************************************)
EXTENDS WatcherInv, TLC

CONSTANTS l1, l2, zero

WatchedLogs  == {l1, l2, zero}
WatchedValue == [l \in WatchedLogs |-> IF l = zero THEN 0 ELSE 3]

PairedNext ==
  \/ ChainNext /\ onChain'[l1] = onChain'[l2] /\ UNCHANGED watchVars
  \/ Watching
PairedSpec == AllInit /\ [][PairedNext]_allVars /\ WatchFairness
=============================================================================
