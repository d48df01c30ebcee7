---------------------------- MODULE StateMachine ----------------------------
(***************************************************************************)
(* The invoice lifecycle of app/state_machine.py: the statuses, the LEGAL  *)
(* table and the guard that transition() applies, together with the        *)
(* rollback edges that app/reconciliation.py walks backwards.              *)
(***************************************************************************)

InvoiceStatus ==
  {"CREATED", "AWAITING_PAYMENT", "DETECTED", "CONFIRMING",
   "CONFIRMED", "SETTLED", "EXPIRED"}

LEGAL ==
  [CREATED          |-> {"AWAITING_PAYMENT"},
   AWAITING_PAYMENT |-> {"DETECTED", "EXPIRED"},
   DETECTED         |-> {"CONFIRMING", "AWAITING_PAYMENT"},
   CONFIRMING       |-> {"CONFIRMED", "DETECTED"},
   CONFIRMED        |-> {"SETTLED", "CONFIRMING"},
   SETTLED          |-> {},
   EXPIRED          |-> {}]

\* transition(): staying put is a no-op, a move outside LEGAL raises
\* IllegalTransition.
CanTransition(current, target) ==
  target = current \/ target \in LEGAL[current]

(***************************************************************************)
(* The `prev` table of _apply_reorg.  Its loop follows the edges until     *)
(* AWAITING_PAYMENT; a status outside the table (and not handled before    *)
(* the loop) is a KeyError.                                                *)
(***************************************************************************)
RollbackEdge ==
  [CONFIRMED  |-> "CONFIRMING",
   CONFIRMING |-> "DETECTED",
   DETECTED   |-> "AWAITING_PAYMENT"]

CanRollBack(status) ==
  /\ status \in DOMAIN RollbackEdge
  /\ \A s \in DOMAIN RollbackEdge : CanTransition(s, RollbackEdge[s])
=============================================================================
