-------------------------------- MODULE Service --------------------------------
(***************************************************************************)
(* The engine of app/main.py with the requests of its API: create_invoice  *)
(* as InvoiceApi has it, in lookup and commit, takes the place of Intake's *)
(* CreateInvoice.                                                          *)
(***************************************************************************)
EXTENDS EngineInv, InvoiceApi

allVars == <<vars, apiVars>>

ServiceInit == Init /\ ApiInit

Loops ==
  \/ World
  \/ Arriving /\ UNCHANGED <<chainVars, sessions>>
  \/ Processing
  \/ Sweeping
  \/ Sending
  \/ Verifying

\* A client that gives up on a call repeats it while the API still serves it.
HastyNext ==
  \/ ApiNext /\ UNCHANGED <<chainVars, sessions>>
  \/ Loops /\ UNCHANGED apiVars
HastySpec == ServiceInit /\ [][HastyNext]_allVars

\* A call with a key is repeated only when the one before has ended.
Patient == \A c, d \in Clients : pending'[c] = pending'[d] /\ pending'[c] # NoKey => c = d
PatientSpec == ServiceInit /\ [][HastyNext /\ Patient]_allVars
-----------------------------------------------------------------------------
(***************************************************************************)
(* The inductive invariants behind the properties of InvoiceApi.           *)
(***************************************************************************)

\* No session is about to write to an invoice that was not created.
SessionsCreated ==
  /\ swp.expiring \cup swp.confirming \subseteq Created
  /\ disp.settles => \A d \in disp.posted : d.invoice \in Created

\* The amount of every invoice is still the one its request was parsed to,
\* plus its offset: no credit, rollback or stale write changes it.
AmountsAsAsked ==
  \A i \in Created :
    /\ asked[i] \in Amounts /\ Accepts(asked[i])
    /\ invoices[i].amount = Parse(asked[i]) + i

ServiceInv == ApiTypeOK /\ SessionsCreated /\ AmountsAsAsked

\* What a request found unused nobody else holds or is about to take.
KeysApart ==
  \A c \in Clients :
    pending[c] # NoKey =>
      /\ Holders(pending[c]) = {}
      /\ \A d \in Clients : pending[d] = pending[c] => d = c

\* No amount asked for needs more digits than Decimal keeps.
QuotesFit == \A i \in InvoiceIds, r \in Requests : r + i < Limit
=============================================================================
