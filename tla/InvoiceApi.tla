----------------------------- MODULE InvoiceApi -----------------------------
(***************************************************************************)
(* create_invoice() of app/routes.py as concurrent requests run it: the    *)
(* lookup of the idempotency key, and later the insert and its commit.     *)
(* Keys stands for pairs of a merchant and a key: all lookups are within   *)
(* one merchant.                                                           *)
(***************************************************************************)
EXTENDS Intake, Money

CONSTANTS
  Clients,   \* requests the API serves at the same time
  Keys,      \* (merchant_id, idempotency_key) pairs
  NoKey,     \* a request without a key
  Amounts    \* the decimals merchants send

ASSUME ApiAssumption ==
  /\ NoKey \notin Keys
  /\ Amounts \subseteq Decimals
  /\ {Parse(d) : d \in {a \in Amounts : Accepts(a)}} \subseteq Requests

VARIABLES
  keyOf,      \* the invoices' idempotency_key column
  asked,      \* history: the amount each invoice was created for
  pending     \* per client, the key its request found unused

apiVars == <<keyOf, asked, pending>>

NothingAsked == [m |-> 0, e |-> 0]

ApiTypeOK ==
  /\ keyOf \in [InvoiceIds -> Keys \cup {NoKey}]
  /\ asked \in [InvoiceIds -> Amounts \cup {NothingAsked}]
  /\ pending \in [Clients -> Keys \cup {NoKey}]

ApiInit ==
  /\ keyOf = [i \in InvoiceIds |-> NoKey]
  /\ asked = [i \in InvoiceIds |-> NothingAsked]
  /\ pending = [c \in Clients |-> NoKey]

\* Mutant: an invoice that is not open any more gives up its key.
HoldersOpen(key) ==
  {i \in InvoiceIds : keyOf[i] = key /\ invoices[i].status = "AWAITING_PAYMENT"}

\* The invoices stored with a key.
Holders(key) == {i \in InvoiceIds : keyOf[i] = key}

\* Mutant: the answer of the lookup is not looked at.
FindAny(c, key) ==
  /\ pending[c] = NoKey
  /\ pending' = [pending EXCEPT ![c] = key]
  /\ UNCHANGED <<keyOf, asked, tables>>

\* A request with a key that no invoice holds.  One holder is answered as a
\* replay and several raise MultipleResultsFound; neither writes anything.
FindUnused(c, key) ==
  /\ pending[c] = NoKey
  /\ Holders(key) = {}
  /\ pending' = [pending EXCEPT ![c] = key]
  /\ UNCHANGED <<keyOf, asked, tables>>

\* Mutant: the key and the amount change places.
CommitSwapped(c, i, amount) ==
  /\ Accepts(amount)
  /\ CreateInvoice(i, Parse(amount))
  /\ keyOf' = [keyOf EXCEPT ![i] = amount]
  /\ asked' = [asked EXCEPT ![i] = pending[c]]
  /\ pending' = [pending EXCEPT ![c] = NoKey]

\* The amount is parsed, the row inserted and committed; a request without a
\* key comes here at once.
CommitInvoice(c, i, amount) ==
  /\ Accepts(amount)
  /\ CreateInvoice(i, Parse(amount))
  /\ keyOf' = [keyOf EXCEPT ![i] = pending[c]]
  /\ asked' = [asked EXCEPT ![i] = amount]
  /\ pending' = [pending EXCEPT ![c] = NoKey]

\* 422 for the amount, 409 for the unique index, an error or a crash.
DropRequest(c) ==
  /\ pending[c] # NoKey
  /\ pending' = [pending EXCEPT ![c] = NoKey]
  /\ UNCHANGED <<keyOf, asked, tables>>

ApiNext ==
  \E c \in Clients :
    \/ \E key \in Keys : FindUnused(c, key)
    \/ \E i \in InvoiceIds, amount \in Amounts : CommitInvoice(c, i, amount)
    \/ DropRequest(c)
-----------------------------------------------------------------------------
(***************************************************************************)
(* Properties.                                                             *)
(***************************************************************************)
Created == {i \in InvoiceIds : invoices[i].status # "absent"}

\* Repeating a call with the same key creates no second invoice, whatever has
\* become of the first one: no unique constraint backs the lookup.
OneInvoicePerKey ==
  \A i, j \in InvoiceIds : keyOf[i] = keyOf[j] /\ keyOf[i] # NoKey => i = j

\* The checkout page parses the rendered payable amount for its payment URI:
\* a wallet sends exactly the base units the processor will look for.
QuotesParseBack ==
  \A i \in Created :
    LET quote == Render(invoices[i].amount)
    IN Accepts(quote) /\ Parse(quote) = invoices[i].amount

\* An invoice asks for exactly the amount of its request plus its offset, if
\* that amount has no more digits than Decimal keeps.
ConvertedExactly ==
  \A i \in Created :
    asked[i].m < Limit =>
      (invoices[i].amount - i) * Ten[asked[i].e] = asked[i].m * Ten[Places]
=============================================================================
