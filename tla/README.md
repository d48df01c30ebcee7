# Mpay: specification, model checking and proofs

Mpay accepts USDC payments: merchants create invoices, a watcher posts the
transfers it sees on the chain, and four background loops of the API process
match transfers to invoices, count confirmations, notify merchants and repair
what the chain takes back. This directory models that engine in TLA+, checks it
with TLC on small instances and proves its safety properties with TLAPS for all of them.
Beside the engine stand the watcher, with its checkpoint file and its failures, and
the creation of invoices by concurrent requests.

## 1. The system

| Part | State | Operations | Hard behaviour |
|---|---|---|---|
| State machine (`app/state_machine.py`) | none | `transition` checks one status change of a loaded object | it sees the object, not the stored row |
| Tables (`app/models.py`, `app/db.py`) | `invoices`, `chain_events`, `payments`, `webhook_deliveries`, `merchants` | sessions that load, change and commit rows | an UPDATE names the changed columns and the id only: there is no version or status check |
| Processor (`app/processor.py`) | one session | match, credit or skip one pending event, one commit per event | the match is older than the commit |
| Sweep (`app/confirmations.py`) | one session | expire overdue open invoices, confirm deep payments, one commit | two SELECTs through one identity map, then one commit |
| Dispatcher (`app/webhooks.py`) | one session | POST due deliveries, settle, schedule retries, one commit per row | the POST cannot be undone |
| Reconciler (`app/reconciliation.py`) | one session | re-enqueue lost confirmations, verify payments, roll back, one commit | a long pass with RPC calls inside |
| API (`app/routes.py`) | one session per request | `create_invoice`, `ingest_events`, merchants, reads | creation and ingest race with the loops |
| Watcher (`watcher/*.go`) | a checkpoint file | scan windows behind the head, POST batches, save | crash between POST and save, reorganisations below the checkpoint |
| Node (external) | the chain | height, logs, receipts | reorganisations, failures |
| Money, configuration, pages, scripts | none that changes | parsing, rendering | |

The parts meet in the database only. `main.py` runs each loop in a thread of its
own with a session of its own, again and again whatever it raised (`_repeat`). What
makes each part correct is stated with the properties in section 4.

## 2. Modules

| Module | Models | Main definitions |
|---|---|---|
| `StateMachine` | statuses, `LEGAL`, rollback edges | `CanTransition`, `CanRollBack` |
| `Store` | the tables, unique constraints, what a commit writes | `Flush`, `OpenAmountsUnique`, `Enqueued` |
| `Chain` | the node (external), `get_latest_block` | `MineBlock`, `Movable`, `Reorg`, `LatestBlock` |
| `Processor` | `process_event`, `run_pending` | `MatchEvent`, `MissEvent`, `CreditEvent`, `SkipEvent`, `AbortProcessor` |
| `Confirmations` | `sweep` | `SelectAwaiting`, `SelectConfirming`, `CommitSweep`, `AbortSweep` |
| `Webhooks` | `dispatch_due_deliveries` | `RefuseDelivery`, `PostDelivery`, `CommitDelivered`, `CommitFailed`, `AbortDispatch`, `ElapseBackoff` |
| `Reconciliation` | `reconcile` and its parts | `Rescue`, `ListPayments`, `KeepPayment`, `LosePayment`, `BreakOff`, `CommitPass`, `AbortPass` |
| `Intake` | `create_invoice` and `ingest_events` as one step each, what the watcher may post | `CreateInvoice`, `ElapseTtl`, `Valid`, `IngestEvents` |
| `Watcher` | the process of `watcher/`: poll, windows, batches, checkpoint, crashes; late POSTs | `FirstStart`, `Restart`, `Poll`, `FetchWindow`, `PostBatch`, `PostUnanswered`, `GiveUp`, `SaveWindow`, `CrashWatcher`, `CommitLate`, `DropLate` |
| `Money` | `app/money.py` on exact decimals | `Accepts`, `Parse`, `Render` |
| `InvoiceApi` | `create_invoice` as a lookup and a commit, per client; extends `Intake` and `Money` | `FindUnused`, `CommitInvoice`, `DropRequest` |
| `Engine` | all of them over one `Store` and one `Chain`, with all overlaps (`Spec`) or fewer; the properties | `Next`, `Spec`, `ApartSpec`, `SerialSpec`, `Fairness` |
| `CreditLedger` | the abstract specification: what the engine promises about money | `Record`, `Ignore`, `Credit`, `TakeBack` |
| `Service` | the engine with `InvoiceApi`'s requests in the place of `CreateInvoice`, and their inductive invariants | `HastySpec`, `PatientSpec`, `ServiceInv`, `KeysApart` |
| `EngineInv` | the inductive invariants of the engine | `IInv`, `DepthInv`, `NoticeInv`, `ApartInv`, `SerialInv` |
| `WatcherInv` | the inductive invariant of the watcher | `WInv` |
| `MCEngine`, `MCWatcher`, `MCRequests` | the instances TLC checks | `QuietSpec`, `QuietApartSpec`, `QuietSerialSpec`, `PairedSpec`, `PatientRun`, ... |
| `EngineTypes`, `EngineProofs`, `LedgerProofs`, `DepthProofs`, `NoticeProofs`, `SerialProofs`, `RequestProofs`, `WatcherProofs` | the proofs | section 6 |

### Sessions

A loop's tick is modelled as its reads, one action each, and one commit. Between
two of them any other session, request or block may come. What was read is kept in
the loop's variable (`proc`, `swp`, `disp`, `recon`); the commit applies `Flush`:

* a column that the session changed is overwritten, one that it left alone keeps
  what another session stored meanwhile (SQLAlchemy's UPDATE, `WHERE id = ?`);
* objects already loaded are not refreshed by a later SELECT of the same session
  (the identity map). `StaleConfirming` is where this matters: the sweep's second
  SELECT returns an invoice first loaded as open, whose `detected_block` is still
  None, and adding the threshold to it raises;
* a loop that raises or a process that crashes before its commit leaves nothing
  (`Abort...`). Lock timeouts, lost connections, `KeyError` in `_apply_reorg` and
  unique violations of a commit are all such ends.

These steps are what a database in READ COMMITTED (Postgres) permits. SQLite
takes its write lock at a session's first flush and so narrows some gaps, but
its SELECTs run outside a write transaction: every interleaving that a violation
run of section 4 shows fits in the gap between a SELECT and the first write.

### The watcher

`Watcher` keeps what the process has in memory (`watch`: its own `last`, the target of
the poll, the end of the open window, the transfers of it not posted yet), the state
file (`file`) and the POSTs it stopped waiting for (`late`). A tick is a `Poll` that
reads the height, then per window a `FetchWindow`, one `PostBatch` per batch and a
`SaveWindow`; any failure ends the tick (`GiveUp`) and the next one starts from
`last`. The chain may change between any two of these steps. A save that fails is only
logged, so `file` may lag behind `last` until a restart. A POST that times out, or
whose answer is lost in a crash, may still be committed or dropped at any later time.
The file is replaced by a rename, so a crash never leaves half of it. `since` is a
history variable: the height at which the very first start began.

The engine does not run beside `Watcher`, because it would multiply the states: the engine's modules use
`Intake!IngestEvents` on the transfers of `Scanned` instead, and `PostsAreIngests`
shows that every step `Watcher` takes on `chain_events` is such a step (when
reorganisations are at most `Lag` deep and the first start was above `Lag`).

### Requests

`InvoiceApi` splits `create_invoice` where other requests may come in between: a
request with a key that no invoice holds notes the key (`FindUnused`); parsing, the
insert and the commit are one step (`CommitInvoice`), since nothing read before is
used in them but the key. `Service` puts it in the place of
`Intake!CreateInvoice` beside the loops of the engine. `asked` is a history variable:
the decimal each invoice was created for.

`Money` reads a decimal string as a record [m, e] of value m / 10^e. `Decimal` reads
it exactly and rounds the result of every operation to 28 digits, half to even;
`Rounded` does the same to `Precision` digits. The powers of ten are the recursive
function `Ten`, because the prover knows nothing of `^`.

Abstractions: a transfer is its (tx_hash, log_index) key with a value; a block hash
is the pair of a height and a fork number; block number 0 stands for NULL; the time
enters as `overdue` (TTLs passed), `due` (backoffs passed) and `rank` (the order of
`created_at`, which SQLite keeps in whole seconds: payments may have the same); payload and
signature of a webhook are left out; a refused delivery (no URL, SSRF guard) may happen
to any due row. The rows one dispatcher tick selected may be sent in any order, and
an invoice is read at its POST: an invoice object that the same tick had loaded for
the row just before is not reused (it would only postpone a settlement). Events of
one processor tick are independent sessions, because each ends with a commit and
keeps no invoice object alive.

## 3. Instances and bounds

| Bound | Values | Why enough |
|---|---|---|
| `InvoiceIds` | {1}, {1,2} | an invoice's rows are only related to each other through transfers; two invoices exercise the matching by amount and the index on open amounts |
| `Logs` | 1 to 3 transfers | two for one invoice race for it; one suffices where the question is about one payment's life; the third one of `watching` is of value zero |
| `Value` | equal, distinct, zero | zero only for the watcher: the API refuses the batch |
| `MaxHead`, `MaxForks` | 2 and 1 (4 and 1 in `watching`, 1 where no depth is asked for, no fork in `progress`) | with threshold 1, lag 1 and safety depth 2 this includes payments at, below and above the threshold, inside and outside the window, undone and paid again |
| `MaxDepth` | 1 or 2 | how many blocks a reorganisation replaces; `watching` has it equal to `Lag`, the premise of the watcher's promises; elsewhere every block can be replaced |
| `MaxAttempts` | 1 or 2 | 2 has a retry and a last attempt |
| `RescueCap`, `CrosscheckBatch` | 0 or 1, 1 or 2 | 0 switches the rescue off where no property needs it |
| `MaxBlocks`, `MaxBatch`, `MaxLate` | see `MCWatching.cfg` | windows and batches small enough that a poll needs several and a window is posted in parts; one POST outstanding |
| `Places`, `Precision`, `MaxExcess` | 2, 4, 5 | 6 and 28 in the code: amounts of two decimals and four digits, and one request of seven digits that is rounded; `MaxExcess` bounds the digits cut off and is at least `Places` |
| `Clients`, `Keys` | 2, 1 | two calls with one key at once |
| `MaxRounds` | 1 or 2 | bounds how often the rescue may enqueue again; without it the deliveries table grows forever |

`MaxHead`, `MaxForks`, `MaxDepth`, `MaxRounds`, `MaxLate` and `MaxExcess` are the only
bounds in the modules that model the code; the proofs
hold for every value of those they meet. Transfers of equal value are symmetric, and so
are clients.

Two specifications of `Engine` leave out overlaps, never steps:

* `SerialSpec`: a session opens only while the others are closed;
* `ApartSpec`: the processor and the sweep run alone, the dispatcher and the reconciler
  overlap.

The MC modules restrict the specifications where the full product is too large, always
by leaving steps out, never by merging two:

* `QuietSpec`: all loops interleave; only `invoice.confirmed` rows are sent (the
  outcome of other notifications writes only to their own rows);
* `QuietApartSpec`, `QuietSerialSpec`: `ApartSpec` and `SerialSpec` with the same restriction;
* `FairSpec`: `QuietSpec` with `Fairness`;
* `RepairSpec`: nothing is sent (`SilentNext`), for invoices whose amount some transfer
  has, with `RepairFairness`;
* `PairedSpec` (`MCWatcher`): two transfers belong to one transaction and are always
  mined together, so that a window of one block needs two batches;
* `PatientRun` (`MCRequests`): `PatientSpec` with nothing sent.

`HastySpec` and `PatientSpec` (`Service`) are the loops with requests that repeat a key
at any time, or only after the call before has ended.

The system may come to rest when its bounds are used up; in no run is a state
without a successor reachable (the height can always be read again), so deadlock is
checked everywhere.

## 4. Runs

| Run | Question | Properties |
|---|---|---|
| `credits` | is money exact under every interleaving of the four loops? | see below |
| `apart` | which promises about single invoices and their notifications hold when the processor and the sweep run alone, while the dispatcher and the reconciler overlap? | `AttemptsInSequence`, `NoticeInv`, `ApartInv`, `ExpiredHoldsNoMoney`, `ConfirmedIsBacked`, `OpenMeansUnpaid`, `TerminalUnlessUndone`, `RenotifiedOnlyWhenNeeded` |
| `progress` | does everything due happen? | `EveryEventDecided`, `DeepPaymentsConfirm`, `UnnotifiedIsRescued` |
| `repairs` | is a payment that left the chain undone? | `LostPaymentsUndone` |
| `requests` | do concurrent invoices ask for the right amount and keep their keys? | `IInv`, `ApiTypeOK`, `ServiceInv`, `KeysApart`, `OneInvoicePerKey`, `QuotesParseBack`, `ConvertedExactly` |
| `watching` | does the watcher miss nothing and record nothing that is replaced? | `WatchTypeOK`, `WInv`, `CheckpointCovers`, `RecordsAreFinal`, `PostsAreIngests`, `StableTransfersRecorded` |

What `credits` checks, over about 700 000 states:

* `AtMostOneLivePayment`: an invoice never holds two credits;
* `CreditedInFull`: a live payment is exactly the amount and the paid column;
* `OpenIsUncredited`: a payable invoice has no live payment, no paid amount and no
  `detected_block`; `confirmed_block` may be left on it (`reopened`, below);
* `AuditTrailAgrees`: events and payments agree after every commit;
* `ConfirmingIsBacked`: depth is counted from a live payment's block;
* `SettledWasAcknowledged`: SETTLED only after a 2xx to `invoice.confirmed`;
* `DeliveredMeansSettled`: an invoice is CONFIRMED beside an acknowledged confirmation
  only after a rollback. Such an invoice is hidden from the rescue, which looks for
  any delivered row (`app/reconciliation.py:103`);
* `IInv`, `DepthInv`, `NoticeInv`: what the proofs carry through every step, true of what
  is reachable (`IInv` is also checked with two invoices in `requests`, `NoticeInv` with
  retries and rescues in `apart`);
* `ReopensWithOrphan`: an invoice reopens only in the commit that orphans its payment;
* `ImplementsLedger`: the engine is the credit ledger with `stage` the status of the
  events, `payee` the invoice of the payments and `balance` the paid column.

`ServiceInv` and `KeysApart` in `requests` are the inductive invariants of the service,
`ApartInv` in `apart` that of the engine with fewer overlaps (section 6). What else
`apart` checks, with two transfers, a reorganisation, crashes, retries and rescues:

* `ExpiredHoldsNoMoney`, `ConfirmedIsBacked`, `OpenMeansUnpaid`: what the documentation and
  the tests say of EXPIRED, CONFIRMED and reopened invoices. All three are violated when the sweep
  overlaps with another writer (below);
* `TerminalUnlessUndone`: EXPIRED is never left, and SETTLED only when a pass that had
  loaded the invoice as CONFIRMED, before the settlement was committed, undoes its
  payment. A pass that loads a SETTLED invoice marks the payment and leaves the invoice;
* `AttemptsInSequence`: the attempts of a notification form one chain;
* `RenotifiedOnlyWhenNeeded`: a merchant is told again only of a new confirmation, or when
  everything said before failed.

`UnnotifiedIsRescued` in `progress` promises another announcement to a CONFIRMED invoice whose
confirmations all failed. That is the condition of `_rescue_stuck_confirmations`
(`app/reconciliation.py:101`), and less than `docs/webhooks.md:58` says ("for an invoice
sitting in `CONFIRMED` ... the reconciliation job re-enqueues it"): a row delivered before a
rollback hides that the confirmation of the next payment failed. `DeliveredMeansSettled` says
that this is the only way in which a CONFIRMED invoice has a delivered row.

What `repairs` checks: `LostPaymentsUndone` promises the rollback of a payment that
left the chain while it is inside the reorg window, among the newest that are
re-verified, and `Undoable`. The last names two ways in which every pass dies at the same
row, and with it everything else the pass would do: a lost payment on an EXPIRED
invoice (`KeyError`, `app/reconciliation.py:195`) and an invoice whose amount another
open invoice has taken (`app/models.py:89`). Both happen in the run, which has two
invoices of one amount; without either conjunct the property would be false of the
code.

What `requests` checks, with two clients of which the second repeats a key only when the
call of the first has ended: `OneInvoicePerKey` (in the other form it is violated, below), `QuotesParseBack` (what the
checkout page parses back from the rendered amount is the payable amount) and
`ConvertedExactly` (the payable amount is the request plus the id, for requests of no more
digits than `Decimal` keeps; the longer one of the run is taken for another amount).

What `watching` checks, with crashes, failed saves, refused batches, unanswered
POSTs and one reorganisation as deep as the lag:

* `WInv`: what the proofs about the watcher carry through every step (section 6);
* `CheckpointCovers`: the state file never passes a mined transfer that is not in the
  database;
* `RecordsAreFinal`: what is recorded stays mined in its block;
* `PostsAreIngests`: see section 2;
* `StableTransfersRecorded`: a transfer the lag has passed is recorded, or a
  zero-value transfer in a window that may hold it blocks that window for good
  (`Blocked`: the API answers 422 to the whole batch and the watcher retries it forever).

### What fails, and where

Money is always accounted for; the *statuses* are not always what the
documentation says when loops overlap. Six runs expect a violation:

* `expiry_race`: a credit between the sweep's read and its commit ends EXPIRED
  ("a detected payment never expires", `docs/operations.md:16`). In the other order
  of the commits the processor writes CONFIRMING over the stored EXPIRED ("SETTLED and
  EXPIRED remain terminal", `app/state_machine.py:16`);
* `depth_race`: the sweep confirms an invoice whose payment was rolled back
  between its read and its commit ("depth reached — trustworthy", `docs/checkout.md:45`);
* `void_pass`: an RPC failure keeps the rollbacks already decided in the pass
  ("RPC trouble voids the whole pass", `app/reconciliation.py:233`);
* `stale_notice`: a queued confirmation is posted after the rollback
  ("safe to fulfill", `docs/webhooks.md:9`); this one needs no overlap;
* `replayed_key`: two overlapping calls with one idempotency key create two invoices
  ("returns the original invoice", `docs/api.md:52`), after which the lookup raises for
  every call with that key;
* `reopened`: a pass loads an invoice as CONFIRMING, the sweep commits CONFIRMED with a
  `confirmed_block`, and the rollback writes None over the None it had loaded, which SQLAlchemy
  leaves out of the UPDATE: the open invoice keeps the block
  (`tests/test_reconciliation.py:206` asserts that a rollback clears it). The next
  confirmation overwrites it.

`ExpiredHoldsNoMoney`, `ConfirmedIsBacked` and `OpenMeansUnpaid` hold in `apart`, and
`OneInvoicePerKey` in `requests`: overlap is what breaks them.

## 5. Fairness

`_repeat` starts each loop again after every exception, so each loop takes its next
step again and again. `Fairness` has two parts. `SessionsEnd` is weak fairness: an
open session ends, in a commit or an abort (the HTTP calls have timeouts). The rest is
strong fairness on the steps that carry work: the aborts stand for RPC failures,
lock timeouts and crashes, and they are assumed not to hit every session that has
this work, while each single one may be hit any number of times. Nothing is assumed
of merchants, the chain, the API or the dispatcher: the `progress` properties do not
need a delivery to succeed. A row at which *every* session fails is what this assumption
excludes; two such rows are known, and `LostPaymentsUndone` names them (section 4).

`RepairFairness` asks only for the reconciler: passes that know the height are not
cut short at the same point every time, and an open pass ends. A pass that holds a lost
payment commits again and again only if its commit is possible, so the two ways above
of failing every pass remain.

`WatchFairness`: the process is restarted, its ticker goes on, and every HTTP call ends
by its timeout at the latest (weak fairness); of the windows that got equally far some
get further, as RPC, API and disk do not fail at each of them (strong fairness, on the
number of transfers still to post). The chain and the late POSTs owe nothing.

`progress` has one transfer and no reorganisation (with one, the run takes several
minutes and, for one transfer, passes as well).

## 6. Proofs

Every safety property that a passing run checks is also a theorem. All of them hold for
every value of the constants under the assumptions named in the
modules: ids and requests are positive, values of transfers are natural numbers (zero
included), the sets of ids and transfers are finite (the rounds of a notification are
counted), bounds, lag, window and batch sizes are natural numbers (the last two
positive), the amounts that are accepted parse to members of `Requests`.

| Specification | Theorems |
|---|---|
| `Spec`: any overlap | `Invariance`, `TypeCorrect`, `NoDoubleCredit`, `CreditsInFull`, `AuditTrail`, `ReopeningOrphans`, `EngineImplementsLedger`, `DepthInvariance`, `OpenUncredited`, `ConfirmingCountsPayment`, `NoticeInvariance`, `AttemptsOrdered`, `SettledAcknowledged`, `DeliveredSettles` |
| `ApartSpec`: the processor and the sweep run alone | `ApartInvariance`, `NoMoneyExpires`, `ConfirmedIsDeep`, `OpenOwesEverything`, `TerminalLeftByPass`, `RenotifiesWhenNeeded` |
| `SerialSpec`: no overlap | `TerminalIsFinal` |
| `HastySpec`: any overlap, any calls | `ServiceRunsEngine`, `ServiceInvariance`, `ApiTypes`, `ConvertsExactly`, `QuotesReadBack` |
| `PatientSpec`: calls with one key in turn | `KeysStayApart`, `OneKeyOneInvoice` |
| `WatchSpec` | `WatcherInvariance`, `WatcherTypes`, `CheckpointSafe`, `RecordsFinal`, `PostsRefineIntake` |

### The tables

`EngineTypes` proves `TypeInv` preserved, one lemma per component (`ChainTypes` ...
`PassTypes`), from lemmas about `Flush` and `Enqueued`.

`EngineProofs` proves `Invariance`: `Spec => []IInv`. The properties of the tables
are not inductive: a commit writes what its session read long before. `IInv` adds

* `MatchStillGood`: between match and commit the event stays pending and the matched
  invoice stays without credit, whatever its status becomes. Only the processor
  credits, which is why an overlapping expiry cannot lead to a double credit;
* `PassStillGood`: payments a pass listed or found lost are still live at its
  commit, and the rows it loaded hold them. Only the reconciler orphans;
* `EventsDecide`, `PayeesExist`, `FreshIsUnpaid`: what the tables must say of
  transfers and invoices for these two to be preserved.

`NextTables` says which tables a step can write; `MoneyKept` disposes of the steps that
keep all of them, `StatusWrites` of those that write only statuses, `CreditWrites` and
`PassWrites` treat the two commits that move money. From `Invariance` follow
`TypeCorrect`, `NoDoubleCredit`, `CreditsInFull`, `AuditTrail` and the action property
`ReopeningOrphans`.

`LedgerProofs` proves `EngineImplementsLedger`: Init maps to `LedgerInit`
(`LedgerStart`), a step maps to one of the ledger or stutters (`StepRefines`), using
the invariant in `CreditRefines` and `PassRefines`.

### Depth

`DepthProofs` proves `DepthInv` inductive beside `IInv`. `OpenIsUncredited` and
`ConfirmingIsBacked` speak of `detected_block` in two statuses only, but a stale write can
put a row into either of them from any other. What every step keeps is stronger:
`CountedFromPayment` holds of a live payment in *any* status of its invoice, and
`LostAsLoaded` says that the row a pass has loaded has that block too. The one case that
needs an argument about statuses is a lost payment whose invoice the pass will not roll
back: it was SETTLED when loaded, and cannot wait for depth again while its payment lives.

### Notifications

`NoticeProofs` proves `NoticeInv`. Its first part is about the table alone, as a set of
rows that one write replaces, extends by a retry or extends by a new round
(`RowReplaced`, `RetryAdded`, `FirstsAdded`): `AttemptsInSequence` is inductive with
`RoundsCounted` (a round is the count of first attempts, which no step removes) and
`PostedStillDue` (no other session touches the row whose POST is open). The second part
relates statuses to rows. `UntoldUntilConfirmed` is the strengthening that
`DeliveredMeansSettled` needs: before its first rollback no invoice is announced that is
not CONFIRMED or SETTLED, and none that an open session is about to expire, confirm or
credit, so no such session can bring it back to CONFIRMED. `LateAnswerSettled` speaks of
the answer a dispatcher holds that loaded the invoice in another status.

### Fewer overlaps

`ExpiredHoldsNoMoney`, `ConfirmedIsBacked`, `OpenMeansUnpaid`, `RenotifiedOnlyWhenNeeded`
and that SETTLED and EXPIRED are terminal are the promises that overlap breaks. `SerialProofs`
shows how much of it they can bear. While the processor and the sweep run alone (`ApartSpec`;
the dispatcher and the reconciler may overlap), the first four hold: `ApartInv` says that
what a session is about to write still holds of the tables (`MatchIsOpen`,
`SweepIsCurrent`), that the rows of a rescue still have failed announcements only, that
the invoice of a lost payment is stored as the pass loaded it or was settled since
(`LostAsStored`), and that what is about to settle is CONFIRMED or was rolled back since
(`SettlesConfirmed`). Of the last promise `TerminalUnlessUndone` is what remains there.
`TerminalIsFinal` has it whole under `SerialSpec` (`TerminalStatusesFinal`, which no run
checks): no settlement comes between a pass and the rows it loaded (the lemma
`SerialInvariance`).

None of them is a theorem of `Spec`. For `RenotifiedOnlyWhenNeeded` TLC finds the reason
with two transfers, one reorganisation and `RescueCap` 1: a sweep confirms, from stale rows, an
invoice that a rollback reopened and the processor has matched again; the announcement fails and a
pass decides to repeat it; the processor commits its match, the next sweep confirms and announces
the invoice anew, and the pass commits a second announcement beside it.

### Requests

`ServiceRunsEngine` shows that every step of the service is one of the engine or leaves it
alone, so all theorems of `Spec` hold beside concurrent requests. `ServiceInv` adds that no
session is about to write to an invoice that does not exist and that every amount is still
the one its request was parsed to. `KeysApart` is what `OneInvoicePerKey` needs: the key a
request found unused has no holder, and nobody else is about to store it. `FindUnused`
breaks it if clients do not wait.

`ConvertsExactly` and `QuotesReadBack` need arithmetic that the prover does not have: it
knows nothing of powers, and the induction theorems of the library cannot be used
(below). `LeastNatural` takes their place: a set of naturals has a least element, because
among the intervals 0..k that it bounds, which are finite sets, the library's theorem that strict inclusion
is well-founded on finite sets gives a smallest one. From it follow the recursion equation
of `Ten` (`TenIsPower`), `TenPositive`, `TenSum` and `TenOrder`, by least counterexamples. `UlpIsLeast`
and `RoundedExact` say that an integer whose last digits are zero is rounded to itself if
the others fit the context, `ScaledExact` and `ParseExact` that parsing is then exact, and
`RenderParses` that an amount that fits renders to a decimal that parses back.
`ConvertsExactly` is about requests of at most `Precision` digits, as the property says.
`QuotesReadBack` has a hypothesis, `QuotesFit`: no amount asked for has more than
`Precision` digits. In the code that is 28, and the `BigInteger` columns of `app/models.py` hold
less than 2^63, so no amount that was stored violates it.
TLC evaluates `QuotesFit` on the instance of `requests`.

### The watcher

`WatcherProofs` proves `WatchSpec => []WInv` and from it `CheckpointSafe`,
`RecordsFinal` and `PostsRefineIntake`, under the premise `ShallowReorgs` that the three
properties name (no reorganisation replaces more than `Lag` blocks). `WInv` adds to
them what the process, the window and the unanswered POSTs hold:

* `InOrder`: the file is not ahead of the process, the process not ahead of its window,
  and the window is `Lag` blocks deep, or the chain was not above `Lag`;
* `Progressed`: what lies below `last` is recorded, what lies in the open window is
  recorded or still to be posted;
* `AllFinal`: what was found, given up on or recorded is still mined where it was.

`DeepBlocksStay` is the only fact about the chain: blocks `Lag` deep neither lose nor gain
a transfer. Each action keeps `WInv` by a lemma of its own (`StartKeeps`,
`FetchKeeps`, `SaveKeeps`, ...); `BatchRecorded` says what a committed batch does.

### Only model-checked

* Liveness (`EveryEventDecided`, `DeepPaymentsConfirm`, `UnnotifiedIsRescued`,
  `LostPaymentsUndone`, `StableTransfersRecorded`): fairness and ENABLED are out of the
  prover's reach.
* Induction over data: the library's induction theorems take an operator as a parameter,
  which none of the provers can instantiate. The proofs about `Ten` do without, as above.
* The properties of the violation runs are false of the specifications they are run
  with; the theorems about `ApartSpec` and `PatientSpec` say under which
  restriction four of them hold. `RpcFailureVoidsPass` and `ConfirmedNoticeIsCurrent` hold
  under none of these.

## 7. Not modelled

* merchants, API keys, authentication, read endpoints, pages: no effect on the
  state the loops share;
* payload, signature and SSRF address ranges of webhooks: data no property reads;
* the two reconciliation checks that only write to the log;
* logs that do not decode (more than 63 bits of amount, malformed numbers): the
  watcher skips them for good, and no transfer of the models is one;
* a commit that comes after the answer of its request: `get_db` commits in the exit of a
  dependency, which the installed FastAPI decides when to run. The models take it to
  come first, which the claim of `watcher/loop.go:14` ("the checkpoint only advances after a
  successful ingest") needs;
* reorganisations deeper than the lag, in what the watcher promises: nothing in the
  code looks below the checkpoint again;
* the migration in `ensure_schema`, configuration files, development scripts.

## 8. Plan

Done: the engine, its abstract ledger and the accounting proofs; the watcher, its
crashes and the proofs about its checkpoint; the creation of invoices with keys and
conversions; the repair of lost payments; six disagreements with the documentation
and the tests;
proofs of all safety properties the passing runs check. Next, in this order:

1. An abstract specification of one invoice's notifications (announced, acknowledged,
   taken back) that `Engine` implements, checked as a property and then proved from
   `NoticeInv`.
2. The engine beside the watcher: `PostsAreIngests` and `ServiceRunsEngine` combined into one
   statement about both programs.
3. Liveness of notifications with reorganisations: the rescue cap with more invoices than
   it allows, a burst of payments larger than the batch.
