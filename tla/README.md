# fin-ledger in TLA+

Models, model-checking runs and machine-checked proofs about the payment and
ledger service of this repository (`apps/fin-ledger-pos`, with the shared
`packages/`). Every definition is translated from the TypeScript source;
`PROJECT.json` maps each one to the lines it stands for.

Below, `common/` is `apps/fin-ledger-pos/src/common/`.

## 1. The system

A NestJS HTTP service over PostgreSQL (through Kysely, and through `pg`
directly for the wallet ledger) and Redis, with Xendit as payment gateway.
Requests interleave at every `await`; several processes may serve one
database. PostgreSQL runs at its default level, READ COMMITTED, so a handler
is safe only through the locks it takes, the constraints of the tables, and the
`WHERE` clauses of its updates.

### Components

| Component | State | Operations | Modelled by |
| --- | --- | --- | --- |
| Payments (`payments/payments.service.ts`) | `payments`, `payment_ledger` | create, edit, cancel, two captures that read `FOR UPDATE` | `PaymentLifecycle` |
| Captures (`payments/captures`) | the same rows | cash and card capture, cancel, reverse, all without a lock | `PaymentLifecycle` |
| Tips (`payments/tips`) | `tip_amount`, `payment_ledger` | adjust a tip, post the delta | `PaymentLifecycle` |
| Webhooks (`payments/webhooks`) | `webhook_events`, `payments`, `payment_ledger` | one handler for every notification of the gateway | `Webhooks` |
| Refunds (`payments/refunds`) | `refunds`, `payments`, `payment_ledger` | issue, change the status | `Refunds` |
| Disputes (`payments/disputes`) | `disputes`, `payments`, `payment_ledger` | respond, decide | `Aftermath` |
| Split tender (`payments/splits`) | `payments`, `payment_ledger` | insert several payments at once | `Aftermath` |
| Revenue report (`finance/finance.service.ts`) | none | sums over payments and refunds | `Aftermath` |
| Gateway sessions (`gateway/gateway.service.ts`) | sessions at Xendit; `payments` | create, look up, retry, cancel a session | `GatewaySessions` |
| Wallet ledger (`ledger`) | `account_snapshots`, `ledger_entries`, a hash chain per account | transfer, open an account | `Transfers` |
| Idempotency (`packages/interceptors`) | markers and answers in Redis, with a TTL | around every transfer call | `IdempotentCalls` |
| Shifts (`shifts`) | `shifts`, `cash_drops` | open, drop cash, close, force-close, audit | `Tills` |
| Daily reconciliation (`reconciliation`) | `daily_reconciliations`, `shifts` | summarise a day, close it | `Tills` |
| Fees (`finance/fees`) | `fee_schedules`, the fee columns of `payments` | create and edit schedules, take a capture's fees | `BackOffice` |
| Gateway configuration (`gateway/gateway-config`) | credentials in memory, a JSON column | read, patch | `BackOffice` |
| Payment methods, terminals, settlements | their own rows | create, update, mark paid | `BackOffice` |
| Migrations and seed (`db`) | the schema, `kysely_migration` | migrate, seed | `Migrations` |
| Nightly wallet audit (`ledger/reconciliation.service.ts`) | none | compare the two sums, log | its equality: `Transfers` |
| Checkout, receipts, other reports, health, bootstrap | none | queries, pages, wiring | section 6 |

Not everything is reachable: `app.module.ts:22-46` mounts Ledger, Reports, Fees,
Settlements, Reconciliation, Webhooks, Gateway, Terminals, Shifts, Payments,
PaymentMethods, Redis and Health. Captures, Refunds, Tips, Splits, Disputes,
Receipts, Finance, Checkout and Currencies are not mounted, the captures of
`payments.service.ts` have no route, nothing writes the status `AUTHORIZED`, and
the nightly audit is not a provider of `ledger.module.ts`. The models take the
set of exposed handlers as a constant (`Handlers`), so that each run and each
theorem says for which deployment it speaks.

### What is hard, and what makes each component correct

* **One payment, many handlers.** They write the same row and post to the same ledger,
  and most read without a lock and check what they read. Correct means: the money is
  taken once, on the amount the fees are taken from; the status is explained by the
  ledger; a rule such as "only edit if PENDING" holds of the row that is written, not
  of the row that was read.
* **At-least-once webhooks.** Deliveries are duplicated, simultaneous, repeated after a
  lost answer, and out of order; a delivery can crash, or be the victim of a deadlock
  with another. Correct means: answered only when on record, applied once, answered in
  the end.
* **Sessions the program keeps no record of.** The amount was read before the gateway
  was asked; a session may be paid while it is being replaced or cancelled. Correct
  means: what a customer paid is posted, in full and once.
* **Transfers.** Two row locks per transfer, in opposite directions, and a chain per
  account. Correct means: no overdraft, no deadlock, entries that add up, a chain whose
  every fork is accounted for, and one transfer per key however often the client repeats
  it.
* **Refunds and disputes.** Sums of other rows, checked without a lock. Correct means:
  no more goes back than came in, and ledger, status and report agree about it.
* **Shifts and day close.** Sums of drops and sales read before the status is written;
  a summary read through a second connection of a limited pool, outside the transaction
  that force-closes. Correct means: a count is of the drawer, a discrepancy is flagged,
  a closed day's record stays that of its shifts, and nobody waits for ever.
* **Tables edited by hand.** Schedules change while captures use them, a JSON column is
  read, merged and written back. Correct means: the parts of a stored fee add up, and a
  write loses nothing but to a race on its row.

The hazards, each at its line, are listed in `PROJECT.json` under `hazards`, with
the properties that watch them.

## 2. Modules

| Module | What it is |
| --- | --- |
| `PaymentTypes` | the rows of `payments` and `payment_ledger`, reduced to the columns that handlers branch on or properties relate |
| `PaymentRows` | the tables under READ COMMITTED: who has read what, which row locks are held, when a transaction commits |
| `PaymentLifecycle` | the handlers of Payments, Captures, Tips, and the session cancellation; their properties |
| `PaymentAccounting` | sums over the ledger |
| `PaymentContract` | the abstract specification: each handler as one indivisible operation |
| `Webhooks` | the gateway's deliveries and the webhook handler, composed with `PaymentLifecycle` |
| `Refunds` | refunds, composed with `PaymentLifecycle` |
| `Aftermath` | disputes, split tenders and the revenue report, composed with `Refunds` |
| `GatewaySessions` | checkout sessions, over `PaymentContract` |
| `TransferContract` | the abstract specification: a transfer is one movement of money |
| `Transfers` | `executeTransfer`, `createAccount`, the hash chain |
| `IdempotentCalls` | guard, interceptor and exception filter around a transfer, over `TransferContract` |
| `Tills` | shifts, cash drops, day close, the pool of connections |
| `BackOffice` | payment methods, gateway settings, fee schedules and fees, settlements, terminals |
| `Migrations` | the migration files and the seed |
| `SumTheorems` | lemmas about sums over finite sets, which the proofs share |
| `...Proofs` | theorems about the module so named; `PaymentLifecycleProofs` has those about `Webhooks` and `PaymentAccounting` too |
| `MC...` | instances for TLC |

Composition is by EXTENDS, the next-state relation of the composition being the union:
a delivery, a refund, a dispute and a client's request run in the same tables, under
the same locks. Two modules stand on an abstract specification instead: `GatewaySessions`
takes the payment's own handlers as `PaymentContract` has them, and `IdempotentCalls`
the transfer as `TransferContract` has it; `Webhooks` and `Transfers` are shown to
implement those (`ImplementsContract`).

### How state and actions correspond to the code

**A request is what it reads, and what it commits.** Under READ COMMITTED nobody sees a
transaction's writes before its `COMMIT`, so all its writes and the `COMMIT` are one step;
everything between its read and that step is time in which others run. `txn[r]`
(`job[j]`, `req[r]`, `call[c]`) holds what was read, which the handler's code goes on
using (for instance `payment.amount` in `cancelPayment`), whereas an `UPDATE` that sets
one column leaves the others as they are by then. A request may be rolled back at any
time: a statement failed, or the process died.

**Locks.** `FOR UPDATE` waits for every other lock of the row (`MayLock`). An `UPDATE`, and
the foreign key check of an `INSERT`, wait for a `FOR UPDATE` and not for each other
(`MayWrite`). A delivery that has inserted its `webhook_events` row holds the payment
`FOR KEY SHARE`; two such deliveries can no longer lock the row, and PostgreSQL rolls one
back (`DeadlockVictim`).

**Rows.** A payment is a status, an amount, a channel, a tip, its idempotency key and
`feeBase`, the amount the fee snapshot was computed from (0: no snapshot). Amounts are
small naturals. A ledger entry is a type and a signed amount. `BackOffice` has the fee
columns themselves: amounts are in the last digit a `decimal(19,4)` keeps, rates in units
of 1 / `Scale`, so that a product is exact in integers and `Stored` is the rounding of a
column. The doubles the code computes with are not modelled beyond that: a tie may be
rounded either way.

**Webhooks.** A delivery is looked up by event id, logged, locks its payment, and applies
its event; only the last step commits. The event id is the payload's, or else the
millisecond (`IdsOf`). A delivery not answered 2xx starts again (`Redeliver`). A
payload's `id` and `event_id` are one id in the model, and whether it reports a success
or a failure is part of the notification (`isSuccessEvent` and `isFailedEvent` are
independent tests, so both may hold; `StatusAfter` follows the code's order then).

**Sessions.** A session lives at the gateway: created by a request whose answer may be
lost, then paid, expired, or paid although the program has asked to expire it; what
became of it reaches the program as a notification, which may come late. The lookup
takes any of the payment's invoices, for the gateway's list has no order the program
relies on. Which channel a method resolves to (`gateway.service.ts:23-49`) decides only
between an invoice and a direct request, and is a choice in the model.

**Transfers and calls.** A transfer locks its two accounts in the order of their ids,
checks under the locks, then pays. A `SELECT ... FOR UPDATE` of a missing row locks nothing.
`account_snapshots` and `ledger_entries` are not in the migrations; `created_at` is taken to
be `DEFAULT now()`, the start of the transaction, as every `created_at` of the migrations is.
The last hash of each account is read (`ReadHashes`) some awaits before the entry is
committed (`Pay`). In front of it stands
the marker: `GET`, `SET PROCESSING`, and after a success `SET COMPLETED`, each a step (an
error leaves the marker as it is); a Redis command may fail, the process may die between
any two of them, and a marker set with `EX` may expire.

**Tills.** Inside a transaction a request holds a connection of the pool; outside, each
statement borrows one. `closeDailyReconciliation` reads its summary through a second
connection while it holds the first, as several `SELECT`s that are one step in the model:
a request that cannot get a connection in time fails (`TimesOut`). Drops and sales of a
shift are kept as sums. `sales` is what `closeShift` would sum: the payments of the shift that
are `CAPTURED` at the moment. A capture adds to it (`CashSale`); `updateRefundStatus`, a
reversal, a lost dispute and `cancelCheckoutSession` take a payment's whole amount out of it,
whatever was paid back (`SaleUndone`); `issueRefund` pays back and leaves the sum as it is
(`SaleRefunded`). The history variable `drawer` keeps beside it what is in the drawer. The
audit always fails, because the table it inserts into exists in no migration.
`shifts.total_cash_drops`, and the sum of it in a day's record, are left out: nothing writes
the column but its default (`shifts.service.spec.ts:119` titles a test as if a drop did).

**Settings.** A stored configuration is a function on some of its fields. What a PATCH writes
keeps only the settings `UpdateGatewayConfigDto` has no field for (`Foreign`), and adds those
the request names: the DTO is an instance with every field its own, so a field the request
does not name hides the stored one (`gateway-config.service.ts:213`).

**Revenue.** `NetRevenue` is evaluated in one state; the report issues two `SELECT`s, between
which a refund may commit: a figure that is wrong for that reason is not modelled.

**History variables.** `raced`, `overlap`, `spoiled`, `overlapped` and `lapsed` record that two
requests worked on one row together, or that a marker expired; `drawer` is the cash that is
there. No guard of a handler reads them. The
properties that except such rows say exactly where the code has no protection, and that
this is the only way in which they fail.

## 3. Runs

| Run | Question | Outcome |
| --- | --- | --- |
| `Lifecycle` | all handlers of a payment racing: status explained, fees of the captured amount; does anything but an overtaken request break the contract, or the tips | holds |
| `Webhooks_safety` | the mounted payment handlers beside duplicates without an id, a failure, a notification without a payment, and a crash | holds |
| `Webhooks_live` | deliveries, keyed creations and locked captures as indivisible operations; one payment per key; every notification of a known payment is answered | holds |
| `Webhooks_edit_race` | "Only edit if PENDING" beside a webhook | violated |
| `Sessions` | sessions created, retried, cancelled, paid, lapsed and paid late: what was paid is posted, once; an ended session settles its payment | holds |
| `Splits` | a split stored, retried and raced by its retry, with rows left for a second charge: charged once | holds |
| `Aftermath` | refunds, disputes, splits and reversals of the same payments: money back stays within the payment, ledger, status and report agree | holds |
| `Transfers` | overdraft, balances and entries, where chains fork, indivisible movements; transfers in opposite directions end | holds |
| `Calls` | one key, repeated calls, failing Redis, crashes: one transfer, true answers, no key blocked by calls that succeeded | holds |
| `Tills` | drops, sales, refunds, closes and day closes over an exhausted pool: counts, flags, the day's record; every request is answered | holds |
| `BackOffice` | fees and their schedules, settings, settlements, terminals | holds |
| `Migrations` | does a fresh database get its schema | violated |

Every property of a passing run has a mutant in `PROJECT.json`: an operator beside the
one it replaces (`Mutant of ...`) that makes a plausible mistake, such as a lock dropped,
a check not made, the wrong sign, and that TLC catches under the same configuration.

### Bounds, and why they are enough

* Payments: one row for the races on a row (rows do not interact except through keys and
  sums), two where keys, splits or millisecond ids are the question.
* Requests: five clients (create, and four racing: two writers of each kind in any order)
  with at most three in flight in `Lifecycle`: a request, one that overtakes it, and one
  that overtakes both.
* Deliveries: four in `Webhooks_safety` (two of one event, a failure of the same payment,
  one without a payment) beside three clients, three in `Webhooks_live` beside two; one
  crash (`MaxCrashes`), which may hit any delivery at any step. Two instants of `Date.now()`
  let a duplicate get the same event id or another one.
* Amounts 1 and 2, tips 0 to 2: enough for an edit to change an amount and for two tips to
  differ.
* `Aftermath`: two payments, two refunds, one dispute decided up to twice, one split key
  with two parts, three jobs and one client. One job has to store the split that makes the
  payments; the other two race or follow each other on them, beside the client's reversal,
  the dispute, and refunds requested from outside. A refund of 1 of 2 is partial, two make
  it whole. `Splits` has rows for two splits and three jobs: one that stores it, its retry,
  and a third call beside either; no refunds and disputes.
* `Sessions`: two sessions, two calls and both amounts of one payment: a retry while the
  first session is paid, an edit while a session is open.
* Transfers: three calls of amount 1, two wallets holding 1 and a third opened later: two
  transfers are affordable one by one and not together, and three entries can meet in one
  chain. Three wallets make a cycle of waiting possible.
* `Calls`: three calls of one key and body and calls without a key; wallets that can
  afford two of them, one, or none.
* `Tills`: one shift, three requests, two days and a pool of two connections, which two
  closes exhaust (25 in the code); a third request makes a second race after the first.
  Cash up to 2: a sale can be paid back in part.
* `BackOffice`: two schedules, with and without a channel; `Scale` = 10 and an amount of 5
  make base fee and VAT leave a remainder; one term has `min` above `max`; three requests,
  two of them racing. `Migrations`: two runs of the migrator at once.
* Symmetry: requests, jobs, refunds and payments are interchangeable, and symmetry is used
  only in runs without liveness.

A deadlock is a violation in every run but `Sessions`, `Calls` and `Migrations`, where the
bounded sets of calls and runs are used up, and nothing more happens.

### Fairness

* `FairWSpec` (`Webhooks`): a client's request that has read goes on to write (weak), and
  each delivery takes its steps (weak): Node's event loop starves no continuation, and
  the gateway repeats what is not answered. Getting a row lock or inserting a key under
  contention is strongly fair: PostgreSQL queues the waiters. A delivery is a victim of
  a deadlock only while the other holds its share, so strong fairness is what rules out
  that the same two deliveries collide for ever; with more than the detector's random
  choice and Xendit's growing delays behind it, that is an assumption about the
  environment.
* `FairSessionsSpec`: an ended session is notified (weak): the gateway repeats.
* `FairSpec` of `Transfers` and of `Tills`: a request that has begun takes its steps, among
  them the pool's timeout (weak): each runs once.

No client is made to send a request, and rollbacks and crashes are never forced.

## 4. Proofs

TLAPS proves these for every number of payments, requests, deliveries, shifts, calls,
accounts and amounts, and every terms of a schedule. The only assumptions are the named
ones on constants and those a theorem states.

| Theorem | Says |
| --- | --- |
| `PaymentLifecycleProofs`: `TypeCorrect`, `LockedRowIsStable`, `StatusIsExplained`, `FeesMatchCapture`, `KeysAreUnique` | `[]TypeOK`, `[]LockProtectsRow`, `[]LedgerExplainsStatus`, `[]FeesAreOfCapturedAmount`, `[]OnePaymentPerKey` |
| ... `CapturedOnce` | `[]CapturedAtMostOnce`, if `CapturesLock`: the unlocked captures are not exposed |
| ... `OvertakenAloneBreakContract`, `TipsDriftOnlyByStaleReads` | `OnlyOvertakenBreakContract`, `TipsDriftByStaleReads`, for all handlers |
| ... `DeliveriesKeepContract` | `OnlyOvertakenBreakContract` with deliveries, if `OneOutcome` |
| ... `WTypeCorrect`, `WebhookLocksRow`, `WebhookStatusIsExplained`, `WebhookFeesMatch`, `WebhookKeysAreUnique`, `WebhooksCaptureOnce` | the same with deliveries |
| ... `AnswersAreLogged` | `[]AnsweredIsLogged` |
| ... `SuccessIsProcessed` | `[]AnsweredSuccessIsProcessed`, if `OneEventPerId` |
| ... `LockedImplementsContract` | `ImplementsContract` for deliveries beside creations and locked captures, interleaved, if `OneOutcome` |
| `AftermathProofs`: `AftermathTypeCorrect`, `TerminalRefundIsFinalAlways`, `OnlyRefundsReviveAlways` | `[]AftermathTypeOK`, `TerminalRefundIsFinal`, `OnlyRefundsRevive` |
| ... `RefundsStayWithinPayment`, `StatusIsOfRefunds`, `LedgerFollowsMoneyBack`, `NetRevenueIsOfLedger` | `[]RefundsWithinPayment`, `[]StatusTellsRefunds`, `[]LedgerFollowsReturns`, `[]NetRevenueIsLedgerNet` |
| ... `SplitsAreChargedOnce` | `[]SplitChargedOnce`, if always `ClientKeysAreBare` |
| `GatewaySessionsProofs`: `SessionsTypeCorrect`, `PaidIsPostedAlways`, `NoSecondChargeAlways` | `[]SessionsTypeOK`, `[]PaidIsPosted`, `[]NoSecondCharge` |
| `TransfersProofs`: `TypeCorrect`, `LocksAreExclusive`, `NeverOverdrawn`, `BalancesAreExplained` | types, mutual exclusion, `[]NoOverdraft`, `[]EntriesExplainBalance` |
| ... `Refinement` | `Spec => ImplementsContract` |
| ... `ChainForksBehindOvertaken` | `[]ChainSkipsOvertaken` |
| `IdempotentCallsProofs`: `FrontTypeCorrect`, `SuccessWasMadeAlways`, `MadeOnceAlways`, `BlockedForAReasonAlways` | `[]FrontTypeOK`, `[]SuccessWasMade`, `[]MadeOncePerKey`, `[]BlockedForAReason` |
| `TillsProofs`: `TypeCorrect`, `CountIsExactAlways`, `ForceClosedFlaggedAlways`, `DayRecordAddsUpAlways`, `DayClosedOnceAlways` | `[]TypeOK` and the four safety properties of `Tills` |
| `BackOfficeProofs`: `BackOfficeTypeCorrect`, `FeesAddUpAlways`, `PatchKeepsForeignSettingsAlways`, `SettledOnceAlways` | `[]TypeOK`, `[]FeesAddUp`, `PatchKeepsForeignSettings`, `SettledOnce` |
| ... `FeesKeepTheirLimits` | `[]FeeIsWithinLimits`, if `VatAboveMinusOne` |

So every safety property that a passing run checks, and the refinements of
`PaymentContract` and of `TransferContract`, are theorems.

**What the theorems suppose.** Some properties are true only of the deployments, or of the
inputs, that a hypothesis names:

| Hypothesis | Where it stands in the code |
| --- | --- |
| `CapturesLock`; `Handlers \subseteq {"create", "captureLocked"}` | `app.module.ts:22-46` mounts no unlocked capture; of the mounted handlers an edit or a cancellation does break the contract (`Webhooks_edit_race`) |
| `OneOutcome`, `OneEventPerId` | the gateway's doing: a payload reports one outcome, an id is of one event. A millisecond that stands in for an id (`webhooks.service.ts:90`) breaks the second |
| `VatAboveMinusOne` | `finance.dto.ts:42` asks only for a number; a VAT below -100 % would turn the limits round |
| `ClientKeysAreBare` | not enforced: a client that sends the text `key-part-0` as its own header takes the place of a part |

**Sums.** `SumFunctionOnSet` is a fold, a function defined by recursion over subsets.
`SumTheorems` proves that the recursion has a solution, and then what sums do under an
added element, a changed value, a partition, a difference. An induction theorem cannot be
used for that, so each lemma looks at the subsets that refute it and takes a minimal one
(`MinimalSet`), which the recursion then shows to be none.

**Payments.** Captured-at-most-once is not inductive: it needs that a payment with a
`CAPTURED` entry never is `PENDING` again, and that a request about to capture holds
the row `FOR UPDATE` and read it `PENDING`. So `IInv` has four parts: types; what a
running request remembers (a lock holder for a capture has seen `PENDING` and no fee
snapshot); `LockProtectsRow`, which carries that memory over to the row as it is now;
and `LedgerInv`, which ties status, fees and entries. Each handler is proved to make
one of a few kinds of change (created, voided, captured under a lock, captured
without, edited or tipped), and each kind to keep `LedgerInv`: a new handler over
these rows has only to be put in a class.

For the contract, a request does what the contract says if the columns it checked, and
those of which it posts what it read, are still as it read them. A request that read `FOR
UPDATE` has that from `LockProtectsRow`; one that did not has it unless it was overtaken, which
is what `Overtaken` says of it, column by column: so no handler needs an assumption about
what runs beside it, and a departure is always the overtaken request's own
(`OvertakenAloneBreakContract`). Where nothing but locked captures and creations is exposed
nobody can be overtaken, and the refinement holds outright (`LockedImplementsContract`). A
tip's drift changes in one kind of step only: an adjustment whose payment's tip is no longer
the one it read.

**Webhooks.** `WInv` adds where a delivery can stand (its target, its event id and its
step agree) and what is on record. `WebhookApply` is shown to be one of the same
kinds of change, so the lemmas of the payment proofs carry it. `Processed` relates the
log to the rows: whoever reads an event as already logged finds the payment of that
event out of `PENDING`, if the id stands for one event.

**Refunds, disputes, splits.** Refunds and disputes break `LedgerInv` (a lost dispute voids
captured money), so `AftermathProofs` has invariants of its own.

* `AInv`: types, and what a deciding job read, `PENDING`, still holds on a payment outside
  `raced`: whoever else could decide that refund works on the same payment, and two
  workers put it in `raced`.
* `SInv`: what clients, jobs, refunds and disputes know of the rows. A row never loses its
  key or goes back to `PENDING`, and its amount changes only when somebody who worked on
  it ends (`Steady`). Who works on a payment outside `raced` and goes on is alone there,
  so nobody ends (`Solo`): amounts that were read are the amounts that are there.
* `MInv`: the sums. On a payment outside `raced` the `CAPTURED` entries are its amount as
  long as it is taken, the `REFUNDED` entries the completed refunds, and the amount covers
  what is claimed, the refund a job is about to write among it (`MoneyOK`, `ClaimOK`).
  `VoidedOK`, about lost disputes, needs no such exception: nothing un-posts a `VOIDED`
  entry. Every action is proved to change these sums by what it posts.
* Net revenue follows by adding up `MoneyOK` over the payments, and from the sum over
  refunds being the sum over payments of each one's refunds (`SumFibers`).
* Keys: a step adds one client's key, or both parts' keys, or none (`KeyStep`).

**Sessions.** While a payment is not spoiled, every session whose money may be on its way
and every call about to ask for one has the row's amount and finds the row `PENDING`; a
settled session's amount is on the ledger, and there is at most one (`PaymentOK`). A
change of the row meanwhile spoils it.

**Transfers.** `IInv` adds to the types that a transfer's two accounts differ, and that a
checked transfer still can afford its amount; a payment by another transfer
would need a lock on the same source, which `LocksExclude` forbids. The refinement
maps a transfer's result to `outcome`; every step before the last is a stutter. For the
chain a second invariant, `ChainInv`, says that no two transfers at work began at one
instant, that an entry bears the instant its transfer began, and that each entry names
the latest of those before it by that stamp (`NamesLatest`), not the last written. Whether
that is the entry it follows depends then on one thing only: whether that entry's transfer
began before one that had already been entered. A balance and its entries
change by the same amount in one step, so their sums need nothing but themselves.

**Calls.** For a key neither overlapped nor lapsed at most one call has passed its marker
(`OneCallPasses`), and a marker says how far that call is: `PROCESSING` before and during the
transfer, `COMPLETED` with an answer only after it. A marker becomes `PROCESSING` only by a call at
work, and a call that blocks its key goes on doing so until it completes the marker
(`BlocksOn`), so a blocked key has such a call, or one that failed (`ProcessingBlocks`).

**Tills.** On a shift outside `overlap` at most one request works, so what it read still
holds when it writes: the sums of a close, the status, the summary of a day. `ShiftOK`
has one named conjunct per thing read. For the day's record it says besides that a close
of the day has found every shift of it that is open (`DayFindsIt`), so none of those the
record counts is open once it is written (`RecordIsCurrent`). As long as nothing was paid
back from a drawer, or what was paid back was the whole of a sale taken out of the sum
(`even`), the sum of the sales is its cash.

**Back office.** The two columns are rounded one by one: each misses its exact value by at
most half a digit, so twice the error of the sum is at most two, and an integer that far
from zero is -1, 0 or 1 (`RoundedSums`, `Half`). The limits hold before the VAT, which the clamp is applied to,
and after it because multiplying by `1 + vat` is monotone, hence the hypothesis. `PatchOK` and `PayOK` carry what was read
over to the row as it is, outside `raced`.

**Only model-checked.** Liveness, which needs `ENABLED`: `KnownPaymentIsAnswered`,
`BegunIsDecided`, `BegunIsAnswered`, `EndedSessionSettles`; the absence of
deadlock; and the properties that are violated.

## 5. Where code and words differ

Two disagreements have a run, and `PROJECT.json` quotes the sentence under `findings`:

* `Webhooks_edit_race`: "Core Business Rule: Only edit if PENDING" (`payments.service.ts:199`)
  is checked on an earlier, unlocked read; a captured payment's amount changes.
* `Migrations`: "Start fresh database" (`README.md:76`) stops at 007, which adds columns 004
  has added, and the one transaction of all eight files is rolled back. The squashed
  schema, which the models use, is not what the chain would make.

The rest was met while modelling, and is what the passing properties except. The models
have each of these steps, and each property says in its exception when they happen:

* "Can only void if money hasn't moved yet" (`payments.service.ts:232`) is checked on an
  unlocked read (line 224); money captured since is voided.
* A refund that "exceeds the remaining refundable balance" (`refunds.service.ts:53`) is
  accepted when another commits after it summed up (line 41).
* "Once completed or failed, it's terminal" (`refunds.service.ts:128`): of two updates of one
  refund the later one decides.
* "What should be in the drawer right now" (`shifts.service.ts:157`) still expects what
  `issueRefund` paid back, and misses the whole of a sale of which a part was refunded
  (line 152).
* "Actively processing" (`idempotency.interceptor.ts:45`) is said of a key whose only call has
  failed: an error leaves the marker until it lapses.
* Two captures of `capture.service.ts` both read `PENDING` (line 23), and the money is posted
  twice; the module is not mounted.
* Two adjustments of one tip compute their deltas from the same read (`tips.service.ts:20`).
* An edit and then a cancellation post `PAYMENT_CREATED` and `VOIDED` of different amounts:
  the first entry is never corrected (`payments.service.ts:213`, against line 247).
* Two payloads without an id in the same millisecond are taken for one event
  (`webhooks.service.ts:90`), and one whose payment does not exist fails its foreign key
  (line 106) before the comment at line 134 applies, and is never answered.
* A retry asks to expire the old invoice; the `EXPIRED` notification then fails the payment
  while the new session is open, and a `FAILED` payment can never be retried
  (`README.md:361`, against `gateway.service.ts:90`).
* `issueRefund` never moves the payment's status (`refunds.service.ts:64`), and a `LOST`
  dispute can be lost again, each time with an entry (`disputes.service.ts:71`).
* A transfer that waited for a lock is stamped earlier than the entry it follows, so the next
  one, which reads the last hash by `created_at` (`ledger.repository.ts:32`), names that
  entry again, and the chain forks.
* A PATCH of the gateway settings drops the stored ones that `UpdateGatewayConfigDto` knows
  and the request does not name (`gateway-config.service.ts:213`), with no race at all.
* The keys of a split's parts, `key-part-0` and so on, share the column with clients' own
  keys (`split.service.ts:45`): a payment created under such a key makes the split fail.
* Net revenue subtracts the refunds of payments whose amount it does not count
  (`finance.service.ts:121`); the company-wide report of `reports.service.ts` counts only
  `CAPTURED` payments.
* A shift may be opened for a day that is already closed.
* `provider` and `channel_code` of a payment method, and `is_active` of a schedule, are accepted
  and not stored; a limit of 0 is no limit when a schedule is created and a limit of 0 when
  it is updated; a schedule with any channel is preferred, not the matching one
  (`fees.service.ts:121`).
* A PATCH of credentials reaches the stored object only: `updateRuntimeConfig` has no caller.
* The seed names `shifts.expected_cash` (`seed.ts:134`), which 006 drops.

## 6. Not modelled

* Checkout pages, receipts, gateway responses, currencies, and the queries of every
  service: they change no state. Of the reports, the revenue figure is an operator.
* Health, bootstrap, log scrubbing, the webhook's token check, and the validation of DTOs:
  a refused call changes nothing, and inputs are those a DTO admits.
* The nightly audit itself: it logs, and is not registered; the equality it looks for is
  `EntriesExplainBalance`.
* Gateway credentials in memory: set once at the start.
* `down` migrations: nothing runs them.
* The body a replayed answer returns, descriptive columns, indexes that only speed up
  queries, and doubles beyond the rounding of a column.
* An edit of `payment_method_id` alone, which writes no modelled column.
