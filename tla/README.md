# A formal model of ACHR

ACHR is a multi-tenant accounting and HR system: Django 5 and Django REST
framework over PostgreSQL with row-level security, Redis as cache, Celery for
background work, and one page of plain JavaScript in the browser. This
directory holds TLA+ modules translated from its source, TLC configurations
that check them on small instances, and proofs that TLAPS checks for every
size. It says what is modelled, what is checked, what is proved, and what is
not.

Paths below are under `src/backend/` of the repository, `apps/` left out,
unless they start with `docs/` or name `app.js` (`src/frontend/app.js`).
`PROJECT.json` maps every definition to its lines of source.

1. [How the system runs](#1-how-the-system-runs)
2. [Inventory](#2-inventory)
3. [How the project is put together](#3-how-the-project-is-put-together)
4. [The ledger](#4-the-ledger)
5. [Receivables and the page before them](#5-receivables-and-the-page-before-them)
6. [Stock, prices, costs and reports](#6-stock-prices-costs-and-reports)
7. [People](#7-people)
8. [Documents](#8-documents)
9. [The platform](#9-the-platform)
10. [Disagreements between the code and its documentation](#10-disagreements-between-the-code-and-its-documentation)
11. [What is proved, and what is only checked](#11-what-is-proved-and-what-is-only-checked)
12. [Not modelled](#12-not-modelled)
13. [What could come next](#13-what-could-come-next)
14. [Running it](#14-running-it)

## 1. How the system runs

* **A request is a transaction.** `config/settings/base.py:210` sets
  `ATOMIC_REQUESTS`: a view runs in one PostgreSQL transaction at READ
  COMMITTED, so every statement sees what was committed when *it* started. The
  `@transaction.atomic` of the services are savepoints inside it. A Celery task
  opens its own transactions.
* **Row locks are the only concurrency control.** `select_for_update` takes
  FOR UPDATE (FOR NO KEY UPDATE with `no_key=True`), an `UPDATE` takes FOR NO
  KEY UPDATE, a foreign key takes FOR KEY SHARE, and Django's foreign keys are
  deferred, so the last is taken at COMMIT. All locks are held to the end of
  the transaction. PostgreSQL aborts one transaction of every waiting cycle.
* **Most views check an instance before the lock.** `get_object()` is an
  unlocked read; the service is then called with that instance. What such a
  check still means when the service writes is the recurring question.
* **A PATCH writes a whole row.** A serializer saves every column of the copy
  it read, so it can also take back what others wrote meanwhile.
* **Failure is rollback.** A refused request, a constraint or trigger, a lost
  connection and a killed worker all end in ROLLBACK. Only the caches (of
  idempotency keys, of permissions) are written before COMMIT and are not
  taken back.

These five facts decide the grain of every module. What a transaction does
between an unlocked read and the statement that acts on it is two actions. A
transaction that locks several rows one after the other has an action for each.
A transaction that locks a row before it looks at anything that can change is
one action, enabled while the row is free.

## 2. Inventory

| Component | State it keeps | Operations | Correct means | Module |
|---|---|---|---|---|
| General ledger (`accounting/services/posting.py`, `periods.py`, `migrations/0004_ledger_guards.py`) | journal entries and lines, fiscal periods, sequence rows, cached balances | post, void, reverse, draft, edit, close, soft-close, reopen | only open periods move; numbers gapless; an event posted once; balances equal the books | `Ledger` |
| Chart of accounts (`accounting/services/coding.py`) | accounts, codes inside a parent's range | create under a parent, archive | a code is one place in the tree | `AccountCoding`, `Ledger` |
| Exchange rates and rounding (`accounting/services/fx.py`, `core/fields.py`) | rates | look up, convert, quantize, allocate | nothing lost or invented | `Money` |
| Receivables (`sales/services/invoice_workflow.py`) | invoices, paid and due amounts, status | issue, apply payment, void, write off, sweep for overdue ones hourly, remind | paid + due = total; a status follows its amounts; one entry per event; nobody is reminded of what he paid | `Receivables`, `Reminders` |
| Payments (`payments/viewsets.py`, `serializers.py`) | receipts, applications, refunds | create, apply, refund | no receipt or invoice over-allocated | `Receivables` |
| Inventory (`inventory/services/stock.py`, `fulfilment.py`) | movements, levels, batches, reservations, alerts, price rows | issue, adjust, reserve, release, compare, bulk price change | a level is the sum of its movements; nothing oversold; one price a day | `Stock`, `Shelf`, `Prices`, `Valuation` |
| Expenses and payables (`expenses/`) | bills, claims | submit, approve, reject, post, pay, void, reimburse | paid at most what is owed, once | `Payables` |
| Projects (`projects/services/invoicing.py`, `viewsets.py`) | timesheet entries | log, submit, approve (in bulk too), reject, edit, invoice | an hour is billed once | `Timesheets` |
| Bank reconciliation (`banking/services/reconciliation.py`) | bank lines, matches, sessions | match, unmatch, ignore, auto-match, close session | a matched line is explained, neither side over-allocated | `BankRec` |
| Payroll (`payroll/services/engine.py`) | runs, payslips, overtime claims | calculate, submit, approve, post, pay, cancel | accrued and paid once, for what the payslips say; two people | `Payroll`, `Payslips` |
| Leave (`hr/services/leave.py`) | balances, requests, approvals | submit, approve, reject, move, cancel, accrue, adjust | a balance is its requests | `Leave` |
| Staff and attendance (`hr/`) | employees, salary revisions, attendance | end, edit, revise, check in and out, enter, correct | heads, days and hours are those of the rows | `Staff` |
| Onboarding and settings (`iam/services/signup.py`, `tenancy/`, seeds) | tenant, chart, periods, HR defaults | sign up, seed again, configure | an organisation begins whole and its books keep one currency | `Organisations` |
| Identity and access (`iam/`) | memberships, roles, grants, invitations, permission cache | grant, revoke, deactivate, invite, accept, deploy a catalogue | an owner stays; shipped roles are the release's; what is taken away is gone | `Team`, `Invitations`, `Roles` |
| Attribute-based access (`iam/services/abac.py`) | org chart, scopes of roles | narrow a query | the branch a manager runs, no row less for one more role | `Scopes` |
| Tenant isolation (`core/rls.py`, `core/tenancy_context.py`, `tenancy/middleware.py`) | the tenant bound to a connection and a context | admit, bind, nest, run a task | work touches its own tenant only | `Tenancy` |
| Request idempotency (`core/viewsets.py`) | cached answers by key | run once, replay | a transition is done once per key | `Idempotency` |
| Reporting (`reporting/`) | snapshots, schedules | generate, file, compare, sweep | every figure ties to the others; delivered once | `ChartOfAccounts`, `Statements`, `Schedules` |
| Browser client (`app.js`) | session, address, overlay, form, waiting functions | open, save, settle, attach, navigate | a form's lines go to its own document, once | `Client`, `EntryForms` |

How they interact: every module that moves money builds a
`JournalEntryDraft` and calls `post_entry`, in its own transaction, with a key
naming the business event (`invoice:issue:{id}`, `payroll:{id}:payment`,
`reversal:{id}`). The ledger calls nobody back. Receivables call Inventory to
release stock and are called by Payments to recompute an invoice and by
Projects to create one. Payroll reads overtime and leave from HR. Reports read
the journal, and a few of them a subledger beside it. All of them run behind
tenant isolation, permissions and request idempotency, and most are driven
from the page.

Hard behaviour: races between an unlocked check and a locked write, PATCHes of
stale copies, locks of several rows taken in different orders, retried requests
and tasks, bulk updates beside interactive ones, caches dropped before COMMIT,
answers that come back to a page which has moved on. `PROJECT.json` lists the
main hazards at their lines with the properties that cover them; section 10
lists what does go wrong.

## 3. How the project is put together

A **component module** has the state of one part as VARIABLES, Init, an action
for each statement or verb, Next, and its properties behind a line at its end.
In all of them

* a worker `w` is a request or a task and `ws[w]` its local state: where it is,
  the copy of the row it decided on, what it will write at COMMIT;
* `lock[row]` is the holder of a row lock; a waiting statement is an action
  that is not enabled;
* constants such as `OneDesk` or `Faults` switch off an interleaving that the
  code does not exclude. With the constant at its other value a property named
  in section 10 fails. The passing runs keep the switch on to show that
  everything *else* is right.

Properties whose comment begins with "Not so", or with the documentation line
they come from, are statements of the documentation that the code does not
keep. They stay in the modules so that they can be run by hand.

An **MC module** instantiates components for TLC. Modules that share no rows
are explored beside each other and not multiplied: a variable `part` (or
`situation`) is chosen in the initial state and the behaviour stays in that
part. Where parts do share state they are one module (invoices and receipts;
runs and overtime slips; levels, documents and alerts).

| MC module | Extends | Instantiates | Runs |
|---|---|---|---|
| `MCLedger` | `Ledger` | | `ledger_correct`, `ledger_drafts`, `ledger_live`, `ledger_double_void` |
| `MCReceivables` | `Receivables` | | `recv_apply` |
| `MCReceivablesCases` | `MCReceivables`, `Reminders` | `Client` | `recv_cases` |
| `MCStock` | `Stock`, `ChartOfAccounts` | `Prices`, `Valuation`, `Statements`, `Shelf` | `stock` |
| `MCPeople` | `Payroll` | `Leave`, `AccountCoding`, `Staff`, `Organisations`, `Roles`, `Scopes`, `MCAmounts` | `people`, `leave_twice` |
| `MCAmounts` | | `Money`, `Payslips`, `EntryForms` | `ledger_foreign` (and a part of `people`) |
| `MCDocuments` | `Payables` | `BankRec`, `Timesheets`, `Idempotency` | `documents` |
| `MCPlatform` | `Tenancy` | `Schedules`, `Team`, `Invitations` | `platform` |

The assumptions on constants of an instantiated module are an operator
(`LeaveConstantsOK`) which the MC module assumes, so that TLC evaluates it. The MC
modules of sections 5 to 9 leave the constants of their components open, and
the configuration gives them their values: what is proved of `MCPeople`, say, holds for any
number of requests, employees, departments and releases.

Pure calculations (`Money`, `Payslips`, `EntryForms`) are operators without
state. TLC takes every input of a bounded set as an initial state and compares
what is calculated with a reference definition.

## 4. The ledger

Module `Ledger`: `post_entry`, `void_entry`, `reverse_entry`, the drafts of
the journal-entry endpoint, the periods, and the archiving of accounts.

### State

| TLA+ | Code |
|---|---|
| `period` | `FiscalPeriod.status` |
| `entries` | `JournalEntry` rows with their `JournalLine`s; `src` is `source_document_id` of an entry posted from a draft, `mirrorOf` is `reversal_of` |
| `seq` | `DocumentSequence.next_value` per (journal, year) |
| `balance`, `active` | `Account.cached_balance`, `Account.is_active` |
| `lock` | row locks on periods, sequence rows, accounts; for a key, the uncommitted unique-index entry another insert waits for |
| `pc`, `ws` | the statement a request has reached and its local state: the row as it read it, the row it is going to insert, the accounts still to update |

The first five are the committed database. A transaction's own writes stay in
`ws[w]` until it commits, because nobody else sees them; that is exact here
since every row a transaction writes is locked or new until its end, and the
requests do not read back their own pending rows.

### Actions

A request (`Post`, `PostDraft`, `ReverseEntry`, `VoidEntry`,
`TransitionPeriod`, `CreateDraft`, `PatchDraft`, `Archive`) reads its target
without a lock, keeps what it read in `ws`, and goes on one statement at a
time. `post_entry` is `Validate`, `LockPeriod`, `AllocateNumber`,
`InsertEntry`, `MoveBalance` (one per account), and then what its caller does:
`CommitPost`, `RetireDraft` or `MarkReversed`. `void_entry` is
`VoidLockPeriod`, `MoveBalance`, `VoidUpdate`; `RetireDraft` enters it at
`void_lock`. A statement that reads nothing unlocked and waits for nothing is
merged into its neighbour: moving it past other transactions' steps changes
nothing they can see. `Crash` and `AbortDeadlock` roll back from anywhere.

Triggers and indexes are part of the statement that fires them:
`InsertEntry` checks `uq_entry_idempotency`, `uq_entry_number` and
`trg_period_locked`; `VoidUpdate`, `MarkReversed` and `CommitPatch` check
`trg_journal_entry_immutable`. `trg_entry_balanced` cannot refuse what
`Validate` accepted, since the lines do not change in between.

### Abstractions

* One journal per fiscal year, so a sequence row is a year (`Scope`); periods
  of one year share a row.
* Amounts are small naturals in one currency; conversion is in `Money`.
* Events always carry a key. `post_entry` accepts drafts without one; only
  tests use that.
* A fiscal year is never closed: nothing under `src/` closes one.
* `get_object()` and the read of an entry's lines are one read. A draft edited
  between the two SELECTs of one request could be posted with mixed header and
  lines; this is not modelled.
* The response cache of `run_idempotent` is left out (`Idempotency` has it): a
  replay is answered without running the request, so the model, in which it
  runs again, allows more.
* `allow_soft_closed` is never passed by a caller and is left out.

### Properties and runs

| Property | Says | Run |
|---|---|---|
| `TypeOK` | the type invariant; every stored entry has a period | `ledger_drafts` |
| `DraftBecomesOneEntry` | a draft becomes at most one numbered entry and is voided with it | `ledger_drafts` |
| `OnlyOpenPeriodsMove` | an entry enters or leaves the books only of an open period, and never in the step that changes the period, however a close and a post interleave | `ledger_drafts` |
| `ReversedIffMirrored` | an entry is reversed exactly when one entry mirrors it | `ledger_correct` |
| `BalanceTies` | each cached balance is the sum of the entries in the books | `ledger_correct` |
| `TerminalIsFinal` | voided and reversed entries keep status, lines and period | `ledger_correct` |
| `GaplessNumbers` | the numbers of a year are 1, 2, ..., each once, across rollbacks, crashes, deadlocks and voids | `ledger_live` |
| `OneEntryPerKey` | a business event, a draft (by its derived key) and a reversal are posted once | `ledger_live` |
| `RequestsEnd` | every request that starts ends, if nothing is starved | `ledger_live` |

* `ledger_drafts`: one worker creates, posts and voids drafts, the other
  posts and edits them and moves periods; two periods of one year, three
  entries, no client keys, lines that balance and lines that do not.
* `ledger_correct`: two workers post and reverse, one of them also voids; three
  entries, two years, two events. Only one worker voids, because with two
  `BalanceTies` does not hold: that is the run `ledger_double_void`, in which
  TLC shows the two voids (section 10).
* `ledger_live`: posts of two events on two accounts in opposite orders beside
  closing, soft-closing, reopening and archiving; two entries; fairness.
* `ledger_foreign` (module `MCAmounts`): a balanced foreign entry whose base
  amounts do not add up.

Why the bounds are enough: the races are between two transactions, and each
needs at most an original, its mirror and one more entry; two accounts suffice
for opposite lock orders; two periods for a request that moves an entry
between them or dates a reversal elsewhere. What a third worker adds is
covered by the proofs, which state every property of the table but
`RequestsEnd`. `Id` bounds the number
of entries; the requests that insert stop when it is used up, which is why the
runs turn deadlock checking off.

Fairness: `FairSpec` assumes strong fairness of `Step(w)`, everything a running
request does by itself. A worker keeps executing (the process is scheduled, and
a dead one is a `Crash`, which ends the request). Strong rather than weak,
because a waiting statement is enabled only while its lock is free: PostgreSQL
queues waiters in arrival order, so a request is not overtaken for ever, and it
breaks cycles (`AbortDeadlock`, part of `Step`). Requests and crashes are not
fair.

## 5. Receivables and the page before them

### Module `Receivables`

| TLA+ | Code |
|---|---|
| `rows` | `Invoice` rows: status, total, paid, due, due date, number (0 is blank) and whether `journal_entry` is set |
| `books` | what the ledger holds for an invoice: the amount of its issue entry, whether that was voided, the write-off loss |
| `receipt`, `refunded` | `Payment` rows, and the sum of the live refunds of each |
| `applied` | `PaymentApplication`: an amount for each (receipt, invoice) pair, 0 when there is no row |
| `lastNumber` | the `DocumentSequence` row of invoice numbers |
| `lock` | row locks of invoices and receipts |
| `ws` | the request of a worker: the row it read, what it allocates, the invoices still to lock, the rows it will write |

| Action | Code |
|---|---|
| `CreateInvoice`, `ReadForEdit`, `WriteEdit` | `InvoiceSerializer.create`, `validate`, `update` with `_recalculate_totals` |
| `Issue`, `Void`, `WriteOff` | the services of that name in `invoice_workflow.py` |
| `VoidFromLedger` | the `void` verb of the journal-entry endpoint, on an entry of an invoice |
| `Receive`, `Refund` | `PaymentSerializer.create`, `PaymentViewSet.refund` |
| `BeginApply`, `LockReceipt`, `SettleInvoice`, `CommitApply` | `PaymentViewSet.apply`, with one `apply_payment` for each invoice |
| `BeginSweep`, `MarkOverdue`, `SecondUpdate`, `UnmarkOverdue`, `CommitSweep` | `refresh_overdue_status`: the two UPDATE statements, row by row |
| `Refuse`, `AbortDeadlock`, `Crash` | a failed check, the deadlock detector, a lost process |

Issue, void, write-off and refund lock one row before they check anything that
can change, so each is one step, enabled when the lock is free. The others are
several steps because something happens between their reads and writes: an
edit reads before it locks, an allocation checks the receipt's status before it
locks it and then locks several invoices, the sweep finds its rows before it
locks them. The pages that add up invoices are operators over the same state:
the buckets of the aging report, the statement of a customer, and the total
behind the refresh button, each with the rows its query selects
(`AgingTotal`, `StatementDue`, `Outstanding`). An UPDATE that waited for a row tests its WHERE clause on the new
version of the row, not on the one it found; `MarkOverdue` and `UnmarkOverdue`
do that. What a transaction wrote is in `new` until it commits; the second
UPDATE reads it back through `Current`.

An invoice is its total: lines, taxes, discounts and currencies are whatever
add up to a member of `LineTotal`. The FX difference is left out, and stock
released at issue is in `Stock`. The ledger is three facts per invoice. A
receipt comes settled, or pending through a gateway; no code under `src/` ever
settles a pending one.

### Module `Reminders`

It extends `Receivables` by the rules of a tenant (`rules`), the reminder log
(`log`) and the requests of collectors (`asks`). `WriteRule` and `DeleteRule`
are the endpoint of rules, with the unique index and the protection of rules
that have been used. `send_reminder` locks nothing, so it is three steps:
`ReadInvoice`, `ChooseRule`, `LogReminder` (get_or_create under the unique
index), or `DropAsk`. Nothing in the code sends what was queued.

### Module `Client`

`app.js` is one page with one event loop. A function runs alone until its next
`await`, where another function or the user may come first. So a function is
the sequence of what it waits for or does at its end (`SaveAndIssue` is ask,
write, prove, settle, collect, files, tidy, leave), and every form of the page
is one of a few such sequences.

| TLA+ | Code |
|---|---|
| `session` | `S`: the tokens and the proof of the password (`ensureReauth`) |
| `page` | the screen in the address, the one painted into the page, the report in it |
| `box` | the overlay `#ov`, which forms and dialogs share |
| `iv` | `IV.editing` and `ATTACH.queued` |
| `calls` | the functions that wait: what is left of each, what it knows |
| `rows`, `newest`, `expiries` | the server behind it: documents, the refresh token it accepts, tokens that ran out |
| `opened`, `picked` | history: the document a form was opened for, the form a file was chosen in |

`User` opens, saves, presses a row's button, attaches, answers or dismisses a
dialog, reloads, goes and goes back. `Page` continues a function whose answer
is there, `World` is the server, and time that lets tokens expire.
`user.waits` is a user who does nothing while a request is under way.

`EntryForms` has the figures of the same forms: a discount typed into a line,
the rate it is sent as, the total the server computes from it, the estimate
shown meanwhile, and the balance button of the journal form.

### Properties and runs

| Property | Says | Run |
|---|---|---|
| `TypeOK` | the type invariant; what is due never becomes negative | `recv_apply` |
| `StatusFollowsMoney` | paid and due add up to the total, and the status says what is left | `recv_apply` |
| `ReceiptsAddUp` | the paid amount of an invoice is the sum of its applications, and applied and unapplied are the receipt | `recv_apply` |
| `CorrectionsTakeTheRest` | a voided invoice has no cash and its entry left the ledger; cash and bad debt of a written-off one are the invoice | `recv_apply` |
| `SettledIsFinal` | a settled invoice is not reopened; voided and written-off ones do not change | `recv_apply` |
| `FlagConverges` | when the calendar and the allocations stop, the sweeps make the overdue flag right and keep it so | `recv_cases` |
| `RequestsEnd` | no allocation, edit or sweep waits for ever | `recv_cases` |
| `InvoicesAreAsked` | the ledger holds the total of an issued invoice and every number is on exactly one invoice (`IssueIsRecorded`); aging report, statement and refresh button agree on what is owed (`PagesAgree`); a customer is reminded once for each date a rule names, of no more than was billed and no less than he still owes (`RemindedOfWhatIsOwed`); and the page keeps its word (`PageKeepsItsWord`): a form's lines go to its own document, a dialog's answer to the function that asked, a patient user settles no form twice, finds his files where he chose them and sees the screen the address names | `recv_cases` |

* `recv_apply`: two cashiers, two receipts, two invoices of 2, amounts 1 and 2,
  one or both invoices in a request, crashes and deadlocks.
* `recv_cases` is in one of five situations: `sweep` (a cashier beside a sweep,
  midnight passes once), `locks` (two cashiers, both invoices in either order),
  `drafts` (two editors, both desks, one receipt pending), `chase` (a collector
  with one rule beside a cashier), `page` (five kinds
  of users: patient ones with the forms of invoices, journals, payments,
  payouts and accounts, files, lists, a colleague, reloads and expiring tokens,
  and one who clicks on without waiting; two functions at a time, two forms and
  two documents).

Why the bounds are enough: the total 2 and the amounts 1 and 2 give no, part,
exact and too much payment, alone and from two receipts; two invoices are
needed for a request that fails after its first invoice and for opposite lock
orders; one midnight separates a sweep's date from the date of an allocation
that overtakes it. The sweep has one invoice: its statements treat the rows
independently, and what two rows add, a deadlock with an allocation, ends like
those of `locks`. In the page, two forms and two functions are enough for one
to act in the place of the other. `LastDay` bounds the calendar, `MaxBatch` the
invoices of a request, `MaxNumber` the numbers, `MaxForms`, `MaxDocs`,
`MaxCalls` and `MaxExpiries` the page.

`recv_cases` sets `OneDesk`: a draft is issued only when nobody is editing it.
The code does not ensure that; without it `IssueIsRecorded` fails in the way of
`NeverUnsent` (section 10). What the run shows is that everything else about
drafts and numbers is right.

Fairness (`CaseFairness`): strong fairness of `Progress(w)`, what a request
does once it has begun, its refusal and its abortion by the deadlock detector,
of the workers that a situation has, so that every situation has fair
behaviours. Strong, because a
step that waits for a row is enabled only while the row is free, and PostgreSQL
serves its queue in order. The sweep is included from its beginning, since the
scheduler starts it every hour. Nobody has to start an allocation or an edit,
and the calendar need not move. A crash is never required, and the sweep does
not crash (`Mortal`): one that crashed every time would never correct a flag.
The page has no fairness; its properties are safety.

## 6. Stock, prices, costs and reports

### Module `Stock`, and `Shelf`, which it implements

| TLA+ | Code |
|---|---|
| `level` | `StockLevel`: on hand and reserved, by bin (an item in a warehouse) |
| `log`, `moved` | the committed `StockMovement` rows: their sum by bin, their number by document line |
| `status` | of invoices (issued or not) and `StockAdjustment` documents |
| `alert` | the latest `LowStockAlert` of a bin |
| `lock`, `ws` | row locks; `ws[w].view` is what a transaction will write to the levels it holds |
| `sums` | what the nightly comparison has read and not yet compared |

A document is one transaction: it locks its own row (`Begin`), then the level
of each line in line order, and commits. `ShiftLine` is one `apply_movement`,
with `Covered` as the check against oversell and `Shifted` as the new level;
`SkipLine` passes a line that moves nothing. `Refuse`, `AbortDeadlock` and `Crash` roll
back. `Approve`, `ReadHeader` and `SaveHeader` are the other verbs of an
adjustment, `Reserve` and `Release` those of orders, `Acknowledge` that of an
alert; `BeginCheck` and `Compare` are `recompute_stock_levels`, which repairs
levels when `Repair` is TRUE.

`Shelf` is what the service promises: documents take effect one after the
other, each once and with all its lines, and nothing promised leaves the shelf.
It has no locks, no lines in progress and no movements. `MCStock` instantiates
it with `onHand`, `reserved` and `done` read off the levels and the documents,
and checks `DocumentsAreAtomic`, which is `Shelf`'s specification: every step
of `Stock` is a step of `Shelf` or leaves it unchanged.

### `Prices`, `Valuation`

`Prices` is `bulk_adjust_prices`: the rows of an item, by their dates. `Begin`
selects the rows in force on the day, `Apply` looks at the ones it locked again
as they are then (EvalPlanQual), ends each the day before and inserts its
successor; a change that is refused or dies is `Forget`. `Valuation` is
`_compute_costs`, `_fifo_unit_cost` and `build_journal_entry` for one bin:
`Receive` and `Issue` change quantity, average cost, value, batches and the
inventory account. `rounded` and `lost` are history: what rounding the average
may have moved, since the bin was last empty and before. `Drift` is the last
line of the inventory valuation report, levels less ledger.

### `ChartOfAccounts`, `Statements`

`ChartOfAccounts` is the default chart with one leaf of each kind, what each
kind of document posts to it, and which accounts each report takes up.
`Statements` has a journal that is posted to, late too, and reversed, and every
figure of `reporting/generators`, computed as its generator does from
the queries it makes. A report is several SELECTs: `seen` is the journal as an
earlier query, or a filed snapshot, read it, and `book` what a query reads now
(`Read` moves one to the other). The balance sheet, snapshots and their
comparison are stated over both. A `Snapshot` is filed with the period it is
of, and `Compare` takes the one given first as the baseline.

### Properties and run `stock`

| Property | Says |
|---|---|
| `StockTypeOK` | the type invariant; only documents under way hold rows |
| `LevelIsTheLog` | a level is the sum of its movements, whatever moves a bin at once, crashes or deadlocks |
| `WholeDocument` | a document that is done moved each of its lines once, one that is not none |
| `DocumentsAreAtomic` | `Stock` implements `Shelf` |
| `KnownAndPriced` | a bin at its reorder point is reported; every day has one price; value and quantity times average differ by rounding only; what the report calls drift is no more than the rounding of bins that were emptied |
| `EndsAndPastStands` | a document that is begun ends, however its bins are ordered; a bulk change leaves the prices of earlier days alone |
| `StatementsTie` | trial balance, general ledger and registers foot and carry forward; layouts lose no account; the sheet balances with only the difference of later postings; cash, tax, aging, statements, margins, ratios and dashboard figures agree with one another, with gaps only where the generators leave them; a comparison of snapshots explains the difference |

The instance: two invoices that ship two bins in opposite orders and an
adjustment that finds one bin as expected, two of each on hand, amounts of 1,
two workers; four bulk price changes on four days (two rises from one day, one
later, a cut); four receipts or issues of one item at three costs; two
customers, three days with a year's end in them, two postings and a correction.
Two documents and two bins make the deadlock and the half-done document; two on
hand against lines of 1 and 2 make the last unit; four movements are enough for
two rounded receipts, an emptied bin and a new start.

Fairness: a worker on its lines goes on (strong, for its waits are for rows
others give back), and the database ends a deadlock (weak). Reservations, new
documents and the nightly comparison are not owed.

## 7. People

Run `people` (module `MCPeople`) has ten parts; `leave_twice` is the leave part
with the switch off.

### `Payroll`, `Payslips`

`Payroll` has two runs whose periods share a day, and an overtime slip of that
day. Its variables are `runs`, `payslips`, `slips` and `salary` (rows), and
`ledger` (the accrual and the disbursement of each run). Every verb reads its
row without a lock and decides on the copy, so it is `Read` and then the verb:
`Submit`, `Approve`, `Cancel`, `MarkPaid`, `Patch` for a run, `Certify`,
`Judge` and `Amend` for a slip. A calculation is `BeginCalculate`, whose UPDATE
locks the run to its COMMIT, `Stamped` slips, `CommitCalculate`. Posting is
`BuildEntry`, from the payslips, and `CommitPost`. `Revise` changes the salary
history under all of them.

`Register`, `Committed`, `PayrollCost` and `Posted` are what the payroll
register, the dashboard and the ledger say of the same runs.

`Payslips` is the pure part of `engine.py`: days attended, leave that is
unpaid, proration, components in sequence, overtime hours at their multiplier,
insurance with its cap, marginal tax on the scale in force, the identity of a
payslip, and the entry of a run split over cost centres. `Money` is
`quantize`, `allocate`, the rate look-up and the two currencies of a line.

### `Leave`

`leave` and `balance` are the rows, `steps` the decisions of manager and HR,
which the status must agree with (`StepsTellTheStatus`). An account is an
employee, a type of leave and a year, the key by which `_locked_balance` looks a
balance up; a request names its account (`of`) by what its columns say when it
is served.
From the lock on the balance to COMMIT is one action: `Submit` (with the checks
of the service), `ApproveManager`, `Finalise`, `Reject`, `Returned` days in
`Cancel`. `Edit` is a PATCH of a request, which may name another employee, type
or range in every status and touches no balance; `Open` and `Adjust` are a POST
and a PATCH of a balance, whose client writes `adjusted_days` and
`last_accrued_on` and may name another account. `Accrue` grants a month, and may
be delivered again at any time; `Begins` and `NextMonth` are the calendar.

The code has no answer to a live request that is moved: its days stay held on
the old balance, and the new one gives back what it never held. So the history
`strayed` collects the accounts that a PATCH has parted from their requests (a
move, a range of another length, another name of the balance) or from their
months (another `last_accrued_on`), and the invariants are about the others
(`Kept`). That they fail of the rest is in section 10 (`EveryBalanceAddsUp`,
`EveryMonthGrantedOnce`).

### `Staff`

`person`, `revision` and `day` are employees, salary revisions and attendance
rows; `now` is a clock of ticks, `DayLength` to a day. `Terminate`, `ReadPerson`
and `SavePerson`, `Revise` and `Amend` change records; `CheckIn`, `CheckOut`
(of phones, which repeat themselves), `EnterDay`, `ReadDay` and `CorrectDay`
(of supervisors) change days. A supervisor who enters a day may type its times;
the hours are the server's, and only `check_out` computes them, so a day has
some from then on (`closed`, a history) and none before. `Headcount`, `LeftIn`, `ExpectedDays`, `Credited`
are figures of the HR dashboard, `Records` and `OnPayslips` what payroll counts.

### `AccountCoding`, `Organisations`

`AccountCoding` is `allocate_account`: `Begin` locks the parent and takes the
next segment, `Insert` commits under the unique index on full codes. Roots have
no parent to lock.

`Organisations` is signup (`Begin`, `InsertTenant`, `InsertUser`, `Provision`,
`SeedDefaults`, each of which waits for another's uncommitted unique value),
the books beside it (`Reseed`, `AddAccount`, `CloseMonth`, `BeginPost`,
`CommitPost`), a release that runs the seeds of all again (`Upgrade`), and
the settings (`ReadSettings`, `SaveSettings`).

### `Roles`, `Scopes`

`Roles`: `Deploy` is `seed_permissions` with one file of three, with or
without `--prune`; `Create`, `BeginEdit`, `Save`, `BeginDelete` and `Delete`
are custom roles; `Assign`, `Amend` and `Revoke` are dated grants. `Scopes` is
`abac.py`: which rows of which resource the roles of one actor show, while
departments are added, people transferred, projects staffed and roles given and
taken. The branch of a manager is a prefix of `Department.path`; `Branch` asks
the same of the parents alone: the smallest set that contains a department and
every child of its members.

### Properties

| Property | Says |
|---|---|
| `PeopleTypeOK` | the type invariants of all parts |
| `PaidByTheRules` | what is accrued is the register, once, and what is paid out is the accrual, once; nobody approved what he calculated; an overtime slip is on the payslips of the one run that claimed it; the dashboard's cost is what approved runs pay, and what the ledger has of them is what was posted |
| `TimeAddsUp` | held, taken and available days of a balance are those of the requests that name it, never promised twice, a month granted once, unless a client parted the balance from them; the dashboard's joins and leavers explain its heads; payroll and dashboard count the same days; the hours of a day are those between arrival and departure once `check_out` has recorded it, and none before |
| `OrganisationsStand` | an organisation begins whole and alone, a closed month stays closed over a seed, the books stay in one currency; shipped roles are the release's, custom ones at most their last edit's, nothing they bundle is gone; the branch somebody sees is the branch, one more role shows no row less, and the payslips of others are for the owner, for personnel and, without an employee record, for whoever calculated them |
| `NumbersAddUp` | splits, taxes, absences, overtime, registers, discounts and forms lose and invent nothing (`AmountsAddUp`); two accounts never share a code, and a code reads back as its place |
| `DebitedOnce` | (run `leave_twice`, violated) an approval that is sent twice debits once |

`OneOfficer` (and with it `OneDesk` in `Leave`, `Staff`, `Organisations` and
`Roles`) says that a row is prepared by one request at a time; `Builds` and
not `Moves` that departments have paths. Without them the properties of
section 10 fail. The races left in are those of approval, posting, payment,
accrual, signup and deployment.

Bounds: two runs, one slip, two salaries, two workers; two requests of one
employee for a one-day and a two-day range, on annual leave (decided by HR too)
with 2 half days at the start and one more each month, capped at 3, or on sick
leave; three levels of accounts with room for two children (a
third slot number does not fit); two employees, two days; two organisations of
one name, two currencies, two releases; three permission files; three
departments. For calculations: totals to 15 in up to three shares, incomes to
30 over three slabs and two scales, leaves of four days over a period's end
with every set of working days, lines to 60 and beyond 999. `Short` adds two
bounds of time: a behaviour of `Leave` is followed up to the first PATCH that
parts a balance, one worker serves at a time after leave has begun or the month
has turned, and times are typed of the first day only (`ShortLeave`,
`ShortDays`); the theorem holds without them. Everything that
rounds is in units of half a minor unit, so a half is an input. SYMMETRY is
sound: the permuted values occur in no constant by name.

## 8. Documents

Run `documents` (module `MCDocuments`), with bills, bills whose post verb is
used early, claims, the bank, a session, time entries and repeated requests as
its parts.

* **`Payables`**: every verb but `pay` reads the document without a lock
  (`Read`) and writes the columns it names: `EditBill`, `SubmitBill`,
  `ApproveBill` (which posts), `PostBill`, `VoidBill`, `EditClaim`,
  `SubmitClaim`, `ApproveClaim`, `RejectClaim`, `Reimburse`. `PayBill` reads
  under the row lock. `owed` and `accrued` are what the ledger holds.
  `OneDesk`: the requests of its author have a document to themselves;
  approvals, payments and voids race in any case.
* **`BankRec`**: `BeginMatch` and `BeginUnmatch` lock the bank line, read both
  sides and write at COMMIT (`CommitReview`); the automatic run reads its
  worklist once and then matches, suggests or skips line by line, each in its
  own savepoint (`AutoMatch`, `AutoSuggest`, `AutoSkip`, `EndAuto`, or
  `FailAuto`, which loses all of it); `Ignore`, `CloseSession`, and `PostLedger`
  for a ledger that moves on.
* **`Timesheets`**: `Log`, `Submit`, `Approve`, `Reject`, `Edit`; a bulk
  approval locks in the client's order, an invoice run by date (`LockNext`),
  then `CommitBulk` or `CommitRun` with what still qualifies (`Keeps`).
  `Foremost` is the row next in that order. `UnbilledTime` and `BillableValue`
  are the figures of the project screen.
* **`Idempotency`**: `Send`, the look-up (`Replay` or `Miss`), `Run`,
  `Remember`, and `Commit` or `Rollback` after it; a client that gets no answer
  sends again. `Guarded` services find under their lock what they did before;
  `Faults` adds repeats that overlap the first request, and a cache that takes
  no entry. The run and the theorem have none of them: a service that is not
  guarded relies on both, which section 10 lists.

| Property | Says |
|---|---|
| `DocumentsTypeOK` | the type invariants of the four modules |
| `PaidOutOnce` | a vendor is never paid more than the ledger owes and the bill knows each payment; a claimant is paid back what was accrued, once |
| `ObligationIsTheBill` | the obligation in the ledger is the bill's total and what its lines add up to |
| `MatchedIsExplained` | a bank line is never explained by more than it moved, and is matched only if every unit is explained |
| `DoneOnce` | an hour is on one invoice line, or on none and still found by the next run; what the screen calls billable is what is on lines and what is not; a transition is done once per key, whatever is repeated, refused or dies |
| `BatchesEnd` | automatic runs, bulk approvals and invoice runs end, in whatever order they lock rows |

Bounds: one bill of each kind with totals 0 and 2, payments of 1 and 2, tax
withheld or not; a bank line of two and one of one against a ledger line of
two, so that a line is left over and a match is partial; two entries; two keys,
each sent up to three times. Fairness: a worker commits (weak), goes on to its
next row (strong), and deadlocks are ended (weak). `MCDocuments` takes every
row, worker and amount as a constant, so that the four parts can be reasoned
about at any size; `documents.cfg` has the values.

## 9. The platform

Run `platform` (module `MCPlatform`), five parts.

* **`Schedules`**: `run_scheduled_reports`, on behalf of a database role that
  row-level security does not bind (`Exempt`); for the role that is provisioned
  a sweep finds nothing to do (section 10). A sweep reads what is due, and for
  each schedule in a transaction of its own moves `next_run_at` forward
  (`Advance`, or `SkipStale` when too late) and stores the snapshot (`Deliver`)
  or fails (`Fail`, which takes the move back). A worker may `Crash`; the
  broker delivers its sweep again.
* **`Tenancy`**: two guards, the settings of the database session (row-level
  security) and the ContextVar (`TenantManager`), of two workers that take
  turns on one pooled connection. `Arrive`, `Admit`, `Bind`, `ArriveExempt`,
  `StartTask`, `EnterTenant`, `LeaveTenant` (which may fail, and roll a
  savepoint back), `EnterLookup`, `LeaveLookup`, `Statement`, `Finish`.
* **`Team`**: the three endpoints that change memberships and role
  assignments, and the cache of permissions. A change drops the entry before
  its COMMIT, so a request in between reads and stores what is about to change:
  `Ask`, `Store`, `Expire` beside `Decide`, `Write`, `Commit`.
* **`Invitations`**: the offers of one address, their membership and its role;
  reads and writes are two actions, and the unique index, the CHECK and the
  row counts of an UPDATE refuse what no longer fits.

| Property | Says |
|---|---|
| `PlatformTypeOK` | the type invariants; a sweep has locked the row of the report it generates and no other |
| `OnlyItsTenant` | a statement touches rows of the tenant its work was admitted for, whichever connection it got, however blocks nest and fail |
| `DeliveredOnce` | a report is delivered at most once for each time it was due |
| `MembersAgree` | through the team screen the last active owner is never removed; invitation, membership and role stay together |
| `PlatformMovesOn` | a sweep comes to its end, and what it has taken up is moved on unless it cannot be generated or a worker dies, also behind one that cannot; a role that is gone for good is in the end not served from the cache |

Bounds: a schedule due every tick and a broken one due every second tick, a
clock of 4 with lateness 2, two crashes; two tenants, one user, one connection,
blocks two deep; two users, the founder among them, one worker that changes and
one that asks; two offers, sent up to twice, changed by overlapping requests.
Fairness: a sweep that has begun goes on; that one begins is never assumed,
since nothing under `src/` starts it. Crashes are bounded; a cached entry
expires, if it does expire.

## 10. Disagreements between the code and its documentation

Three runs of `PROJECT.json` expect a violation and are its findings:

| Run | Claim | What the code does |
|---|---|---|
| `ledger_double_void` (`BalanceTies`) | a void unwinds the balances exactly (`tests/test_ledger_invariants.py:381`) | `void_entry` trusts the status of the instance it was handed; the trigger lets VOIDED to VOIDED through; two voids unwind twice |
| `ledger_foreign` (`TrialBalanceFoots`) | an imbalance of base amounts cannot be produced (`reporting/generators/financial.py:238`) | base amounts are rounded line by line and their sums are compared by nothing |
| `leave_twice` (`DebitedOnce`) | `balance_applied` makes the debit idempotent (`hr/services/leave.py:385`) | it is read from the copy of the request before the balance is locked |

More were met while modelling. Those with a configuration are checked by
`tlc -config <name>.cfg` with the MC module of their component; the others are
properties in the module named, violated when they are checked with the
constants given (define `P == Crew!LeaversStayGone`, say, in a copy of the MC
module and put `P` into a copy of its configuration).

**Ledger and receivables**

| Property | Claim | What the code does |
|---|---|---|
| `NoStrandedDraft` (`ledger_claims.cfg`) | a close never strands a draft (`periods.py:20`) | a draft created or moved into the period during the close commits after it |
| `ArchivedAccountsEmpty` (`ledger_claims.cfg`) | an account that carries a balance is not archived (`accounting/viewsets.py:280`) | the balance is read without a lock |
| `ReportTiesToCache` (`ledger_claims.cfg`) | the books show the error and its fix (`posting.py:418`) | the account ledger keeps only POSTED entries: the fix without the error |
| `PeriodsCloseInOrder` (`ledger_claims.cfg`) | prior periods are closed first (`docs/04-state-machines.md:332`) | not checked |
| `PostsDoNotWaitForPosts` | posts proceed in parallel (`posting.py:192`) | FOR NO KEY UPDATE conflicts with itself |
| `DraftPostedOnce` with two `ClientKey`s | the derived key makes retries safe (`accounting/viewsets.py:552`) | a client's header replaces the derived key; two headers post one draft twice |
| `NeverUnsent` (`recv_claims.cfg`) | a sent invoice is never a draft again (`docs/04-state-machines.md:94`) | a PATCH writes back every column of the row it read before the issue (`sales/serializers.py:392`) |
| `RefundedOrApplied` (`recv_claims.cfg`) | a refund restores the balance of the invoice (`docs/04-state-machines.md:206`) | refunds and applications do not look at each other (`payments/viewsets.py:400`) |
| `IssuedHasLiveEntry` (`recv_claims.cfg`) | X-01: a sent invoice has a live issue entry (`docs/04-state-machines.md:668`) | the journal-entry endpoint voids it; the invoice stays sent |
| `ControlTiesSubledger` (`recv_claims.cfg`) | a captured payment credits AR (`docs/01-technical-requirements.md:197`) | no receipt or allocation posts anything |

Also: OVERDUE is stored and swept hourly though `docs/01-technical-requirements.md:136`
derives it, and `ck_invoice_issued_has_number` refuses every void of a draft,
which `sales/models.py:192` allows.

**Page** (`Client`, `EntryForms`)

| Property | Claim | What the code does |
|---|---|---|
| `SessionLasts`, users with "linger" | parallel requests share one refresh (`docs/07-frontend-architecture.md:730`) | each refreshes by itself, and `app.js:130` keeps the old refresh token while `settings/base.py:366` rotates and blacklists it: the user is signed out |
| `FilesAreUploaded` | files are uploaded once the invoice is saved (the form, `app.js:1400`) | after a password prompt that is cancelled or a proof that expired, the draft is saved and the queue dropped |
| `OncePerForm`, a user who does not wait, or `Loses` | a retried click cannot double-post (`app.js:3165`) | the key is made per call, and each click makes a draft of its own |
| `FilesFollowTheirForm`, `ScreenIsTheAddress`, a user who does not wait | | a save in flight takes the next form's queue and closes it; a late answer paints over a newer screen |
| `ReopenedIsTheSame` | the money is identical, only the phrasing changes (`app.js:1619`) | a rate of six decimals is shown as a percentage with two |

By reading: a fixed discount on a gross of 10 000.00 and more is not exact; the
balance button overwrites the amounts of the row it is used on.

**Stock, costs, reports**

| Property | Claim | What the code does |
|---|---|---|
| `Stock!PromisesKept` | a sale must not eat reserved units (`stock.py:217`) | issuing an invoice consumes reservations of any order |
| `Stock!DriftIsReal`; `LevelIsTheLog` with `Repair = TRUE` | what is reported has drifted (`stock.py:442`) | the sum is read before the level is locked; the repair writes it over what moved since |
| `WholeDocument` with `OneDesk = FALSE` | an adjustment is posted once | an edit of its header writes the status back that it read |
| `Prices!EveryChangeTakesEffect` | concurrent changes are serialised (`stock.py:596`) | a change that waited sees its rows ended, and the successors it never selected |
| `Valuation!NothingLost` | nothing is lost through rounding (`stock.py:259`); drift must be zero (`operational.py:877`) | an emptied bin writes its value off the level only |
| `Valuation!BatchesAreConsumed`, FIFO | an issue is valued at the batches it consumes (`stock.py:863`) | an issue that names no batch is valued at the open batches and takes from none of them |
| `Statements!CashIsExplained` | the unexplained difference must be zero (`financial.py:1061`) | accounts no section takes up; bad debt twice |
| `Statements!SheetBalances` | one atomic block gives every query one snapshot (`snapshot.py:138`) | READ COMMITTED does not |
| `Statements!AgingIsTheControl` | the aging total is the control account (`operational.py:84`) | lines without a customer are left out |

By reading, in reporting: ratios count a discount as a sale; the balance sheet
is out in every second fiscal year and then refuses to be drawn, and so do
trial balance and sheet under a department or project filter; a snapshot's
checksum covers `generated_at`, so two are never identical; the opening figure
of a filtered account ledger starts from the filtered rows; an invoice with two
rates on one tax account tags all of it with the first.

**People**

| Property | Claim | What the code does |
|---|---|---|
| `Payroll!CancelledFreesOvertime` | a discarded run must not strand its slips (`engine.py:941`) | cancelling a run does not release them |
| `Payroll!ApprovedIsNotCancelled`, `LedgerIsCommitted` | only runs that are not approved can be cancelled (`payroll/viewsets.py:355`) | the transition table allows it; and a second approval that arrives late makes a posted run approved again, which can then be cancelled while its accrual stands |
| `Payroll!RegisterTies` | the register ties to its payroll entries (`operational.py:432`) | it includes runs that were never posted and cancelled ones |
| `MCAmounts!PayrollDeductsTheLeave` | approved leave days are deducted (`engine.py:285`) | payroll counts calendar days and both halves of a single day, the balance working days (`leave.py:87`) |
| `Leave!AvailableAddsUp` | the invariant of `LeaveBalance` (`hr/models.py:1050`) | a PATCH of `adjusted_days` changes the part and not `available_days`, and writes back every other column it read |
| `Leave!EveryBalanceAddsUp` | days are computed from the dates, not named by the client (`hr/serializers.py:414`), and held where they are given back | a PATCH moves a live request to another employee, type, year or range (`hr/serializers.py:425`); `total_days` stays, and `leave.py:300`, `:433`, `:510` and `:564` look the balance up by what the row says then; a PATCH of a balance may rename it |
| `Leave!EveryMonthGrantedOnce`, `Short = FALSE` | a second accrual in a month is a no-op (`leave.py:609`) | `last_accrued_on` is the client's to write (`hr/serializers.py:407`) |
| `Leave!NoDoubleBooking` | two live requests cannot overlap (`hr/models.py:1122`) | checked without a lock; migration `0004_leave_overlap_exclusion` does not exist |
| `Staff!LeaversStayGone`, `OneDesk = FALSE` | terminated is terminal (`hr/models.py:258`) | an edit writes the status back that it read |
| `Staff!RevisionsStand`, `RevisionsChain` | revisions are never updated (`hr/models.py:528`), the old salary is not misstated (`hr/viewsets.py:350`) | the endpoint allows PATCH; the old salary is taken from `Employee.base_salary`, which no revision updates |
| `Staff!EveryDayHasItsHours` | hours are computed from the times (`hr/serializers.py:292`) | of a day that a supervisor enters with both times they stay 0 (`hr/serializers.py:301`) |
| `Staff!HoursAreTheTimes`, `Corrects` with "times" | the same, once somebody has checked out | a correction of the times leaves the hours |
| `Organisations!OwnAccountsStay` | seeding moves nothing of one's own (`english_chart.py:208`) | a release gives a role to an own account at the place of a new default |
| `Organisations!BooksInBase`, `SettingsMerge`, `OneDesk = FALSE` | base currency is fixed once posted (`tenancy/models.py:61`), settings merge (`tenancy/serializers.py:98`) | both are decided on a copy |
| `Roles!DeletedStays`, `OneDesk = FALSE`, two desks | | an edit under way inserts the deleted role again |
| `Scopes!SubtreeIsTheBranch`, `Builds = FALSE` or `Moves = TRUE` | paths are kept by `apps.hr.services.org` (`hr/models.py:64`) | there is no such module; only the demo seed builds a path, once |
| `Scopes!UnlinkedSeeNothing` | every strategy about employees denies a user without an employee record (`abac.py:173`) | `own_record` then is `created_by_id`, his user (`abac.py:291`), which all five of those resources keep as their owner column (`abac.py:60`); payslips carry whoever calculated them (`payroll/services/engine.py:1034`), so an officer of earlier days still sees those |
| `Scopes!OwnerSeesAll` | an owner is never narrowed (`abac.py:257`) | a narrower rule of a second role replaces having none |

**Documents**

| Property | Claim | What the code does |
|---|---|---|
| `Payables!RejectedCostsNothing` | a cost nobody accepted is not tolerable (`expenses/services/posting.py:258`) | a claim may be rejected while its accrual commits |
| `Payables!NoPaymentStranded` | a void would strand a payment (`expenses/viewsets.py:574`) | `paid` is read from a copy |
| `Payables!WithholdingCanPost` | a bill that withholds tax is posted (`test_bill_posting.py:137`) | `total_amount` is stored net of the withheld part (`expenses/serializers.py:457`) and the entry takes it off again, so its sides differ; the test builds its bill with a gross total |
| `Payables!OnlyApprovedArePosted` | posting is for approved bills (`expenses/viewsets.py:587`) | the status is not checked |
| `BankRec!AutoKeepsMatches` | every line is committed by itself (`banking/viewsets.py:381`) | the request is one transaction; a failure at its end loses all |
| `BankRec!LedgerLineNotOverclaimed` | never over-applies either side (`reconciliation.py:346`) | only the bank line is locked |
| `BankRec!ClosedStaysClosed`, `SignedOffMatchesStay` | closed is terminal (`banking/models.py:503`), its matches stay (`reconciliation.py:447`) | a run and an unmatch that read it open write over it |
| `BankRec!ReconciledIsClaimed`, `ReconciledIsExplained` | `reconciled_at` is what is claimed (`:474`), in whole (`:417`) | it is stamped on a residual read without a lock on the ledger line, and cleared only with the line's last match: a line that lost one of two matches stays stamped |
| `Timesheets!NeverBilledTwice`, `OneDesk = FALSE` | an entry is invoiced exactly once (`projects/models.py:348`) | a PATCH writes "approved" back |
| `Idempotency!OncePerKey` with `Faults = {"overlap"}`; `ToldIsDone` | a replay returns the same object (`core/viewsets.py:402`) | the cache is written before COMMIT and looked at before the first request is done |

By reading: submitted, approved and invoiced time entries can still be
PATCHed, so hours may change after billing (`projects/viewsets.py:313` says
they leave the author's control).

**Platform**

| Property | Claim | What the code does |
|---|---|---|
| (by reading) | every schedule that is due is run (`reporting/tasks.py:90`) | the beat schedule has no entry for the task (`config/celery.py:93`) and nothing else sends it; and its query for due schedules runs with no tenant bound (`reporting/tasks.py:118`) on a table where row-level security is forced (`tenancy/migrations/0002_row_level_security.py:179`), so that the provisioned role sees none. A superuser would, which `tenancy/checks.py:75` refuses |
| `Schedules!PickedUpOnce` | a failing schedule is not picked up at the next tick (`reporting/tasks.py:103`) | the move forward is rolled back with the failure |
| `Schedules!DeliveredOnce`, two workers | | a second sweep acts on its own list |
| `Tenancy!GuardsAgree` | the previous tenant is restored on both layers (`core/tenancy_context.py:75`) | a released savepoint keeps the setting |
| `Team!AlwaysAnOwner`, `OneDesk = FALSE` | the last owner cannot be removed (`team.py:14`) | the other owners are counted without a lock |
| `Team!NextRequestIsRefused` | takes effect on the next request (`iam/viewsets.py:174`) | the entry is dropped before COMMIT |
| `Invitations!EndedStaysEnded`, `OldLinkIsDead`, `PendingCanBeAccepted` | only pending moves (`iam/models.py:427`), no two live links (`invitations.py:288`), the membership is there (`iam/models.py:399`) | decided on copies |

Others that were met while reading and are not modelled: the overdue task uses
the server's date, not the tenant's; two imports of one statement can both pass
the duplicate check; statement lines are not checked against the opening and
closing balances that `BankStatement` documents; an overtime slip can be
PATCHed after approval; a month of leave that was missed is not caught up; the
migration of encrypted personal data that a docstring names does not exist; the
EXPIRED status of an invitation is rolled back by the refusal it belongs to;
revisions never reach `Employee.base_salary`; nothing sets
`AttendanceRecord.approved_at` or copies the scheduled shift at check-in; the
HR dashboard's coverage counts leavers with open assignments.

## 11. What is proved, and what is only checked

All theorems hold for any number of workers, rows and amounts, from the
assumptions on constants of the module and, where the table says so, from one
more: that an interleaving which the code does not exclude, and which breaks
the property (section 10), does not happen.

| Theorem | States | Assumes |
|---|---|---|
| `LedgerProofs`: `Types`, `EventPostedOnce`, `NumbersAreGapless`, `ClosedPeriodsDoNotMove`, `TerminalStays`, `MirrorsMatch` | `TypeOK`, `OneEntryPerKey`, `GaplessNumbers`, `OnlyOpenPeriodsMove`, `TerminalIsFinal`, `ReversedIffMirrored` | |
| `DraftsPostOnce` | `DraftBecomesOneEntry` | `ClientKey = {}`: no client replaces the key of a draft |
| `BalancesTie` | `BalanceTies` | `OneVoider`: one worker voids |
| `ReceivablesProofs`: `Types`, `StatusesFollowMoney` | `TypeOK`, `StatusFollowsMoney` | |
| `MoneyAddsUp`, `CorrectionsFit`, `SettledStays`, `IssuesAreRecorded`, `PagesAddUp` | `ReceiptsAddUp`, `CorrectionsTakeTheRest`, `SettledIsFinal`, and the parts `IssueIsRecorded` and `PagesAgree` of `InvoicesAreAsked` | `OneDesk`: no draft is issued while it is edited |
| `StockProofs`: `Types` | `StockTypeOK` | |
| `LevelsAreTheLog`, `PromisesStayOnShelf` | `LevelIsTheLog`, and `PromisesOnShelf`: no oversell | `~Repair`: the nightly comparison only reports |
| `StockIsKnownAndPriced` | `KnownAndPriced` | `~Repair` |
| `DocumentsAreWhole` | `WholeDocument` | `OneDesk`: nobody edits an adjustment that is being posted |
| `StockIsAtomic` | `DocumentsAreAtomic`, the refinement of `Shelf` | `OneDesk` and `~Repair` |
| `PricesOfThePastStand` | `HistoryKept`, the action property in `EndsAndPastStands` | |
| `DocumentsProofs`: `Types` | `PayablesTypeOK`, the payables part of `DocumentsTypeOK` | |
| `TheBillIsOwed`, `MoneyGoesOutOnce` | `ObligationIsTheBill`, `PaidOutOnce` | `OneDesk`: an author's request has its document to itself |
| `DocumentsTypes`, `EveryMatchIsExplained` | `DocumentsTypeOK`, `MatchedIsExplained` | |
| `DoneOnlyOnce` | `DoneOnce` | `OneDesk`, and `Faults = {}`: no repeat overlaps, the cache remembers |
| `PeopleProofs`: `PayrollTypes` | `PayrollTypeOK`, the payroll part of `PeopleTypeOK` | |
| `PaidOnceAndAsFiled` | `PaidByTheRules` | `OneOfficer`: a request that prepares a run or a slip has them to itself |
| `TimesAddUp` | `TimeAddsUp` | `OneOfficer`, and `Corrects \subseteq {"status"}`: supervisors correct the status of a day, not its times; with and without `Short` |
| `OrganisationProofs`: `PeopleTypes` | `PeopleTypeOK` | |
| `OrganisationsStay` | `OrganisationsStand` | `OneOfficer`; `Builds` and not `Moves`: departments get a path and keep their place |
| `PlatformProofs`: `TenancyTypes`, `TenantsApart`, `PlatformTypes` | `TenancyTypeOK`, `OnlyItsTenant`, `PlatformTypeOK` | |
| `SentOnce` | `DeliveredOnce` | one worker runs the sweeps |
| `TheTeamIsRuled` | `MembersAgree` | `OneDesk`: one request at a time changes the team |

### `LedgerProofs`

None of the properties is inductive: each depends on what a request holds at
the statement it has reached. `LedgerInv` (end of `Ledger`) says so per worker:

* `Placed` and `PendingRow`: which locals each place relies on, and that the
  row to be inserted is nobody else's and not in the table;
* `TargetKnown`: what a request may still believe of the row it read earlier.
  This separates what survives a concurrent commit (a non-draft keeps its
  period and lines) from what does not (its status);
* `HoldsPeriod`, `HoldsNumber`, `HoldsKey`: past a statement, its lock is held
  and what was checked under the lock still holds: the period is open, the
  number is the row's next value, no entry has the key.

`EntryInv` adds what every row satisfies. The proof that a step preserves the
invariant separates the worker that moves from the others. A `Frame` lemma
says what a step of one worker may do to the shared state (take free locks,
release its own, change only rows whose lock it holds); `OthersKeep` shows
once that any such step keeps the other workers' invariant; each action then
has a lemma for its own worker. The four commits share the lemmas about
`CommitLedger`.

`Life` is what one step may do to one entry; `TerminalStays` is part of it.
`MirrorsMatch` and `DraftsPostOnce` need the past: `History` says of every
reversed entry that its mirror is there, of every mirror what it mirrors, and
of every entry posted from a draft that the draft is retired (`Lineage`), and
of a request what the row it is about to insert says of these (`Origin`); uniqueness of keys does the rest, since a reversal and a draft
have a derived key each.

`BalancesTie` adds up. `cached_balance` of an account is a sum over all
entries of sums over their lines; a commit changes one entry, or one entry and
its mirror. `UnwindInv` says what a voiding request carries: it unwinds the
lines of an entry it read as posted, and nobody else has voided that entry
since. The last clause is where `OneVoider` is used, and the only one that two
voiders break.

### `ReceivablesProofs`

For `StatusesFollowMoney` a row is prepared in one step and committed in
another, and an edit writes back what it read earlier. `WorkAgrees` adds that a
prepared row agrees like a stored one, that an edit has read a draft without
payments, and that an allocation has a receipt. There is one lemma for each way
the state is written, and one for each action, which has to show only that the
row it writes agrees. The argument does not need the locks, and that is what it
says: no order of requests can make the columns of *one* row disagree, since
every writer derives all of them from one another.

The locks are needed for what relates rows to applications. `Money` says it
for every invoice (`RowMoney`: paid is the sum of what was applied, the entry
is the total while the invoice stands), receipt (`ReceiptMoney`) and worker
(`WorkMoney`: of an invoice it holds, what it is going to write is the
committed sum and what it applies itself). `PagesAddUp` then needs no step of
its own: each page is a sum over a part of the invoices, and the parts are
disjoint and complete.

### `StockProofs`

`Inv` is `Typed` and `OwnsRows`: a worker on its lines holds its document, and
only such a worker holds rows. `LevelInv` adds `Shifting(w)`: of a bin that
`w` holds, its view is the committed level and what it has moved; of a bin it
does not hold it has moved nothing. A frame lemma (`ShiftingKept`) carries it
over the steps of others, because levels change only under the lock. `DocInv`
adds `Processing(w)`, that the lines before the current one have been moved
once and no other has, and `Editing(w)`, that a form shows the status of its
document and nobody else is at it, which is where `OneDesk` is used.

`StockIsAtomic` maps a state of `Stock` to what is committed: quantities on
hand, promises, documents that are done. All steps but a few are stutters; the
step that matters is the commit of a document, which is one step of `Shelf`
although its lines were checked one after the other, some statements ago.
`DrawnInv` carries this to the commit: `Drawing(w)` says that what a worker has
moved of a bin is the sum of its lines before the one it is at (`Shelf!Moves`,
added up by `SumTheorems`), and that an invoice took it from the promises
first. A bin that is locked does not change, so at the commit the sum is that
of all lines, which is `Shelf!Effect` (`CommitCompletes`).

`StockIsKnownAndPriced` has three invariants, one for each part. `KnownInv`
says of a worker which bins it found low and will report (`Noting`): the alert
is written at the commit, and others may be acknowledged before. `PricesInv` is
`OneRowADay`, that each day has exactly one row: `Apply` looks at its rows
again, so an ended row and its successor split the days of the old one between
them. `CostsInv` keeps twice the value `Near` to twice quantity times average,
by no more than `rounded`, and `Near` to the inventory account, by no more than
`lost`. Quantities are multiplied by averages, so each step is first an
equation between products, then linear.

### `DocumentsProofs`

In `Payables` every verb decides on a copy. `Knows(w)` is what the copy still
says when the verb writes: the amount is the amount there is, an author holds
the very row, and what was past editing is so still (`Exclusive`: nobody is at
a document beside its author). `BillInv` and `ClaimInv` tie the document to
what the ledger holds for it.

The other parts have an invariant each, and it is shown once
that a step of one part leaves the others alone (`OnePartMoves`).

* `BankInv`: a request writes only bank lines it has locked (`Holds`), and
  each line, taken together with what the request is going to write, is
  explained by no more than it moved, and in whole where it is going to be
  matched (`Explained`). An automatic run carries many lines at once and
  commits them together, so this is stated for every line of every request. An
  unmatch takes away the very matches it read (`Releases`), and puts the line
  back on the worklist, so nothing is said of what remains.
* `TimeInv`: of the entries a run or a bulk approval has locked, what it
  checked under the lock still holds (`Keeping`: approved and unbilled, or
  approvable by its user), whatever is rejected or approved beside it. A run of
  grouped entries that is let through has groups of one, so it writes one line
  for each of them. `EditsAlone` is where `OneDesk` is used: without it a PATCH
  writes "approved" back over "invoiced". That the figures tie is then a sum,
  entry by entry.
* `RetryInv`: a key of a plain service has one request at a time and is
  remembered once it is done; a guarded one has one request between its
  service and its COMMIT, and that one has looked (`Plain`, `Secured`).

### `PeopleProofs`

The rows of payroll are read before they are locked, and some writes are of all
columns, so `PaidByTheRules` does not follow from the rows alone. `PayrollInv`
has five parts:

* `PayrollTyped`: types, and which kind of document a verb is about;
* `Apart`: a request that prepares (calculates, submits, edits, cancels,
  rejects) has its documents to itself, a calculation also the slips of its
  period. This is `OneOfficer`, and the only place where it is used;
* `RunOK`: what a run says of its payslips and of the ledger: the total is what
  the payslips pay, past approval there are two people, past posting there is
  an accrual of that amount, and past payment a disbursement;
* `StillTrue`: what a request may rely on of what it read. Approval, posting
  and payment overlap freely, so of their copy only what later steps keep is
  claimed: whoever read "approved" finds a run that is approved, posted or
  paid. A calculation knows more, since nobody else is at its run;
* `Claims`: a slip names a run exactly when it is on the payslips of that run.

A request ends in one step (`EndStep`) or moves on without writing
(`QuietStep`), and `OthersKeep` says once which changes of the rows leave
`StillTrue` of the other requests as it was. `ReportsAgree` needs no step of
its own: sums of equal columns are equal.

`TimesAddUp` has one invariant for leave and one for personnel. `LeaveInv`:
the columns of a balance outside `strayed` are sums over the requests that name
it, in each group of statuses (`LeaveSums`), the status of a request and its approval steps tell the same
(`LeaveRowOK`), and a request finds the row it has read (`LeaveTold`), since it
has it to itself (`LeaveApart`; this is `OneOfficer`). A decision moves one
summand from one sum to another, so each step is a fact of `SumTheorems` and a
linear equation. `StaffInv` has the same two facts about copies (`DesksApart`,
`Current`), and says that who is not employed has left on a day (`Employed`)
and that who has checked out did so in the past, with the hours of his times
(`Timely`): without that, an arrival after the departure could add hours that
nobody recorded. That payroll and dashboard count the same days is then an identity
of two sums over the same days, one of twos and ones, the other of two
cardinalities (`TwosAndOnes`, `PairsAddUp`).

### `OrganisationProofs`

It extends `PeopleProofs` by the parts without amounts.

* `OrgInv`: a signup has its organisation to itself from its first insert, its
  slug too, and its email once the user is inserted (`SignupAlone`), which is
  what the unique indexes hold until it ends; an organisation that is there is
  `Whole`: an owner, every month, and an account for each role that services
  look up, none twice. Releases keep that because every one has the roles of the
  first (an assumption on `Template`, true of `required_system_keys`) and
  seeding refuses to give a role a second account (`CanSeed`). `OneOfficer` is
  used only for the currency of the books (`SettingsAlone`).
* `RolesInv`: a shipped role bundles what the file deployed last says, a custom
  one at most what was asked for, and nothing bundled or granted is gone.
* `ScopesInv` is `Rooted`: the path of a department is its parent's and itself.
  The departments whose path goes through one are then the smallest set that
  contains it and every child of its members, which is `Branch`. That one more
  role shows no row less is an argument about strategies: those of a resource
  form a chain (`Chains`, an assumption on the rules, true of
  `permissions.json`), and each strategy of a chain shows what the narrower
  ones show.

### `PlatformProofs`

The invariant of `Tenancy` says of every worker what its stack of blocks will
restore: nothing but its own tenant or none, and a bypass of row-level security
only to the lookup it came from (`BlockOK`); of every connection in use, that
its settings are such, too (`BoundTo`); of every other one, that it is free
(`Pooled`). A block may fail and roll a savepoint back, which restores the
session but not the context; `BoundTo` is weak enough for that and strong
enough for `OnlyItsTenant`.

For `SentOnce` the times a sweep has read must still be the times of the rows
when it comes to them: `StillDue` says that every schedule left on its list is
due at the time noted there, and that no schedule is on it twice. Then the row
that is moved has not been delivered for its time (`DeliveredOnce` says that
deliveries lie behind `next_run_at`), and `AdvancedPast`, by the least number
principle, that it moves past the time of the sweep. The types need less and
no assumption on the number of sweeps.

For `TheTeamIsRuled` a change is read, decided and written in three steps, so
`Ruled` says that the row to be written leaves an owner who can act, and that
nobody else is at it. `OffersInv` is `TracesAgree` with the types of what
requests have read: it is inductive because a refused write rolls back all of
its request.

### `SumTheorems`

Sums over finite sets of any size: `Total` is the recursion that the folds of
the community modules unfold to, and the lemmas say that a sum exists, does not
depend on the order, adds, changes by the difference of one summand and may be
exchanged with another. The library's induction theorems take an operator as a
parameter, which the provers cannot instantiate. `OneByOne` goes around that:
the subsets of a finite set are well-founded under strict inclusion, so a *set*
of subsets that contains the empty one, and each of its members with one
element more, contains them all. Induction of this kind works for sums because
a set can be the hypothesis.

### Only model-checked

* Liveness (`RequestsEnd`, `FlagConverges`, `EndsAndPastStands`, `BatchesEnd`,
  `PlatformMovesOn`) and everything with ENABLED: out of the prover's reach.
* `NumbersAddUp`: calculations of payroll, forms and taxes compared with a
  reference for every bounded input. Their definitions recurse over data, and
  only induction with an operator parameter would settle them.
* `StatementsTie`: its figures are sums under a filter each, over a chart of
  some thirty accounts by name, and the paths of accounts recurse over data.
* `PageKeepsItsWord` and `RemindedOfWhatIsOwed`, the rest of
  `InvoicesAreAsked`: a page with sequences of functions that are under way.

## 12. Not modelled

* Serialisation, routing, pagination, logging, metrics, error envelopes, rate
  limiting: they change no state the properties are about.
* Infrastructure, scripts, migrations that create tables (their constraints and
  triggers are part of the actions they refuse).
* Login, tokens on the server's side, API keys, passwords, encryption: state
  correctness of the business documents does not depend on them.
* The import of bank statements and the text score of a candidate; recurring
  profiles; attachments on the server; credit notes, which never leave draft;
  vendor credits, which nothing applies; receipts and returns of goods, which
  no caller makes; payment gateways, of which there is only an interface.
* The formula evaluator of payroll components, bank files, salary structures;
  departments' heads, shifts and holidays, documents of employees.
* Exports, filters and paging of reports.

`PROJECT.json` lists every component with its status and reason. The list of
hazards is of the main ones; those that go wrong are in section 10.

## 13. What could come next

1. Theorems for what is still only checked and has no data to induct over:
   the page (`PageKeepsItsWord`), and the reports drawn from one journal.
2. An abstract `Books` (periods and a set of posted entries that one atomic
   step extends) which `Ledger` refines, and its composition with
   `Receivables` to state X-01 of `docs/04-state-machines.md` end to end.
3. The import of bank statements beside two reviewers; report snapshots under
   two users.

No module that carries theorems uses RECURSIVE operators; sums are folds.

## 14. Running it

    tlc -workers 2 -config ledger_live.cfg MCLedger.tla
    tlc -workers 2 -config recv_apply.cfg MCReceivables.tla
    tlc -workers 2 -config recv_cases.cfg MCReceivablesCases.tla
    tlc -workers 2 -config stock.cfg MCStock.tla
    tlc -workers 2 -config people.cfg MCPeople.tla
    tlc -workers 2 -config documents.cfg MCDocuments.tla
    tlc -workers 2 -config platform.cfg MCPlatform.tla
    tlapm LedgerProofs.tla        (and every other *Proofs.tla, SumTheorems.tla)

Each run takes one to four minutes, each proof module one to fifteen. To look at one part of
`people` alone, set its `Parts` to, say, `{"leave"}`.
