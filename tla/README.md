# Verification of dodoo

TLA+ models, TLC runs and TLAPS proofs for [dodoo](../src/README.md), an
Odoo-like ERP in Python: an asyncio server (FastAPI, SQLAlchemy async) over
PostgreSQL, with addons for accounting, stock, human resources and fleet.

The project covers accounting (documents and their numbers, the tamper-evident
hash chain, reconciliation, payments, invoice lines, reversals, year closing and
reports, foreign currency, bank statements, payment terms), inventory (quantities
and transfers, valuation, replenishment, warehouses), the people addons (time off,
contracts, recruitment, appraisals, directory, fleet) and the platform as far as it has
a protocol of its own (installation, settings, access rules). The last section says
what comes next.

## 1. What is difficult about this program

The server is one process with one event loop and a pool of database connections.
A call of the API is a Python coroutine. Nearly every helper opens
`get_connection()` (`core/db.py`) for itself, so a call is **a sequence of short
transactions** in READ COMMITTED, and between two of them any other call may run.
Three patterns recur in the whole code base:

* *read, release, use*: the state of a record is read and checked in one
  transaction and overwritten, by id and without a condition on the state, in another
  (`action_post`, `action_cancel`, `AccountMoveLine.write`, `action_validate` of
  leaves, `action_apply` of counts);
* *several commits for one call*: posting recomputes and commits lines before
  it checks them; `reconcile_lines` commits residuals before it marks lines;
  a failure or a crash in between leaves the first part behind;
* *one lock does all the work*: the upsert of an `account_sequence` row
  (`INSERT .. ON CONFLICT DO UPDATE .. RETURNING`) holds the row until COMMIT. It is
  what keeps numbers unique, and, although nobody says so in the code, what
  keeps the hash chain in one piece.

## 2. Inventory

| Component (source) | State | Operations | Interacts with | What makes it correct | Status |
|---|---|---|---|---|---|
| Documents (`account_move.py`, `account_move_line.py`) | `account_move`, `account_move_line` rows | create, write, unlink, post, reset, cancel, reverse, debit note; create/write/unlink of lines | numbering, hash chain, reconciliation, lock dates | posted documents balance, keep their lines, leave the ledger by reset only, never in a closed period, never while matched | `AccountMove`, `Ledger` |
| Numbering (`account_sequence.py`) | `account_sequence` rows | `get_next_sequence` | called inside the posting transaction | one number, one document, for ever; a rolled-back posting returns it | `NumberRegister`, `AccountMove` |
| Hash chain (`account_move.py`) | `inalterable_hash`, `secure_sequence_number`, the journal's option | `_compute_hash_chain`, `verify_hash_chain`, reset guard | numbering | an untampered journal verifies, the record only grows | `HashChain`, `AppendLog` |
| Reconciliation (`account_reconcile.py`) | partial and full reconciles, residuals and flags of lines | `reconcile_lines`, `_post_writeoff`, `unreconcile`, `suggest_matches` | documents, payments | residual = balance - matches; a settled line is backed by its full reconcile | `Reconciliation`; foreign amounts `Currency` |
| Invoice lines (`account_move.py`, `account_tax.py`, `account_cash_rounding.py`) | lines by `display_type`, totals | taxes, cash rounding, down payments, AR/AP line, `recompute_totals` | posting | an invoice posted again is the invoice that was posted | `InvoiceLines`; conversion `Currency` |
| Payments (`account_payment.py`) | payments and their entries | post, register against invoices, early discount | documents, reconciliation | an invoice or an entry is never matched beyond its amount; what is matched is posted, by registrations only the entry of the payment | `Payments` |
| Bank statements (`account_bank_statement.py`) | statements and their lines | enter, confirm, match, split | documents, reconciliation | matching never changes what a statement adds up to; statements run on | `BankStatements` |
| Currency, revaluation (`account_move.py`, `account_reconcile.py`) | rates, foreign amounts, exchange and revaluation entries | convert, match, realize, revaluate | documents, reconciliation | what is left is left at the booked rate; a revaluation shows the closing rate | `Currency` |
| Year closing, reports, partner ledger (`account_move.py`, `account_report.py`, `account_partner.py`) | closing entries | close; trial balance, profit and loss, balance sheet, aged report, partner balance | documents | closing twice closes once; the sheet balances; the reports agree | `Ledger`; tax and analytic reports not modelled |
| Payment terms (`account_payment_term.py`) | lines of a term | add, write, instalments, due dates | invoices | instalments add up to the total | `PaymentTerms` |
| Chart of accounts, journals, fiscal positions, lock exceptions | master data | record keeping | documents read codes, options and lock dates | effective lock date | as far as posting reads it |
| Stock quantities (`stock_quant.py`, `stock_move.py`) | quants, reservations, moves | adjust, reserve, unreserve, done, count | transfers, valuation | quantity = move lines; what is reserved is wanted by an open move | `Stock`, without lots and packages |
| Transfers, scrap (`stock_picking.py`, `stock_scrap.py`) | pickings and their moves | confirm, validate, cancel, return, backorder, scrap | quantities | each unit moved once, the backorder has the rest, nothing below zero | `Stock` |
| Replenishment, routes (`stock_orderpoint.py`, `stock_route.py`) | orderpoints, routes, rules | reorder, add a rule | transfers | a route ends; a shortage is ordered once | `Replenishment` |
| Warehouses (`stock_warehouse.py`) | locations, operation types | configure, `action_apply_steps` | transfers | the layout leads from vendors to customers in as many steps as configured | `Warehouse` |
| Lots, packages, putaway, storage | master data | record keeping, validation | transfers | - | not modelled: single-record validation |
| Valuation (`stock_valuation_layer.py`) | layers, average cost, entries | `value_move` | stock moves, documents | the account = the layers = what is in stock | `Valuation` |
| Time off (`hr_leave.py`, `hr_leave_allocation.py`) | leaves, allocations | request, approve (one or two steps), refuse, accrue | employees | requests are not for the same moment and do not exceed the allocation; approved by others | `TimeOff`, `Accrual` |
| Contracts (`hr_contract.py`) | contracts | create, dates, transitions, expiry | employees | one contract runs | `Contracts` |
| Recruitment, referrals (`hr_applicant.py`, `hr_referral.py`) | applicants, referrals | apply, stages, refuse, hire, submit | employees | links go both ways; one applicant, one employee | `Recruitment` |
| Appraisals (`hr_appraisal.py`) | appraisals, next date | launch, transitions | employees | a finished one has planned the next | `Appraisals` |
| Employees, departments, skills (`hr_employee.py`, `hr_department.py`, `hr_skill.py`) | the tree, logins, skills | create, move, link, grade | everything in HR | trees without cycles, one employee for a user, levels of the skill's type | `Directory` |
| Fleet (`fleet_vehicle*.py`) | vehicles, readings, service contracts | assign, read, sign, expire | employees | no driver is forgotten, a lower reading is marked, what ran out is alerted | `Fleet` |
| Module loader and installer (`modules/`) | `ir_module` rows, tables | load, install, upgrade, post_install | everything | dependencies first; a server that is up is complete | `Deployment` |
| Pool and transactions (`core/db.py`) | connections | `get_connection` | everything | every request gets a connection again | rollback is in every module; the pool is not modelled |
| Models, registry, environment (`core/`) | metadata | create, write, unlink, search | everything | - | the calls documents make |
| Domains, access rules (`core/query.py`, `auth/access.py`) | rules, groups | compile, merge, search | all models | global rules are ANDed, group rules ORed, a malformed one fails closed | `AccessRules` |
| Sessions (`auth/`) | tokens | create, look up, delete | HTTP | - | not modelled: a statement each |
| HTTP, JSON-RPC, middleware (`http/`) | context of a request, language cache | dispatch | everything | a request sees the company's language | `Settings` has the cache |
| Settings, localization (`res_config_settings.py`, `localization/service.py`) | the company, taxes | save, apply a package | documents | no tax twice, no save lost | `Settings` |
| Products, units, analytic, base | master data | record keeping, conversion | - | - | not modelled: no protocol |
| Web client (`addons/web`, static views) | browser | - | JSON-RPC | - | not modelled: user interface |

`.github`, `.specify`, `docs` and `tests` are tooling and text. The hazards of the code
are listed with their lines in `PROJECT.json`, those not yet covered included.

## 3. The modules

### 3.1 `AccountMove`, with the abstract `NumberRegister`

*Parameters*: documents, concurrent requests (`Workers`), journals, document types,
a calendar of two years, the balances lines may have, the calls the clients
make, and two assumptions about the clients (below).

| Variable | Code |
|---|---|
| `state`, `head` | the columns `state`, `journal_id`, `move_type`, `date`, `name`, `posted_before` of `account_move` |
| `lines` | the accounting lines, as far as posting asks: is there one entered by hand, their balance, and the generated AR/AP line |
| `matched` | is a line in `account_partial_reconcile`? |
| `lastNo`, `rowLock` | `account_sequence.last_no`, and who holds the row |
| `lockDate` | what `_get_effective_lock_date` returns |
| `req` | the local variables of the coroutines between their transactions: above all the header `seen` in the first one |
| `drawn` | history: which number was committed for which document |

One action is one transaction, or the part of one between two lock
acquisitions. Posting is
`PostBegin` (state and header are read), `PostPrepare` (currency conversion,
taxes, cash rounding, down payments and the AR/AP line, committed whatever happens
later), `PostCheck` (lines, balance, lock date, name), `PostNumber` (the upsert)
and `PostCommit`. Reset, cancel, header write, unlink, line write and match are a
read and a write. `Refused` is a guard that raises, `RequestFails` any other end of a
request before its commit: a disconnect, a database error, a crash of the server.

Points where the model differs from the text of the code:

* *Journal codes* are their alphabetical ranks: names compare as strings
  `<code>/<year>/<0000>` in `action_post`, hence `NameLess`. A code belongs to one
  journal.
* *`Recomputed`* lets the first transaction of a posting leave any balance
  of `Amounts`; how it is computed is the subject of `InvoiceLines`.
* *Lock dates* of the five kinds and their exceptions, per user, are one effective
  date that may move either way at any time.
* *PostCheck* is several statements of one READ COMMITTED transaction; nothing it
  reads is read twice.
* *Row locks of the document itself* (the lock-date guard may UPDATE the header
  before the number is drawn) are left out. They only take interleavings away; a cycle of
  a document row and a numbering row is ended by PostgreSQL's deadlock
  detection, which is `RequestFails`.
* *`write`* changes the fields a client sends. The generic JSON-RPC write
  would take `state` as well; clients that write it directly are excluded.

Two assumptions about clients are parameters, because the code does not enforce them.
`OneAtATime`: nobody has two requests open on one document. `FrozenLines`: lines
are created and deleted in drafts only (`AccountMoveLine.write` looks at the
state, `create` and `unlink` do not). The run `posting` makes both; `numbering`
does not make the first, and the run `cancel_race` shows what happens without it. Of the
theorems, those about numbering make neither; the others name the ones they need (section 5).

`NumberRegister` is the promise of ADR-002: numbers of a key go out one after
the other, each to one document, for ever. `ImplementsRegister` is the refinement
with `last <- lastNo` and `owner <- drawn`.

### 3.2 `HashChain`, with the abstract `AppendLog`

The part of `action_post` between the numbering row and the commit, for one
journal with `restrict_mode_hash_table`: `PostNumber` locks the row
`<code>/<year>`, `PostLink` reads the option and the latest hash (greatest
`secure_sequence_number`, without a lock), `PostSecure` draws the secure number from
`HASH/<code>/<year>`, `PostCommit` writes hash and numbers. `Write`, `Reset` and
`SwitchMode` are the draft edits, the reset a hash forbids and the option, which is
an ordinary field. A hash is the sequence of contents it covers: SHA-256 is
taken as injective. `Orders` and `Verifies` are `verify_hash_chain`.

`LoneReposts`: a document posted again under its kept name takes no
numbering row, so nothing orders it with a posting that is running; the passing run
posts such a document alone. `AppendLog` says that the record of the
journal (what its latest hash covers) only grows at the end.

### 3.3 `Reconciliation`

Receivable and payable lines of posted documents in one currency.
`Reconcile`/`ReconcileAll` read the residuals and check the amount, `Apply` inserts the
partial and writes both residuals from what was read, `WriteOff` posts the
write-off entry, `Nested` is the call `reconcile_lines` makes of itself to
match it (its `outer` call waits on the stack), `Close` creates the full reconcile and marks
the lines. `Fails` may end the call between any two of them. `Unreconcile` is one transaction.

It is run as a part of `books` (3.14), one call at a time (`Requests = {r1}`): residuals are
written as absolute values computed from an earlier transaction, so two calls on
one line lose an update; the module has the interleaving, the run assumes it
away, and the hazard is listed. A line whose residual
reaches 0 against a partly paid line keeps `reconciled = FALSE` (the code marks
both lines or none); `SettledIsBacked` is stated accordingly. `SharedUndo = FALSE`
leaves out undoing a line whose counterpart has another match: `unreconcile` sets the
counterpart's residual to its full balance (`account_reconcile.py:544`), although the
other match remains (against FR-034, `specs/003-accounting/spec.md:215`). The
foreign-currency gap is `Currency`'s; lines given in the wrong direction are not modelled.

### 3.4 `InvoiceLines`

One invoice over any number of edits, postings and resets, a call being
one action: `SetLine`, `UnlinkLine`, `UnlinkRounding`, `SetDeposit` (a down-payment
document is posted or reset), `RecomputeTotals` (the preview), `ActionPost`,
`ActionResetToDraft`. Posting nets the included taxes out of the prices
(in the order of their ids), sums the tax lines (`round_per_line` or
globally), rounds to the cash increment (a line of its own, or the biggest tax),
deducts the down payments and balances everything with the AR/AP line.

Amounts are integers in fractions of a cent, `Cent` of them: `ConstantsOK` asks
that every divisor of a configured rate divides `Cent`, so that every
division is exact, as it is in the code's `Decimal` up to its precision. All lines are
on one side (an invoice, not a mixture). Details translated as they are: a line
without `price_unit` has the tax base 0 (`price_subtotal` is NOT NULL with
default 0); the preview puts included taxes on top; `last` is a history variable.

### 3.5 `Payments`

Payments, their journal entries and the invoices they settle. `action_post` is
`PostBegin` (the state is read), `PostCreate` (entry and lines are committed as a
draft), `PostEntry` (the entry is posted) and `PostMark` (the payment gets its state and its
`move_id`). `register_against_invoices` is `RegisterBegin` (the residual of the
payment is read, once), and per invoice `Look` (its residual is read and the early
discount decided), `DiscountEntry` and `DiscountMatch`, `RegisterMatch`, `RegisterStatus`.
`Reconcile` and `Unreconcile` are the calls made by hand, at any time, also while a
posting or a registration is under way: `reconcile_lines` takes any posted entry, whether or not a payment
points to it. A match keeps how it came about (`how`), which is no column of the database.
`Fails` ends a call anywhere: the exception of `reconcile_lines` that refuses an
amount beyond a residual is one of its cases.

A match is one action: its own transactions are in `Reconciliation`. Customer payments
stand for supplier payments. Invoices stay posted and have one term line, the one the
code finds with `LIMIT 1`. The run has one posting or registration at a time (`Requests = {r1}`), because two postings of one
payment may both read a draft and make an entry each, of which the payment points to the later; `SharedUndo` is the
restriction described in 3.3.

`MoneyBooked` says that what is matched is posted and that registrations settle with the one entry their
payment points to. It does not say that a payment's money counts once: see "met while modelling" in section 6.

### 3.6 `Stock`

Quantities and reservations of one product, without lots and packages, at the
locations of a warehouse, and the calls that change them: `action_confirm`,
`action_validate`, `action_cancel` and `action_return` of transfers, `action_confirm` of
scraps, `apply_count`.

| Variable | Code |
|---|---|
| `quant` | the `stock_quant` rows by location, `quantity` and `reserved_quantity` |
| `moves` | `stock_move` rows in the order of their ids with their `stock_move_line` rows; a move without a transfer has `pick = 0` |
| `pickings` | `backorder_id` of the transfers, in the order of their ids |
| `req` | the calls in flight: the moves still to do (`todo`, a set: they come in the order of their ids), the transactions decided on (`ops`), the lines of the backorder (`rest`) |
| `tried`, `lost`, `cut`, `promised` | history: moves reserved for, what interrupted calls left undone, and their transfers, transfers validated to the end |

A call reads what it needs for its next move (`ConfirmMove`, `ValidateMove`,
`CancelMove`, the one whose `Turn` it is; `Scrap`, `Count`) and has then a list of transactions to carry out one by
one: `AddLine`, `Adjust` (the row is locked and changed, or found missing), `Insert`
(which the unique index `idx_stock_quant_key` may refuse), `Release`, `Reserve`,
`SetState`, `Overwrite`. Between two of them other calls run, and `Fails` ends the call.
The destination of a move is that of any putaway rule or its own: the capacity
of storage categories is left out. A transfer is created with its moves in one step
(the code takes one transaction for each row), as is a return.

`Orderly` is what the code does not enforce and the passing run assumes of its clients:
one call at a time for a transfer, one that takes from an internal location, a
transfer is confirmed once, and counts are applied when nothing moves. Without it
the properties fail, in the ways the hazards
describe. With it, two calls that put into one location, or that reserve while another
validates, still interleave.

`StockLedger` relates a quantity to the move lines: the lines of a call that
ended early count as if carried out, less what it left undone (`lost`). `Plan` is what the transactions of a
call will change at a location, `Due` what of that is owed to lines it has written.

### 3.7 `Ledger`

What the accounting of one company adds up to. `entries` are the moves with their
balance by account (one account for each type); posting is one step here, with
its header and lines. `ReverseBegin`, `DebitNote` and `CloseBegin` read in the first
transaction what `MakeDraft` writes in the second and `PostMade` posts in the third;
`CallEnds` may end a call before each, which leaves a draft that `PostDraft` can post later.
`TrialBalance`, `NetProfit`, `BalanceSheet`, `Aged` and `PartnerBalance` are the queries
of the reports. A payment (`Pay`) is posted with all of it left, and is matched with documents by calls of
their own (`Settle`), in part, later or never; those take turns here, as one written over another is 3.3's subject.

`OpenItemsAgree` relates three things the code computes apart: the receivable account, which counts payments when
posted, the partner's ledger, which counts what is left of documents, and the aged report, which counts what is left of both.
What explains the difference between the first two, unmatched payments and reversals of payments, is part of the property.

Translated as they are: a reversal copies the lines, not their tax links
(`account_move.py:1883` says "mirrored", but posting the reversal of a taxed invoice
drops its tax lines, which no line asks for, and the AR/AP line is made of the rest); the aged report takes today's
residual, by magnitude, at any date; the balance sheet shows the result of
the current year only, so that it balances when every earlier year has been closed.
Bounds in the composition: 4 entries when calls do not overlap (no taxes, refunds or payments, so
that three years can be filled and closed), 3 when they do (an invoice of 2 or 3 with its refund and a payment of 2, or with two
payments, each matched in parts).

### 3.8 `Currency`

Receivables and payables in one foreign currency: `PostForeign` converts at the latest
rate, `MatchBegin`/`MatchWrite` match lines of other rates, `PostResult` and
`SettleResult` post and match what is taken for an exchange result,
`RevalueBegin`, `RevalueLine`, `DraftReversal` and `RevalueEnd` are a revaluation line by line, its
reversals drafts that `PostReversal` posts when somebody does. `AccountingStops` ends a
call anywhere. Calls do not overlap (3.3 has that) and the reads of a call are one step;
the exchange accounts are configured; the flag `reconciled` is left to 3.3. The amounts
are chosen so that shares are whole numbers.

A revaluation adjusts a bill (negative residual) the wrong way (`account_move.py:344`):
`ShownAtClosingRate` is about invoices only.

### 3.9 `BankStatements`

Statements of one journal, entered, confirmed against the one before
(`ConfirmBegin`/`ConfirmWrite`), their rows matched with one move line
(`LinkBegin`/`LinkWrite`) or replaced by a row for each of several (`SplitWrite`), rows of
matched lines included: the code lets a row be matched again. It does not check
that the move lines add up to the row either, which the docstring
promises (`account_bank_statement.py:122-127`); `RowsFit` says that callers see to it, and
the run and the theorem take it to be so.
Statements are entered in the order of their dates. Continuity is stated for statements that are each
the only one of their day (`Lone`): the one before is looked for by date alone, so of two statements of one day
either may be found, also one that does not fit while the other does.

### 3.10 `PaymentTerms`

`Instalments` and `DueDate` are the algorithms (`_compute_due_date` for the four
kinds of delay, and shares in cents of which the last takes the rest); `AddBegin`/`AddStore` and
`WriteBegin`/`WriteStore` edit the term, with the check of 100 % in the first transaction. `TermFair` holds
the algorithms against what a term is for, over every term the edits can reach, invoices of
101 and 250 cents and each day. A write of several lines at once checks each
against the others as they were, so the run writes one at a time (`OneLineWritten`). The early discounts of instalments
are left out.

### 3.11 `Valuation`, `Replenishment`, `Warehouse`

`Valuation` is `value_move`, statement by statement, for one product under the three
costing methods: a layer in (`LayerIn`), the average recomputed from quantity before and price
(`CountOnHand`, `OldAverage`, `NewAverage`), layers read and consumed one by one
(`FifoRead`, `FifoTake`), a layer out, its entry and the link (`PostEntry`, `LinkEntry`). `GiveUp` is any exception, which the code logs: the move
stays done. Layers are consumed in any order, because the code reads them
with `id IN (..)` and no `ORDER BY` (`stock_valuation_layer.py:211`); prices are in units so small that
averages are whole (`AveragesWhole`), and rounding, a missing journal and changing the method of a product in stock are left out.

`Replenishment` is one orderpoint. `ReorderBegin`, `Incoming`, `Outgoing` are the three reads of the forecast,
`Decide` follows the rules of the route that applies (product, category, warehouse) back
to its source, `OrderLeg` makes the transfer of one rule; `RuleBegin`/`RuleInsert` add a rule with the check for
cycles. On a route with a leg between two inner locations the forecast sees only the last leg, and only
once it has been ordered, and a run that is repeated orders again (against FR-065,
`specs/007-inventory/spec.md:600`); `RoutesSound` promises one order where every rule
starts outside. Two runs that overlap both order; nothing promises otherwise.

`Warehouse` is `action_apply_steps` as a list of some twenty steps (`Program`), each of which
first finds out whether it is to be done: `MakePlace`, `Adopt`, `EnsureType`, `ClearType`,
`ArchiveCheck`, `ArchiveWrite`. `Configure` changes the steps, `ApplyStops` ends the call anywhere, `Goods`
puts stock into a location. The code does not clear the locations of the types Pick and Pack, so
`WellLaidOut` asks that only of receptions.

### 3.12 `Settings`, `Deployment`, `AccessRules`

`Settings`: `LoadSettings`, `SaveBegin`, `ApplyRead`, `ApplyCommit`, `SaveLang`, `Invalidate` are
a save with the country's package; `Resolve` and `FillCache` are the middleware's reading of the company's language. One
package stands for any and one of its taxes for all of them. `SavesSound` is about requests that do not overlap: a
request that read before a save fills the cache after it (`middleware.py:92`), and two
saves that both checked the version write over one another.

`Deployment`: the container's entry point. `Install`, `Migrate`, `Record` and `PostInstall` are the
transactions of one module of the batch, `LoadInstalled` is the start of the server,
`InstallSingle` the skipping of what this run has been through,
`ProcessEnds` a crash anywhere, `Deploy` a new version of the code; a batch of one module is an
installation by hand. A third version changes the type of a column: migration refuses it and
the server does not come up. Modules outside the batch are left as they were. What a module depends on
(`Closure`) is the least set that is closed under the manifests; an order of installation is any one of it in
which dependencies come first.

`AccessRules`: `Parsed` and `Compile` are `compile_domain` over Polish notation, `MergedDomain` is the
enforcer's merge of rules by counted operators, `SearchedBy` is `search`. A leaf is the set of records it
holds for. A rule that is no valid JSON does not get past `ir_rule.py`, so rules are malformed only in their structure; `get_merged_domain`'s answer when
the lookup itself raises, no restriction (`auth/access.py:121`), is not modelled. The model's domains write every operator: a list of leaves without one is
documented as a conjunction (`specs/001-erp-core/contracts/jsonrpc.md:220`), but compiles to its first leaf
(`core/query.py:39`).

### 3.13 The people modules

Each is one record or tree with the calls about it: reads in one transaction, writes in another,
and a step that ends a call between.

* `TimeOff` over `Accrual`: one employee's requests against calendar, holidays, other requests and
  a balance that is summed in three statements (`SumAllocated`, `SumTaken`, `SumPending`); one or two
  approvals by manager and officers; refusal; the scheduled accrual, which writes
  absolute values it read (`AccrualRead`, `AccrualCommit`), up to the allocation's maximum. Where there is one,
  of two runs that overlap the one that read earlier may write last and leave a day's units for the run of the next
  period; `AccrualExact` allows for that and for nothing else. Requests are compared by the moment (`Overlaps`, the ranges of
  timestamps of `hr_leave.py:225`, both ends included) and counted by the day (`Duration` of `DayOf`, `_as_date`): a request for the morning and one for the
  afternoon of a day are both accepted, and each takes the whole day's units. A range that ends before it starts is refused, by the duration or by the
  database.
* `Contracts`: `CreateBegin/Insert`, `DatesBegin/Store`, `SetStateBegin/Others/Store`, the nightly
  `ExpireContracts`; `EffectiveState` and `RunningContract` are what others see.
* `Recruitment`: `HireBegin/Create/Link`, `SubmitReferral/Applicant/Link`, stages and refusal. `broken` records
  that a call ended early: a retry after that makes a second employee, and so do two calls at a time. An applicant may
  be moved out of the stage of the hired and stays linked to the employee.
* `Appraisals`: `Launch` and its rows, transitions, `Plan` (the next date, written first) and `SetWrite`. A call ends
  on the day it started.
* `Directory`: departments and managers (`MayHang` walks up the chain), users and employees with
  the unique index that backs their check, skills of employees. A write of skills reads each row, checks it as merged with the fields that are
  given (`SkillChangeBegin`) and sets those fields on what the rows are by then (`SkillChangeWrite`), with a unique index behind
  it. Two writes that overlap, one of skill and level and one of the level alone, leave a level of another type; `DirectorySound` claims levels only where calls
  do not overlap. The checks of several rows are one step, the types of skills and levels do not change, and rows are not deleted.
* `Fleet`: `AssignBegin/History/Driver`, readings (`ReadBegin/Store`), archived drivers, service contracts
  with expiry and alerts.

The generic JSON-RPC `write` on these records, which goes past their checks, is left out throughout, and so is a write of fields that no
check looks at, such as the type of an employee's skill alone.

### 3.14 `Sums`, `Workday` and the compositions

`Sums` has `SumOf(f, S)`, what a function comes to over a finite set, and `SumAll(f)`, over its domain. The totals of
matches, of entries, of the rows of a statement, of what is allocated and taken, of what move lines carried and what lists of transactions
will change are written with them, so that the lemmas of `Sums_proofs` apply.

`Workday` has what these modules share: the date, which goes on at any time, and `exclusive`, whether calls of several users
may overlap, chosen once at the start. Where the code does not keep a property when calls overlap, the
property says `exclusive =>`; the rest of it, and the other properties, hold in both cases.

`MCBooks`, `MCOperations` and `MCPeople` put modules side by side. A variable `part`, chosen at
the start, says whose steps a behaviour takes: the modules of a composition share only `Workday`, so their
interleavings with one another show nothing, and one run asks the question of each. What a run restricts
beyond its constants is written in the step of that part (`LedgerSteps`, `LeaveSteps`, ...), with a comment.

## 4. The runs

| Run | Instance | Checks | Shows |
|---|---|---|---|
| `posting` | 2 documents, 2 requests, entry and invoice, 2 dates, balances 0 and 1, 2 numbers, every call; 819,000 states | `TypeOK`, `PostedBalanced`, `MatchedIsPosted`, `ClosedPeriodKept` | with one request per document, the rules of the ledger hold through every order of calls, failure, lock date and match |
| `numbering` | 2 documents, 2 requests that may overlap on one, 2 years, 2 numbers, with fairness; 48,000 states | `NamesUnique`, `ImplementsRegister`, `RequestsEnd` | numbers stay unique and go out in order although states are read and overwritten apart; no request waits for ever |
| `hash_chain` | 4 documents of one year, 3 postings, 2 contents; 118,000 states | `ChainVerifies`, `SecuredForGood`, `ImplementsLog` | an untampered journal verifies, secured documents are untouched, the record only grows |
| `payments` | 2 payments of 3, 2 invoices of 2, 50 % discount, 3 entries, 3 matches, hand matches of any amount at any time; 2.93 million states | `NeverOverpaid`, `MoneyBooked` | no order of discounts, registrations, matches and undos settles more than is owed or paid; registrations settle with the entry their payment points to, however its posting was interrupted and repeated |
| `stock` | stock and shelf with a putaway rule, 1 on hand, an incoming transfer of 1, an outgoing one of 2, scraps and counts of 1, 3 moves, 2 calls, 1 failure; 742,000 states | `StockLedger`, `NeverNegative`, `ReservedIsWanted`, `EachUnitOnce` | no unit is lost or made but by a call cut short; no order of validations, backorders, returns, cancellations, scraps and counts takes more than there is or leaves stock reserved for nobody |
| `books` | six parts, 813,000 states: 2 invoices, 2 payments, 1 write-off, 3 matches; 2 invoice lines with 60 % included and 25 % on top; 3 fiscal years of a day, 4 entries; 4 foreign items at rates 2 and 3; 2 statements, 3 rows; terms of 3 lines | `ResidualExact`, `SettledIsBacked`, `NothingLingers`, `RepostStable`, `SheetBalances`, `OpenItemsAgree`, `LeftAtBookedRate`, `ShownAtClosingRate`, `BankAgrees`, `TermFair` | what is left, what is shown and what is owed agree with what was posted, wherever calls end |
| `operations` | six parts, 737,000 states: 4 layers at 2 prices, 3 methods; 3 rules, 2 open transfers; 1 to 3 steps each way, 6 places; 3 saves of 2 administrators; 4 modules, 3 versions; 3 rules over 3 records | `Reconciles`, `RoutesSound`, `WellLaidOut`, `SavesSound`, `ServesComplete`, `RulesMerge` | the stock account agrees with the layers, routes end, layouts are whole after any interruption, a server that is up is complete, rules merge as documented |
| `people` | seven parts, 1.26 million states: 2 requests over halves of 3 days and 4 users; 2 accrual runs without a maximum and with one of 2; 2 contracts; 2 applicants, 1 referral; 2 appraisals; 3 departments, 2 employees, 2 rows of skills; 2 drivers, 2 readings, 1 service contract | `LeavesFit`, `ApprovedByOthers`, `AccrualExact`, `OneContractRuns`, `RecruitsLinked`, `NextIsPlanned`, `DirectorySound`, `FleetKept` | what was checked before it was written still holds after, as far as the code can keep it |
| `cancel_race` | 2 documents, 2 requests | `PostedNotCancelled`, violated | a cancel that read a draft overwrites the posting that came in between |
| `hash_years` | 3 documents, 2 years, 1 posting at a time | `JournalVerifies`, violated | the secure numbers start again each year, and the chain does not verify in their order |
| `repost` | 1 line with an included tax | `RepostUnchanged`, violated | 125 with 25 % included becomes 100 + 25, posted again unedited 80 + 20 |
| `realized` | the currency part of `books` | `NoDriftNoResult`, violated | half of an invoice paid at its own rate closes the other half as an exchange result |

*Why the bounds are enough.* Every race of the posting code is between two requests;
two documents give a number to take away and one to keep; deleting documents is
left to the theorem, which covers it. Two dates are before and after a
lock date and, in the numbering runs, two years. The hash chain needs three
concurrent postings (one that commits while two wait) and a fourth document that finds
three links. `MaxDraws`, `MaxNo`, `MaxMatches`, `MaxRoundings` and the other constants
`Max..` are bounds on counters and tables; `LastDay` bounds the calendar. `CHECK_DEADLOCK FALSE` is set
everywhere but in `people`, where some call is always possible: elsewhere an instance ends when its
documents are deleted or its bounds reached.

In `books`, matching has balances 1 and 2 for partial, exact and excess matches, and three
matches, a payment split over two invoices and a write-off. The invoice's rate is
large (60 %) and one rounding line is allowed, so that the prices re-extracted
by repeated posting come to an end; that amounts are rounded to 5 cents is what 4 = 2.5 + 1.5 is
for; a line with the included tax bears the other as well. Three years of a day each are one before, one closed and one
current. Rates 2 and 3 and amounts 54 and 108 make every share a whole number through three
matches; either one account has up to four items that are matched, or two open items are revaluated, twice. Of
two statements each is the other's predecessor or not. Percentages 33, 34 and 50 and a fixed 40 make terms
that add up to 100 and terms that do not; months end on days 1, 4, 6 and 9, so
that days 1 and 3 lie inside and beyond them, clamped.

In `operations`, a third incoming layer after a partly consumed one makes the averages and the FIFO queue differ;
three rules can make a route of three legs, one that merges or a circle; receptions or deliveries take more than
one step, one of them at a time. Two overlapping saves are one version, three saves change a country and back. Of four
modules two share a dependency; the versions add a column and then change a type. Two rules are of any shape and the third is a leaf.

In `people`, the second of three days is a holiday and the third one of another company; two requests are for
the same half or for both halves of the first day, or reach to the end of the second or into the third, and overlapping approvals are about one.
Two contracts and two applicants are the fewest that can be in one another's way; three departments make a circle
longer than a pair; two rows of skills of two types, of employees without superiors or users, are written with any fields, one or both at a
time, by two editors; the two readings are in and out of order of date.

In `payments` a payment of 3 pays one invoice of 2 and a part of another, or both after a discount of 1 each; what is matched by
hand, in ones, twos and wholes, competes for the same residuals. Three entries are two payments and a discount, or a
payment posted twice after a failure.

In `stock` the delivery of 2 finds 1, so that it is partial unless the receipt comes
first; the third move is a backorder, a return, a scrap or a count, each of which
competes with the others for what is left. Two calls are a pair that reads and
writes the same quant; one failure is enough to cut a validation and have it done again.

*Fairness* is used in `numbering` only: weak fairness of each request's
next step (the event loop keeps running a coroutine whose answer has arrived)
and strong fairness of `PostNumber` (PostgreSQL serves the waiters of a row in turn).
No fairness is asked of clients or of failures.

*Symmetry* is used over interchangeable records, requests and users, in runs of safety
properties only.

Each property of a passing run has a mutant in `PROJECT.json`: a variant
of one definition (the operators commented "Variant:") that a plausible mistake in the code
would make, and under which TLC finds the property violated.

## 5. What is proved

Eight modules of theorems and lemmas hold for every value of the constants that the assumptions of the modelled
modules allow (named `ConstantsOK` or `..Assumption`): any number of documents, requests, users, amounts, days. Each safety
property is proved the same way: an inductive invariant holds at the start, every action keeps it, and it implies the
property, which TLC checks on the instance of its run as well.

### 5.1 The hypotheses

What the code does not enforce is a hypothesis of the theorem that needs it, and of no other:

| Hypothesis | Says | Needed by | Why |
|---|---|---|---|
| `OneAtATime` (`AccountMove`) | nobody has two requests open on one document | `Balance`, `Matched`, `ClosedPeriods`, `NotCancelled` | a state is read in one transaction and overwritten in another; `cancel_race` is what happens without it |
| `FrozenLines` | lines are added to and deleted from drafts only | `Balance` | `create` and `unlink` of lines do not look at the state |
| `LoneReposts`, one year | a document is posted again only when nothing else is being posted; the journal is within one year | `Chain`, `ChainIsLog` | a kept name takes no numbering row, so nothing orders that posting; secure numbers start again each year (`hash_years`) |
| `OneAtATime` (`Reconciliation`, `Payments`) | one call at a time | `Residuals`, `Settlements`, `MoneyIsBooked` | residuals are written as absolute values computed in an earlier transaction |
| `~SharedUndo` | nothing is undone whose counterpart has another match | `Residuals`, `NobodyPaysTwice` | `account_reconcile.py:544` |
| `Orderly` (`Stock`) | one call at a time for a transfer, one that takes from an internal location; a transfer is confirmed once; counts are applied when nothing moves | `NeverNegativeHolds`, `ReservedIsWantedHolds`, `EachUnitOnceHolds` | what is on hand is read in one transaction and taken in another, and the row has no check; of a transfer, what is to be moved is read once, and two calls would each move it |
| `Orderly \/ Counts = {}` | the same, or no counts are applied | `StockLedgerHolds` | `stock_quant.py:308` writes the counted quantity over what was moved since |
| `TaxesWhole` | the tax on a whole amount is whole | `SheetBalancesHolds`, `OpenItemsAgreeHolds` | amounts are counted in the smallest unit; taxes are rounded to it, which is `InvoiceLines`' subject |
| `SharesWhole` | the shares a match takes of two foreign lines are not rounded | `LeftAtBookedRateHolds` | `reconcile_lines` divides and rounds to the cent; amounts are whole here, and the amounts of `books` divide |
| `OneLineWritten` | one call writes one line of a term | `TermFairHolds` | `write` checks each line against the others as they were, then writes all |
| `AveragesWhole` | an average comes out whole where calls take turns | `ReconcilesHolds`, of average cost alone | `_recompute_average` divides in floating point; the prices of `operations` divide by what can be in stock |
| `RowsFit` | a row is matched with move lines that make it up | `StatementsAgree` | the docstring asks for it, nothing checks it |

`exclusive`, in `Workday`, is no hypothesis: it is a variable, and a property that needs calls not to overlap says so
itself. The passing runs are instances of every hypothesis, in which calls still end anywhere and, where the hypothesis is
about one record or one kind of call, interleave with all others.

### 5.2 The theorems and their invariants

**`AccountMove_proofs`.** `TypeCorrect` (`TypeOK`), by `TypeInv`: `TypeOK` and `Shape`, which ties a request's memory to its step.

`Numbering` (`NamesUnique`) and `Implements` (the refinement of `NumberRegister`), with any requests overlapping on any
document, by `NumInv`. `NamesUnique` is not inductive: a re-post writes back a name that was read long ago. What makes it
safe is that a number once drawn is in `drawn` for exactly one document (`OneOwner`), that names on documents and names
remembered by requests are drawn for that document (`NamesDrawn`, `SeenDrawn`), that no number above the counter is drawn
(`NumbersCounted`), and that a request about to commit either holds the row of its number, which is then the next one, or
carries a name its document already owns (`RowOwned`, `CommitNumbered`).

`Balance` (`PostedBalanced`), `Matched` (`MatchedIsPosted`), `ClosedPeriods` (`ClosedPeriodKept`) and `NotCancelled`, by
`LedgerInv`: requests are about different documents (`Apart`), what a request has seen of its document is so still
(`StillSo`), documents that are posted or checked have lines that balance (`BalancedKept`), and what is matched is posted.
`ClosedPeriodKept` is an action property: the invariant holds that a request past its check still has the date it checked.

**`HashChain_proofs`.** `SecuredStays` (`SecuredForGood`) needs no more than `DocInv`: the types, and that hashes are on
posted documents and postings at work on drafts. `Chain` (`ChainVerifies`) and `ChainIsLog` (the refinement of `AppendLog`) rest on
`TurnsInv`: a posting that has its number holds the numbering row until it commits, or keeps an old number and is alone. So within a
year at most one is past its number (`OneLate`), although nothing in the code locks the chain. `RecordInv` then says that secure
numbers differ and are covered by the counter, that each secured document has the hash of the one before with its own content
added (`Linked`), and that what the posting whose turn it is has read is still the latest hash (`Prepared`).

**`Payments_proofs`.** `NobodyPaysTwice` (`NeverOverpaid`), with any calls overlapping, by `PayInv`: a posted payment has an
entry, and so has a call about one. A match is one step here, which refuses more than is open on either side; the gap between its
own transactions is the subject of `Residuals`, and there one call at a time is needed.
`MoneyIsBooked` (`MoneyBooked`), by `MoneyInv`: a posted payment points to its own posted entry (`Booked`), and what a call takes
its payment and its entry to be is what they are (`AllTold`), so that a registration never matches the entry an interrupted call
leaves behind. Matches by hand are unrestricted but for what `reconcile_lines` asks of its lines.

**`Books_proofs`.** `Residuals` (`ResidualExact`) and `Settlements` (`SettledIsBacked`), by `MatchInv`: residuals lie between
nothing and the balance (`WithinBalance`), matches join a debit with a credit (`Joins`), what a call takes the residuals to be is what
they are, through the write-off and the call it makes of itself (`AllTold`), and they are the balance less the matches (`Exact`).
Amounts are sums over sets of matches, to which a step adds one, replaces one or takes some away.

`StatementsAgree` (`BankAgrees`), by `BankInv`: the rows of a statement come to what was reported, a call about to split
a row has lines that make it up, dates are in the order of entry, a confirmed statement continues one before it, and that a
statement entered later cannot change which those are. The balances then run on because there is no first statement in the
range at which they do not.

`OpenItemsAgreeHolds` (`OpenItemsAgree`), with reversals, debit notes and closings that overlap, and `SheetBalancesHolds` (`SheetBalances`) come from one
invariant over the table of entries. `Fit` is about each entry: one that is posted, or of no document, comes to nothing over
its accounts, a document moves no cash, and nothing is left on the reversal of a payment. `AllGaps` adds up, over posted entries,
what is left on a document or payment less what it has on the
receivable account, which is nothing in all though, once something was matched, not for each entry (a match takes from one what it
takes from the other); the sum taken apart by kinds of entries is `OpenItemsAgree`, and the buckets are parts of a sum (`SumParts`). For closing, `Emptied` says that a closed year has no result
left, and `Closes` that what a call has read is still what its year comes to when it posts. The sheet then
follows by adding the same lines up in other orders: by account they come to nothing (`NetsAddUp`), the years before come to
nothing once each has (`YearsSettle`), and accounts are gathered by type (`TypesAddUp`).

`LeftAtBookedRateHolds` (`LeftAtBookedRate`), by `LeftInv`: for each line that no exchange result has closed there is a rate at which both
what was booked and what is left of it are its foreign amounts (`BookedRow`); a call about to write a match still has the
two lines it computed the match from. Taking a share off both sides keeps the rate (`ExactShare`), where the share is whole.
`ShownAtClosingRateHolds` (`ShownAtClosingRate`), by `ShownInv`: a revaluation under way has posted, for each line it is through with,
what brings it to the day's rate (`Valued`), and a reversal that was posted takes back what its adjustment posted (`UndoneInv`), so
earlier revaluations come to nothing. No rate is entered meanwhile and none is known ahead, so the day may change.

`TermFairHolds` (`TermFair`), by `TermInv`: the percentages come to a hundred at most, and the check of the call that is under way,
the only one, still holds (`EditChecked`). The rest is about the algorithms, for any total and calendar: what n shares are
off by is at most n times what one is (`RoundingAdds`), which is what the last instalment takes; and a day clamped to the length of a
month is after the end of the month before (`DayFalls`).

**`People_proofs`, time off.** `Accrues` (`AccrualExact`), whatever runs overlap: what is stored, and what each run has read, is what its own
date makes due, or less under a maximum. `Approved` (`ApprovedByOthers`), whatever approvals overlap. `Fits`
(`LeavesFit`): requests that count pass the check of one another (`ApartInv`), so that no moment is in two of them (`CheckedIsApart`) and fit into what is allocated; `FitInv` says, for each of the three sums
of a request under way, what has been subtracted so far, and entitlement that accrues between requests only adds. `AccrualRunsOn`: time
off refines the accrual, so that what is proved of one holds in the other.

**`People_proofs`, the others.** `OneRuns` (`OneContractRuns`), `Recruits` (`RecruitsLinked`), `NextPlanned` (`NextIsPlanned`), `Kept`
(`FleetKept`), `DirectoryHolds` (`DirectorySound`). Their invariants say, where calls do
not overlap, that what a call has checked still holds when it writes (`GradeInv` for levels of skills), and otherwise that no call undoes what the
property is about. That managers and departments do not run in circles is stated without walking up the chain: no set of them has all their
superiors within it (`Trees`, in `TreeInv`). Hanging someone elsewhere keeps that, because the check has walked from the new superior
up to the top (`HangKeeps`); and a chain longer than there are nodes would meet one twice, so that what is
between is such a set (`ChainsEnd`).

**`Operations_proofs`.** `SavesSoundly` (`SavesSound`): what a save has read is the company's record until it commits, and the
cache of the language holds what the company has or waits for the invalidation that follows. `Complete`
(`ServesComplete`): what is recorded as installed has a table, and all it depends on recorded with its data; what this process has been through is
closed under dependencies and has the columns of the deployed version and its data; and what is still missing of the entry point's
batch is in the order under way or in the batch left, for any graph of modules. `ReconcilesHolds` (`Reconciles`), by `ValuationInv`: what
the calls under way have still to post is what the account is short of (`Account`), and what they have still to write a layer
for is what the layers are short of (`Counted`), whatever overlaps. Where calls take turns, what has been read of each layer is still so, and layers that
have something left are among it (`Fresh`), so FIFO ends with all it wanted taken, because there was enough in stock (`TakenInFull`); and the
average is worth what the layers came to, with the quantity under way on the side it belongs to (`Averaged`).

**`Stock_proofs`.** Whatever a call has decided on stays to be done while other calls run, so each invariant is about lists of
transactions. `StockTypesHold`, with any calls overlapping on anything, by `StockTypes`: besides the columns, a call's
moves and transactions are those of its transfer (`CallFits`, `OpFits`), they come in the order the code does them in (`Ordered`), and a line
still to be written says what the call is about to change where (`LineBacked`).
`StockLedgerHolds` (`StockLedger`): a step changes a quantity and what is planned for it by the same amount, or writes a line and makes
the plan a debt to it, for each of the calls and at each location (`LedgerStep`), so the sums agree. What
a count writes last is the quantity that will then be there, since it is alone (`CountInv`).
`NeverNegativeHolds` (`NeverNegative`) is not inductive: a call checks the quantity and takes from it two transactions later.
`TakesInv` says that at an internal location at most one call takes something, or will when it takes up its next moves
(`Reaches`), and that what is in its list is there (`Safe`); every other step only adds.

`ReservedIsWantedHolds` (`ReservedIsWanted`) needs more than the totals, since a release takes what is left of a row and
never asks whose it was. `WantedInv` says that there are weights, one for each move a confirmation has tried, which account for all
that is reserved: no move's is above its demand and, once a call is to close the move, none is above what that call
is still going to release (`Weighs`). A reservation adds to one weight, a release lowers
it by what it takes, and closing a move finds its weight spent. `ConfirmInv` and `PicksInv` have a confirmation reserve once for each move.

`EachUnitOnceHolds` (`EachUnitOnce`) is about transfers whose validation has ended, and the balance it speaks of is nowhere while the
validation runs: part of it is in lines, part in the rest the call carries along, part not looked at yet. `UnitsInv` follows it.
A transfer no call is on and none was cut short on is as it was asked for (`Fresh`: open moves, no lines) or done with (`Over`). While a
validation is on it (`Follows`), the moves still to be taken up are as they were asked for, each of the others is closed or is
going to be (`Halfway`), and what these miss of their demands, the line about to be written counted in, comes to what the rest asks for (`AddsUp`).
When it ends, all are closed and the rest becomes the backorder, whose moves are the only ones behind the transfer (`Split`). From then on
nothing touches the transfer's moves: it has none, or `PickingState` says it is done or cancelled and no call begins on it
(`StateOver`), so the promise stays (`Honoured`). `UnitsFrame` says once what a step owes that works on some transfers and leaves the
others alone; each action has a lemma that says which.

**`Sums_proofs`.** The fold of the library is a choice of a function that satisfies a recursive equation. That there is one,
and that any two agree, is shown without induction on data: the subsets of a finite set are well-founded, so if a claim
fails there is a smallest set for which it does, and one of its members can be taken out. From this follow the lemmas the
other modules cite: sums are integers, any member may be taken out or put in (`SumRemove`, `SumAdd`), one may change or give
way to another (`SumChange`, `SumSwap`), disjoint sets add up (`SumUnion`), and names do not matter (`SumRenamed`).

### 5.3 What the proofs changed

* *Accrual*: an allocation's maximum had been left out; with it, the first form of `AccrualExact` is false for overlapping
  runs, and says now what remains (3.13).
* *Bank statements*: continuity had been asked of statements next to each other with different dates. With a third
  statement of the day of the first it is false: `action_confirm` may find that one. Two statements, the bound of
  the run, cannot show it. `BankAgrees` now asks for statements alone on their day (`Lone`).
* *Stock*: what a call has still to do had been a list of moves; it is a set of which it takes the least id, and totals are sums.

### 5.4 What is only model-checked

* *Liveness*: `RequestsEnd`, under fairness.
* *Recursion over sequences*: routes (`Replenishment` has a RECURSIVE operator), the folds over lines and taxes of
  `InvoiceLines`, compiled domains of `AccessRules`.
* *Not taken up*: `Warehouse`, and the parts of the modules above that no theorem names.

## 6. Findings

Four runs end in a counterexample to what a document or a comment of the
repository says: `cancel_race`, `hash_years`, `repost` and `realized`. `PROJECT.json` quotes the sentence and
the lines for each.

Further promises the code does not keep, which the models have but no run of its own shows (the
properties leave them out, as their comments say):

* *gap-free numbers* (`docs/adr/002-sequence-counter.md:7`): two postings of one document both read a draft
  and draw two numbers; the second overwrites the first, which is lost;
* *undo* (FR-034, `specs/003-accounting/spec.md:215`; `account_reconcile.py:544`): a counterpart with another match is
  open for its whole balance;
* *mirrored reversals* (`account_move.py:1883`): the reversal of a taxed invoice has no taxes;
* *no duplicate replenishment* (FR-065, `specs/007-inventory/spec.md:600`): longer routes order again;
* *implicit AND* (`specs/001-erp-core/contracts/jsonrpc.md:220`; `core/query.py:39`): all but the first leaf are ignored;
* *a matched row is made up by its move lines* (`account_bank_statement.py:127`): nothing checks it;
* *never more than 100 %* (FR-017, `account_payment_term.py:201`, "checked on every write"): a `write` of several lines checks
  each against the others as they were, so two lines of 40 % and 40 % may both become 60 % (`OneLineWritten` leaves it out);
* *a customer's balance is that of the posted, unreconciled receivable transactions* (SC-005,
  `specs/009-customer-database/spec.md:233`): a payment posted and not matched is such a transaction, and the balance leaves it out
  ("a payment line, which never has an open residual of its own", `account_partner.py:87`), whereas the aged report counts it,
  as owed; the reversal of a payment is in neither. `OpenItemsAgree` has both as terms of its equation;
* *revaluation of payables* (`account_move.py:344`): the sign of the adjustment is that of a receivable.

Met while modelling, and modelled, without a document that says otherwise: a
down payment that was reset stays deducted once the total has become 0
(`apply_down_payments` returns before it deletes its line); the early discount is taken
again on the rest at each registration inside the window; `payment_state` is
written by registration only and stays as it was after a match made or undone by hand;
the entry that an interrupted `action_post` has posted and left behind can be matched by hand, and so can the one of the repeated
posting, so that one payment settles twice its amount (each entry for itself is never overdrawn, which is
`NeverOverpaid`);
a payment smaller than the list of invoices it is registered against is refused at a later
one, with the earlier ones matched, because its residual is read once for all of them.

## 7. Plan

What comes next: `WellLaidOut` of *Warehouse*, over the list of steps of the program.

Not modelled, and why: the connection pool (a posting that holds a connection opens a second one
for the lock-date guard; with fifteen of them everyone waits until the pool's timeout ends the wait, which is a
counter and a timer), sessions (single statements), products, units, analytic and base records (record
keeping), lots, packages and storage (validation of single records), the tax and analytic reports (queries over tags and
percentages of the same lines), the web client. Undoing matches in `Ledger`, generic record writes and clients that
write states directly are outside the models, as said above.
