# Slashbooks in TLA+

Slashbooks keeps the books of small companies. One company is one folder: a
SQLite ledger (`ledger.sqlite`) and JSON files around it (staging, review queue,
learned context, configuration). People and agents run short commands; there is
no server and no long-lived process, except where a company was moved to one.
What makes the program hard is therefore not concurrency inside a process but

* commands that write **several stores one after the other** and may stop
  between any two writes,
* **repeated** commands (a retry of what was half done, a bank feed that
  delivers the same row again under another id),
* decisions taken on **state read earlier** (a proposal, a preview, a receipt),
* and policies about what may happen with **nobody looking**.

The modules here model those parts, TLC checks them on small instances, and
TLAPS proves the safety of thirteen of them for every instance.

Contents: [inventory](#inventory), [conventions](#conventions),
[modules](#modules), [runs](#runs), [fairness](#fairness), [proofs](#proofs),
[what is only model-checked](#what-is-only-model-checked),
[what the models show about the code](#what-the-models-show-about-the-code),
[not modelled](#not-modelled), [plan](#plan).

## Inventory

| Part | State it keeps | Operations | What is hard, and what makes it correct | Modules |
|---|---|---|---|---|
| Importer (`ledger/importer.py`, `source_ids.py`) | none of its own | import a batch, self-heal, post, queue, hold | two spellings of one id; a stop between ledger and seen-ids. A row is posted once and never lost. | `PostingWorkflow`, `DuplicateHolds` |
| Staging (`ledger/staging.py`) | `seen-ids.json`, `pending*.json`, `duplicate-candidates.json` | mark seen, queue, hold, purge | seen-ids must not run ahead of the ledger | `PostingWorkflow`, `DuplicateHolds` |
| Review queue (`queue.py`) | `review-queue/*.json`, its group journal | propose, withdraw, confirm, correct, groups, splits, transfers, changed amounts | five writes per confirm; recovery by receipt | `PostingWorkflow`, `GroupJournal`, `ReviewDesk` |
| Trust ramp (`queue.py`) | `learned-context/counterparties.json` | learn from confirm and correct; decide what auto-posts | nothing posts unattended before it was earned | `PostingWorkflow` |
| Ledger store (`ledger/store.py`, `migrate.py`) | SQLite tables, meta, audit events | transaction, insert, upgrade, seal | all of a command's rows in one commit | all |
| Settings (`entity.py`, `currency.py`, `fiscal.py`, `reporting_goals.py`, `account_remove.py`, part of `taxview.py`, `accrual/enable.py`) | ledger meta and `entity.json` | currency, basis, tracking, accounts, fiscal year, tax profile, goals | two stores, one truth; command lines that load before they lock | `CompanySettings` |
| Corrections (`ledger/corrections.py`, `reclassify.py`) | lineage metadata of entries | reverse, correct, reclassify | one entry stands per chain, and all readers find it | `LedgerCorrections` |
| Statements (`statement_import.py`, `statement_extract.py`, `statement_opening.py`) | statement records, opening balance | import, re-import, confirm a period, open | overlap with the feed; each bank transaction counts once | `StatementImport` |
| Bank files (`connectors/bankcsv.py`) | saved layouts | inspect, map, read | a guess made on one file reads the next | `StatementLayouts` |
| Month-end proof (`coverage.py`, `tieout.py`, `feed_proof.py`, `reconcile.py`) | feed windows, balances, reconciliations | prove, reconcile, select | a proven month really ended so | `BankProof` |
| Accrual items (`accrual/items.py`, `journals.py`, `store.py`) | items, allocations, evidence | bill, settle, credit, offset, adjust | previews and receipts; never settle more than is open | `OpenItems` |
| Schedules (`accrual/schedules.py`, `reports.py`) | installments, period locks | recognize, refund, end early, replace, close | service is recognized once; closed months keep their figures | `AccrualSchedules` |
| Cutover (`accrual/migration.py`, `opening.py`) | opening entry, carried items | preview, apply, repeat | control balances equal their support | `OpeningCutover` |
| Accrual rules (`accrual/rules.py`) | rules and receipts | preview, apply, match | a rule is what a person saw | `AccrualRules` |
| Commercial records (`business.py`, `tax1099.py`) | documents, payments, tax package | invoice, pay, credit, refund, link, prepare | one row pays once; the package accounts for the cash | `CommercialRecords` |
| QuickBooks (`quickbooks.py`, `quickbooks_sync.py`) | snapshots, opening entry | save, sync, import, repair | decided before the lock, applied under it | `QuickbooksOpening` |
| Stripe (`stripe.py`, `stripe_invoices.py`) | evidence, plans, receipts | capture, stage, apply, recover | a plan is bound to what it read | `StripeClearing` |
| Standing preparation (`preparation_runtime.py`, `automation_policy.py`) | executions, staged report | confirm, stage, audit, publish | exactly the authorised effect, once | `StandingPreparation` |
| Migration (`hosted_migration.py`, `hosted_adoption.py`, `migration_bundle.py`) | the frozen copy, adoption receipts | export, adopt, retry | a consistent copy of a folder in use | `CompanyAdoption` |
| Remote books (`remote.py`, `remote_contract.py`, `hosted.py`) | receipts, baseline, output files | run, retry, get, put | late, repeated and lost answers | `RemoteBooks` |
| Questions (`hosted_questions.py`) | request receipts | ask, reply, resolve | a request without an idempotency key is sent once | `CloudQuestions` |
| Locks (`file_safety.py`) | `flock` per company | shared and exclusive | one mutation at a time | the `cmd`, `run`, `lock` of each module |
| Reports, tax forms, connectors, QuickBooks comparison, accuracy | snapshot cache only | read | functions of what was read | not modelled |

Parts interact through files only: every command takes the entity lock, reads
what it needs, writes some of the files and releases the lock. The exceptions
are what the models are about: decisions on duplicates, previews, command lines
that load the company before the lock, exports, and everything remote.

## Conventions

* **A step ends at one durable write** (a SQLite commit, an `os.replace`, one
  request on the wire), so that a stop falls between every two writes of a
  command and leaves what the disk would hold. A failed write that raises is the
  same event: `with` blocks release the lock and only the open SQLite
  transaction is rolled back.
* Each action carries the guards of the code up to its write. Refusals that
  change nothing are not actions.
* Variables named `delivered`, `earned`, `intended`, `reviewed`, `requests`,
  `imported` or `effects` are history, read by properties only.
* Amounts are small integers of cents, days are numbers, names and documents are
  members of small sets. Wording and layout are left out, except in
  `StatementLayouts`, which is about what a printed number is taken for.
* `Max...` constants and `Budget` bound what would otherwise grow without end;
  they are guards of the actions that make proposals, stops, previews, edits or
  new entries, and of no others.
* A constant such as `AnySpelling`, `Lenient`, `CorrectsPosted` or
  `Interruptible` marks a place where the code lets something happen that breaks
  a property. The passing runs describe the rest of the system with it off, and
  where a doc, comment or test promises otherwise, a violation run has it on.

## Modules

### PostingWorkflow

The way of a bank row into the ledger: import, review, finalization, learning.
`ledger` are the entries with a source id, `receipts` the
`queue-finalization-intent` events written in the entry's transaction, `seen`
and `queued` two staging files, `items` the queue files, `learned` the learned
context, `cmd` the program state of the command that holds the lock.

`AlreadyKnown` is the four-way duplicate lookup of the importer,
`eligible_for_autopost` the trust ramp, `RecoveryReceipts` the search of
`_recover_finalization`. A queue item's hash is the item itself: `rev` stands for
the timestamps that make any two proposals differ. Abstracted: amounts, dates,
and the refusals of caller controls. `HeldRows` are rows that never auto-post.

### GroupJournal, AtomicGroup

How a group of proposals is published (`_save_item_group`): a directory with the
old and new bytes of each member, a manifest, a COMMIT marker, the replacement of
the queue files, the removal of the directory. `AtomicGroup` is the promise: a
command changes all the items it was asked to change in one step, or none, and a
later command is not undone. `GroupJournal` implements it under the refinement
mapping `Logical`, which reads the queue through the journal. `dest` are the
queue files (a value names the command that wrote it), `journal` the directory
under `.transactions`. One journal at a time is enough: every command that makes
one first finishes the one it finds, or refuses to go on. `Interruptible` says
which operations a stop may catch in the middle: the write of COMMIT (`"marker"`)
and the removal of the directory, file by file in any order (`"removal"`).

### DuplicateHolds

Rows of a feed that may repeat what the books hold. The guarded import holds such
a row, and a person decides "duplicate" or "distinct". `candidates` and `aliases`
are two staging files, `books` the ids that are posted or queued, `sessions` the
processes with the copies of the files they read. A decision holds no lock, so
its read and its write are separate actions. `similar` is the comparison of
dates, amounts and descriptions, left open. `legacy_alias_status` (last alias
under any spelling) and `PlanDecision` (exact spelling first) are kept apart as
in the code. `Cutover` are rows dated on or before the opening.

### ReviewDesk

What a person decides about staged rows besides a plain category: a split, a pair
of rows that are one transfer, a correction, and what becomes of it when the bank
sends a row again with another amount. A queue file is named after one row or
after a pair, so that several files may speak of one row. `entries` and `sources`
are the ledger and the ids it has a posting for, `job` the writes still to come
after a commit, `chart` the accounts a person may add and remove meanwhile.
`account_remove.py` looks for the account in every file (`Named`).

### StatementImport

Statement files of one account beside its feed. What happened at the bank is a
constant; a file shows part of it as rows, and every row carries, for the
properties only, the transactions it stands for. `plan_duplicates` is modelled
whole: exact ids, exact rows, near dates, each recorded row serving one incoming
row. Imports run in steps (`import_transactions`, `_record_held`,
`_store_record`, `Finish`); a profile's boundary day, unconfirmed periods,
extractions that need review, openings and feed imports surround them.

### StatementLayouts

How a CSV of a bank is understood (`bankcsv.py`): columns, date order, decimal
mark, sign convention, newest or oldest first, running balance. `bank` prints
files from a history; `detect_layout` decides or asks, `save_profile` keeps the
layout, `csv_statement` reads a later file with it. Here a number is kept as
what is printed (whole, cents, mark, grouping, minus), because a reading turns
on it.

### BankProof

What the books say of an account and what proves it: coverage of a month by
evidence, the selection among statements of one period, tie-out of a statement
and of a balance, and `feed_proof.py`. All checks are functions of the files,
hence operators; the actions change the files, mistakes of people included.
Intervals are sets of days, so merging and clipping are union and intersection.

### OpenItems

Invoices, bills, credits and allocations with the journals they post. A caller
previews a request (`held`) and later applies the preview, which is bound to the
ledger it was compiled from; a retry is recognised by its operation id
(`receipts`) or by its document (`claims`). A document is bound to one treatment;
a batch of a posted payment is bound to the payment, so that later batches may
cite it too (`Joins`). A request cites one document; those of credits on posted
rows and of offsets bind nothing and are left out. A settlement closes the bank
row's review after its commit, file by file (`job`). Callers may name a row by any
of its spellings only if `AnySpelling`.

### AccrualSchedules

Prepaid, deferred and depreciation schedules: installments by month or by day,
with an end, a refund, a replacement, a cancellation; support rebuilt for any
past day (`_support_at`) from the changes sorted by their dates; local closes of a
month. One transaction per command. Changes may be entered out of the order of
their dates; `ChangesInOrder` names the books where they were not.

### OpeningCutover

Balances carried into accrual books from reports, from lines, or from open items
of a company that turned accrual on later. Every control balance needs supporting
rows with documents. A preview binds files, configuration and books; in between
people edit files, open accounts, close days and post (`Earn`, `Lessen`).

### AccrualRules

Saved rules of what to propose for a supplier or a kind of cost. A set or clear is
previewed without a lock and applied under it in two writes, the rule and then
the receipt; `Finish` is the repetition after a stop in between. `match` chooses
the rule of a row: its supplier's, or the most specific company rule, the smaller
id among equals.

### CommercialRecords

Parties, invoices, bills, payments, credits, refunds and write-offs, with the
link of a payment to a row that the feed posted already, and the tax package of
payments to vendors (`Prepare`, `Review`).

### CompanySettings

One company in two places, `ledger.sqlite` and `entity.json`, which no
transaction spans. `run` is the command that holds the lock, `snap` the currency a
waiting command line loaded before the lock, `held` an owner's preview, which is
bound to what it read. The currency, the basis and tracking commit the ledger
first; fiscal year, tax settings and goals replace the file inside the ledger
transaction.

### LedgerCorrections

Reverse, correct, reclassify-bank and reclassify append reversals and
replacements. What stands is spread over chains of entries, and four readers walk
them in their own ways: the corrections themselves, the statement checks, the
comparison, and the workbook.

### QuickbooksOpening

An opening posted from a QuickBooks snapshot (`SyncImport`, `SyncDecides`,
`SyncApplies`: the decision is taken before the lock), from a folder of reports,
and the repair of openings that an older version posted with income and expenses.
`MCQuickbooksSamples` holds the sample reports.

### StandingPreparation

What a host may do under a standing policy. An execution checks its command when
it starts, without the lock, and the writers it reaches check again. A
reconciliation is staged, audited and published in steps, and the next one
finishes what a stop left.

### StripeClearing

Balance transactions: captured with their evidence, staged, planned, applied in
one transaction, after which the rows leave review step by step; payouts go
through a transit account that the bank deposit closes. Owners and an invoice
import act meanwhile.

### CompanyAdoption

Export: a copy file by file of a folder in use, kept only if nothing changed and
the copy agrees with itself. Import: a snapshot frozen beside a receipt, sent,
retried under its key; the server answers late, for something else, or never.

### RemoteBooks

Commands on a server with receipts here. `seen` is the revision last observed,
`base` and `local` the downloaded shared file with a baseline for each credential,
`output` a file that commands write, `sessions` the command lines, `underway`
requests on the wire. Sign-in rotates the credential. A put reads its contents
(`Prepared`) before their baseline (`Expects`); an output is fingerprinted
(`PublishOutput`) and replaced (`ReplaceOutput`) in two steps without a lock, and a
download takes the revision lock, which people who edit do not.

### CloudQuestions

Questions asked, answered and resolved without idempotency keys: a receipt is
written before the one request is sent, and from then on that id is only read
back.

## Runs

A passing run hosts several components, each on a small instance of its own. A
behaviour of the host is a behaviour of one part, which the first state picks;
the others stay in their initial state. This checks what separate runs would, in
one, and the properties of a part are named as in its module. Where components
work on the same files they are one module; those a host combines do not meet.
`company` takes the operation ids of `OpenItems` in one order (`OpsInOrder`): they
are interchangeable, and TLC's symmetry does not go with liveness.

| Run | Part | Module and instance | Shows |
|---|---|---|---|
| `books` | rows | `PostingWorkflow`: 1 row, 2 spellings, 2 categories, 2 proposals, 2 stops | posted once, never lost, decisions agree with entries, a stopped confirm is finished |
| | ramp, stopped | `PostingWorkflow`: 3 rows (one held), threshold 2, no stops; 2 rows, 1 stop | confirmations counted once, or one too many per stop; nothing posts unattended before it was earned |
| | journal | `GroupJournal`: 3 items, 2 commands, 3 stops | a journal left behind is finished |
| | sales, taxes | `CommercialRecords`, 6 commands: two invoices, a receipt and a refund; a bill, a check, a rebate and a payment of the year before | records agree with cash; a reviewed tax package accounts for it |
| | rules | `AccrualRules`: 6 requests, 3 previews, 1 stop | rules are what was reviewed |
| `evidence` | journal, torn | `GroupJournal`: 3 items, 2 commands, 2 stops; 2 items, everything interruptible, 1 stop | refinement of `AtomicGroup`, recovery never refuses; readers never see half a group |
| | statements | `StatementImport`: overlapping files of two sources beside a feed | every bank transaction counted once, none dropped |
| | proof | `BankProof`: 2 months, 3 statements, 1 mistake | a proven month ended as it says |
| | payouts, zeros | `StripeClearing`: a charge, its payout and deposit; a payout of nothing | rows leave review booked as they are, once |
| | layouts | `StatementLayouts`: banks that depart in up to three ways from a plain one, 2 histories, overlapping files | a file is read as the bank meant it unless the layout was a guess |
| `holds_review` | holds, two | `DuplicateHolds`: 1 process with 2 stops; 2 processes | holds last until decided, decisions bind |
| | desk | `ReviewDesk`: 2 rows that are one transfer, 1 split, 1 stop | posted as approved, once; a stop is finished |
| | brought, tracked | `OpeningCutover`: 4 requests; 1 of a tracking company | control balances carried with their support |
| `company` | items | `OpenItems`: 1 receipt, 1 invoice, 1 credit, 1 document, 3 operations, 1 stop | items, allocations, ledger and review in step; a document supports one operation, or batches of one payment |
| | schedules | `AccrualSchedules`: 6 days in 2 months, commands on 4 of them, 2 changes, 1 reopening | recognized once; support of past days; closed months stay |
| `operations` | currency ... goals | `CompanySettings`, six instances of its kinds of command | one currency, no lost settings, no plan twice |
| | pair, chain | `LedgerCorrections` | chains net to one entry, readers agree |
| | sync, repair | `QuickbooksOpening` | openings as shown |
| | rows, routine, entries, reports | `StandingPreparation` | hosts act as verified |
| | leaving, joining, racing | `CompanyAdoption` | copies are consistent, receipts true |
| | commanding, sharing, replacing, rivals | `RemoteBooks` | what came since is kept, but for two moments that the property names |
| | questioning | `CloudQuestions` | each request arrives at most once |

Why these bounds: two stops are a stop and a stop during its recovery (three
where recovery has its own recovery). Two rows, items or processes are one
command's work and what another does to it; a third row is there where a count
must pass a threshold. Two proposals or plans are one that is current and one
that is stale. Amounts of one to three cents are enough for parts, wholes and
remainders, since the code adds and compares; where it divides
(`AccrualSchedules`, `CommercialRecords`) the amounts leave a remainder.

The other seven runs expect a violation. Each has one property, taken from a doc,
a comment or a test of the repository, and `PROJECT.json` quotes both lines.

| Run | Module | What TLC finds |
|---|---|---|
| `related` | `PostingWorkflow` | a stop between the two writes of a related-entity proposal leaves an ordinary one, which is learned |
| `rollback` | `GroupJournal` | a stop inside `rmtree` after COMMIT is gone takes a published group back |
| `holds_lost` | `DuplicateHolds` | a decision without the lock erases the hold of another row |
| `twice_corrected` | `ReviewDesk` | a row whose transfer was posted is posted again by `correct` |
| `respelled` | `OpenItems` | a later settlement under the other spelling settles twice |
| `greedy` | `StatementImport` | an earlier similar row takes the match of an exact one, which is posted twice |
| `stale_put` | `RemoteBooks` | a get of another session between the two reads of a put attaches the new revision to the old contents |

## Fairness

Fairness is assumed only where a liveness property needs it, and only of what the
program or its contract makes happen. A command that runs takes its next step
unless it is stopped, because nothing in it waits (weak fairness of `Continue`,
`CleanQueue`, `CleanPending`, `mark_seen`, `remove_from_pending`,
`save_decided`). A person or caller repeats a command that reported an error, as
its message asks (strong fairness of `RetryConfirm`, `Repeat` and `ResolveGroup`,
because other commands may hold the lock in between; weak fairness of `Retry`).
For the journal, somebody uses the queue again (`BeginOther`): the code recovers
only then. Nothing is assumed about imports, decisions or any other command, and
the number of stops is finite.

Liveness checked: `StoppedIsFinished` (a confirm behind its ledger commit, and a
journal), `StoppedConfirmFinishes`, `SettledLeavesReview`.

## Proofs

The modules `<name>_proofs` hold the theorems, and `Sums` the lemmas on sums they
share. They hold for every value of the constants that satisfies the named
assumption of the module: every set of rows, items, sessions or requests and
every number of proposals, stops and commands. All have one form: an inductive
invariant `IInv`, `Init => IInv`, one lemma per action for
`IInv /\ [Next]_vars => IInv'`, and corollaries. `Books_proofs` is about
`PostingWorkflow` and `AccrualRules`, `Evidence_proofs` about `GroupJournal` and
`StripeClearing`, `Review_proofs` about `DuplicateHolds` and `ReviewDesk`,
`Operations_proofs` about `CompanySettings` and `StandingPreparation`,
`HostedCompanies_proofs` about what is hosted, `Schedules_proofs` about
`AccrualSchedules`; `OpenItems_proofs` is named after its module.

### Sums, OpenItems_proofs

Theorems: `ItemsAlwaysMatchBooks` (`ItemsMatchBooks`), `CashAlwaysPostedOnce` and
`EvidenceAlwaysPaysOnce`, under `MoneyAssumption` (cash and fees are integers, an
amount a caller names is positive, the feed books a row to income or to an account
that is neither bank nor fees) and `ItemAssumption` (invoices and credits are
different). The first two assume `~AnySpelling`: `respelled` shows that a caller
who names the same row by its other spelling breaks `ItemsMatchBooks`. The third
(`EvidencePaysOnce`) holds for any spelling. Batches of one payment may share a
document, so it says that two operations which cite one document carry the same
receipt or settle the same movement, one of them as a batch. `Owned` makes that
inductive: a claim is the treatment of an operation that is kept (`Bound`), and
what cites it has that treatment, or is a batch of the movement that treatment
pays (`Supported`).

`ItemsMatchBooks` says of every control account that its balance is what the items
leave open plus what ordinary postings explain, which is a sum over entries of a
sum over items. A step keeps it only if the entry it adds, the items it adds and
the amounts it takes from others belong to one bank movement, and `Core` collects
what makes that so: a movement is posted under one spelling (`OneSpelling`); all
allocations of a row have its sign and stay inside it (`WithinPayment`), which is
`PaymentNotOverAllocated` made inductive; a settlement that posts a row uses the
whole of it, and the credits taken from it fit in its entry (`FullyUsed`,
`NewUsesAll`), without which a later settlement could take it again; and an item,
an allocation, an entry and a claim each lead back to a receipt that is kept
(`Forms`), so that a repeated settlement is known to be of the same movement
(`TreatmentNamesPayment`). Effects are compiled before they are applied:
`HeldHolds` says that a preview whose digest is still the one of the books can
still be applied, and `HeldGoesStale` that any other commit makes it stale.

A settlement is the long case. `SettleLowers` and `SettleShares` say what it takes
from each item and what its entry posts, then there is one lemma per kind of
payment: on the control account already (`SettleControlKeeps`), income that is
reclassified in cumulative shares (`SettleIncomeKeeps`), and a row not posted yet
(`SettleNewKeeps`).

`Sums` proves of the library's `SumFunctionOnSet` that it is what one expects of
a sum. The library defines it by a recursive function over subsets, with a
`CHOOSE` of the order; that two such functions agree and that one exists is
induction, for which the strict subset order of a finite set serves: it is
well-founded (`FS_StrictSubsetOrderingWellFounded`), so that a set of
counterexamples has a smallest (`Smallest`). From there on, adding a member
(`SumAdd`), disjoint unions, sums of functions, changes at one place (`SumChange`)
and images of sums are ordinary proofs.

### Schedules_proofs

`ServiceAlwaysRecognizedOnce` (`ServiceIsRecognizedOnce`), `ClosedPastAlwaysKept`
(`ClosedPastKeepsItsFigures`) and `SupportAlwaysMatches` (`OrderedSupportMatches`),
under `SchedAssumption`: for every calendar of months, every finite set of
schedules, every amount and every number of changes.

The invariant `SchedInv` says of every schedule (`ScheduleOK`) that what it still
carries is what its unposted installments add up to, and that no day of service is
recognized twice, under the present terms or under earlier ones
(`GenerationsFollow`); and of every control account that it holds what the records
say and what ordinary payments explain (`ControlsMatchRecords`). Three parts have
lemmas of their own. *Installments*: the parts a span is cut into by month or by
day are apart and add up to the base to the cent, the last one taking what
division left. *A batch* (`Batch`, `Recognizable`): recognizing several
installments at once posts what they add up to and takes it from the remainders.
*A change* (`Changing`): every command that changes a schedule first recognizes what is
due, then moves or hands back what is left and leaves the record in one of a few
forms (`IsChange`). `CancelIs`, `RefundIs`, `TerminateIs` and their like show that
each command is such a change; what a change keeps is proved once.

The closed past is about pairs of states. A schedule keeps its origin
(`SameOrigin`). While changes are entered in the order of their dates, the
earliest record of its history stays the earliest (`FirstKept`), and whatever a
command posts is dated in an open month (`OpenIsLater`). The figures of a day
before are then sums over the same allocations (`FiguresStay`).

The support of a past day needs a second invariant, because the report does not
read what the records hold but starts from their first version and follows the
dated allocations. `Traced` says where every cent went. What a schedule began with
is allocated, held, or was handed over (`BaseTraced`). Recognitions come after the
start it began with and before a handover, and a change is dated as its note
(`DatesTraced`). A handover is to one replacement, which begins with that balance
on that day (`HandoversTraced`). An allocation shows what its entry says, on the
same day (`EntriesTraced`), and a schedule that replaces none is funded by the
payment or by a reclassification of its own (`FundingTraced`). `TracedKept` keeps
it, again with one lemma for all changes (`ChangeTraces`). From it, the support of
one schedule on a day is what it brought by then, less what it handed over, and
what its allocations show (`SupportMade`). Added up, replacements cancel what they
replace (`HandoversCancel`), the others are the payment and the reclassifications
of the day (`PaymentFunds`, `ReclassesFund`), and the allocations, taken schedule
by schedule (`SumByKey`), are the remaining entries (`BalanceMade`). The two
hypotheses of `OrderedSupportMatches` are needed: a reclassification that is dated
after the payment, or a payment of which no schedule took a part, leaves days that
do not reconcile, and `_at_history` reads another first record when changes were
entered out of order.

### Books_proofs: PostingWorkflow

`TypeCorrect`, `PostedOnce`, `NothingLost`, `SeenPosted`, `ReviewedOnce`,
`DecisionsMatchLedger`, all from `Invariance`, under `ConstantsAssumption`.
`TypeCorrect` is proved and not an invariant of the run.
`RowPostedOnce` is not inductive. `ImportPosts` commits entries that were planned
row by row, so `ImportPlan` says that no planned row is posted, queued or planned
twice. `correct` compares exact ids only, so `RowsReviewedOnce` says that a queued
row has one spelling in review and was not posted under another. Finalization
relies on `FinalizingPosted`, recovery on `ReceiptsPosted`, and the row count of
a returning import on `BatchAccounted` and `ImportPosted`.

`RampEarned` (`TrustIsEarned`) needs a second invariant, `RampInv`. A repeated
confirm may be counted again, so it is not enough to bound what was counted too
much: `Counted` bounds it together with the confirmations that a stop left to be
repeated (`LeftOver`). A stop adds at most one of these, counting one again takes
it away (it is `Covered` from then on), and a proposal that is written anew is
never the one of an old receipt (`ReceiptsOfOpen`). Without stops this gives
exact counts.

### Evidence_proofs: GroupJournal

Wherever stops fall: `TypeCorrect`, and `Readers` (`[]ReadersSeeTheQueue`), from
the small invariant `Occupied`: a command inside the protocol has its directory
on disk. With `Interruptible = {}`, which `rollback` shows is needed:
`Recoverability` and `Atomicity`, the refinement of `AtomicGroup`. `JournalShape`
lists the states of the directory that recovery can tell apart, `Progress` ties
them to how far the command is, `Replaced` says which files already hold which
value, and `Numbered` that everything on disk is older than a command that has
not published; without it a journal could take back what a later command wrote.
`SaveItem` and `WriteMarker` map to `Publish`, the start of a command to
`Request`, every other step changes nothing the queue logically holds.

### Review_proofs: DuplicateHolds

For any number of processes: `TypeCorrect` and `DistinctBooked`. The aliases a
process read some time ago are written back later, so the invariant says of every
copy in memory what `DistinctIsBooked` says of the file (`ReadAliasesBooked`),
and of every process about to record "distinct" that its row is booked
(`ReleasedFirst`). With one process (`holds_lost` shows why): `RowsAccountedFor`,
`HeldUntilDecided`, `HeldStaysOut`, from `OneInvariance`. A row is held under one
id (`HeldOncePerRow`), the aliases of a held row do not decide it
(`AliasesOfHeld`), and a row in review history is closed (`ReviewedIsClosed`).
`HoldsAssumption` names the identifiers; finiteness of `MaxAliases` is not used.

### Review_proofs: ReviewDesk

`ApprovedIsPosted` (`PostedAsApproved`) and `OneEntryPerRow` (`RowHasOneEntry`),
under `DeskAssumption`: amounts are integers, the bank accounts and the clearing
account are no categories, and the legs of a split name neither, which
`queue.py:1802` refuses. Both assume `~CorrectsPosted`; `twice_corrected` shows
that a `correct` that posts a row again breaks them.

`DeskInv` adds to the two properties what they need of the files and of the
ledger. `FilesOK`: an item that may still be approved was written with the amount
of each of its rows, its plan keeps off the bank accounts, and a category's plan
cancels the amount it was written for, so that the hash compared at approval
vouches for the plan. `LedgerOK`: every row of an entry has a source transaction,
so that a row that has none is in no entry, whichever file spoke of it. A
transaction then comes down to what it `Adds`: entries that balance, that share
no row, move on each bank account what their rows do, and leave nothing on the
clearing account. That is shown for a row alone (`AloneAdds`), a transfer of one
day (`SameDayAdds`) and the two halves of one of two days (`TwoDaysAdd`); and
`PostKeeps` shows that adding such entries keeps the sums over the whole ledger.

### Operations_proofs: CompanySettings

`OneCurrency`, `NamesInCatalog`, `UsedOnce`, `SettingsOfOthersKept`, `TypeCorrect`
under `SettingsAssumption`. `Fits` says how ledger and file may differ while no
command runs, `RunFits` what the running command still has to write, depending on
which of the two it wrote first; `InOneCurrency` and `SnapsOfBooks` tie the
currency that waiting command lines loaded to the entries there are, and
`PlansAreOld` says that a plan is never newer than the books it was made from.

### HostedCompanies_proofs

`WhatCameSinceIsKept` (`RemoteBooks`), under `BooksAssumption`. `BooksInv` says
that no baseline, session or receipt is ahead of the server (`ClockOK`) and that
the downloaded file knows every text of another machine that its baseline under
some credential covers (`FileOK`). The theorem has the exceptions of its property,
because the code has them: contents that another session's download overtook
(`DownloadedBetween`, which the run `stale_put` shows), and what is written between
the last fingerprint of an output and its replacement (`CameSinceLooked`). `OutcomesAreTrue` (`CloudQuestions`), under `QuestionsAssumption`. One
session works at a time (`OneAtWork`); a fenced request has not arrived and a sent
one arrived at most once (`AtWork`); what a receipt read before its request is
still there (`ReceiptsRead`). `ExportKeepsCopy` (`CompanyAdoption`): the copy an
export keeps is the folder as it stands when the last file was checked, from
`FolderOK` (a stamp identifies a body) and `StillCopied`. `AdoptedAsRecorded`:
every snapshot, request, answer and company goes back to a receipt of its key
(`ReceiptsNamed`, `SentIsReceipted`).

### Evidence_proofs: StripeClearing

`SettledOnce` (`RowsAreSettledOnce`), under `ClearingAssumption` (a deposit is no
movement), from `ClearingInvariance`. A row that is still in Review has the facts
of its entry (`EntriesAsSaved`), so that a confirm or an apply that is repeated
removes what it booked. A run goes by a plan that was made again under the lock:
`PlanHolds` and `NothingToPost` say what that plan means for the books
(`PlanStillHolds` derives it from `Plan`), and `Settles` what the commit leaves of
it, which the removal of the rows relies on. A row whose posting is proven settles
whatever happened since (`ProvenSettles`), because a receipt names only what an
apply posted (`ReceiptsNamePosted`). That a deposit closes a payout in the books
needs `OnlyZeroWithoutEntry`: a payout can be seen without an entry only when it
is one of nothing.

### Operations_proofs: StandingPreparation

`ActsAsVerified` (`HostActsAsVerified`), under `PrepAssumption`, from
`PrepInvariance`. That a posting is what was verified follows from the checks of
its writer, the kinds of commands there are, and `Corresponds`: a correction is of
an entry that exists, and no audit event is ahead of the ledger. The report needs
more, because stops separate staging, audit and publication. `OneWriter` says that
whoever staged holds the lock until it stops; `Progress` what each step still has
to do; `Follows` that an unfinished stage replaces one record with a newer one or
has done so, which people cannot disturb because they recover before they save;
and `ReportOK` that two audited stages never made a record at the same time, so
that a recovered record has one audit event.

### Books_proofs: AccrualRules

`SavedAsReviewed`, under `RulesAssumption`, of which the essential part is that an
operation id names one request. A rule is explained by the last receipt about its
target, or by a plan that can still be repeated (`AllExplained`); between the two
writes the rule is the plan's and the receipt is not there (`RunWritten`); and of
two rules with one match one plan warned of the other (`TwinsWarned`).
`SmallerFollowed` is about `match` alone: twins apply to the same rows with the
same score, so the larger id is never chosen. `RulesInvariance` states the whole
invariant, and `SavedAsReviewed` what a reader of the books can rely on.

## What is only model-checked

* Liveness, which needs fairness: the three properties above.
* Some of what sums over sets say: `CountedExactlyOnce`, `ProvenMonthIsTrue`,
  `OpeningCarriesOver`, `ChainsNet`, `RecordsReconcile`,
  `ReviewedAccountsForCash`. `Sums` removes the obstacle that their folds were;
  what is left is an inductive invariant for each. Some are functions of the
  files and hold of what people may do to them on the instances only
  (`ProvenMonthIsTrue`, `CountedExactlyOnce`: the greedy match of `greedy` is one
  row away).
* Not attempted yet, though nothing recursive stands in the way:
  `QbOpeningAsShown`, `ReadAsBanked`.

## What the models show about the code

The seven recorded findings are in the table of violation runs. The models keep
the following behaviours as they are; no checked property denies them. They are
listed for whoever works on the code next.

* **Settings.** The start of accrual tracking can change after a stop
  (`enable.py:168`); `add_account` loads the currency before the lock;
  `configure_basis` opens its accounts in USD; a stop between ledger and file of a
  basis change makes the company refuse to load until it is repeated; fiscal and
  tax settings that stopped leave no audit event; `migrate --force` takes no lock.
* **Learning.** A confirm that stopped after it taught, and is repeated after
  another of its counterparty was confirmed, teaches again: `last_operation_hash`
  remembers one operation (`queue.py:77` says it "prevents duplicate learning
  during recovery"). `TrustIsEarned` states what is left of the promise: one too
  many per stop at most.
* **Journal.** A stop inside the write of COMMIT, or one inside the removal that
  leaves COMMIT beside a missing manifest, blocks the queue.
* **Feed proof.** An opening balance entered with a source id and dated inside the
  first month of a feed counts as sourced, so the month is proven with
  `source_opening_balance` 0.00 while the posting of its opening lies in it
  (`feed_proof.py:431`; the comment at `:427` says such a month needs a statement).
* **Review.** `correct` writes no receipt: after a stop behind its commit neither
  `correct` nor `confirm` can finish the row (`queue.py:2592`).
* **Corrections.** Compare, vendor sheet and adjustment log look ids up exactly,
  so under another spelling (`AnySpelling`) readers disagree; the comparison takes
  an entry reversed without replacement as effective; `--new-source-id` accepts
  the other spelling of the original; closed periods are not asked.
* **QuickBooks.** A snapshot with only a trial balance posts the period-end one as
  the opening; a repeated sync of a snapshot in a foreign currency reports a
  digest collision; the decision of a sync is not made again under the lock except
  for the currency; opening by folder asks for no cutover date, overlap or lock;
  after a reversal a sync opening is refused for ever.
* **Standing preparation.** A stop after the audit, followed by any posting,
  leaves an audited report that can never be published and blocks every later one
  (`ledger_changed`) until somebody removes the stage. An interrupted host confirm
  can be finished only by the same execution reading the same item.
* **Remote.** Receipts carry the hash of the token, so that a pending receipt
  cannot be retried after the sign-in was refreshed, and the same key makes a new
  one. What a person or another session writes into an output between its
  last fingerprint (`remote.py:354`) and its replacement (`:356`) is lost, and so
  is an edit of a downloaded file there. A question id reused after a new sign-in
  posts again. A stop while writing the frozen snapshot leaves bytes that make the
  key unusable.
* **Stripe.** "A payout and bank source can each be matched only once" holds per
  plan; a held payout does not hold the rest of its cohort; a payout confirmed to
  a category still lets its arrival go to transit; an owner's stopped confirm whose
  row a later apply holds can only be withdrawn and dismissed.
* **Commercial records.** Direct payments and refunds compare source ids exactly,
  so that a row posted as `banksync:abc` can be paid again as `abc`
  (`AnySpelling`); cumulative shares over three lines can exceed the last line;
  linking a refund never reduces the excess credit; an excess of a vendor payment
  makes `tax.prepare` raise; nothing invalidates a reviewed package when payments
  change.
* **Cutover.** Repeating an applied opening is refused once any account was opened
  since, in one case right after the first apply (`migration.py:522`; the docstring
  at line 577 promises the original receipt).
* **Bank files.** `bankcsv.py:10` says "Detection never guesses silently"; a first
  export of whole amounts, or of dates with day = month, does guess
  (`ReadAsBanked` excludes layouts saved from such files). Exports that cut between
  identical rows of one day give both the same row id. Headerless files with
  pending rows or direction columns, and summary lines without a balance column,
  are not among the checked banks.
* **Accrual rules.** A set that stopped before its receipt, whose rule was then
  cleared, brings the rule back when repeated. An operation id used for two
  requests can leave a rule without a receipt.
* **Schedules.** A change may be entered with an earlier date than one already
  there: `_change_effect` (`schedules.py:632`) compares its date only with the
  schedule's origin and with what was recognized. `_support_at` sorts the history
  by `effective_date` (`reports.py:164`), so that the new record can become the
  first one, and the figures of a closed month before it change. For changes
  entered in order they never do (`ClosedPastKeepsItsFigures`).
* **Cash view.** With a payment the feed booked as income, a credit applied later
  makes "Customer payments not yet applied" negative, and a month's figures depend
  on `through` when a later estimate registers an account.
* **Coverage, snapshot cache.** A short statement inside a long one can hide a gap;
  two cache builders share `cache_new.sqlite`, and one may rename the other's
  unfinished file. Neither is modelled beyond this reading.

## Not modelled

Parsers and network connectors, report layout, workbooks, tax forms, the
QuickBooks comparison (a read-only classification of an export), the command line
and the demo data: they hold no state of their own that outlives a command and
that others change. The snapshot cache, taught instructions, the quarterly
review, pending feed rows and their supersession, installments on carried fixed
assets, fees and withholding, and the hash chain of audit events are left out of
the modules that stand beside them. Carried fixed assets are the one kind of
schedule `AccrualSchedules` leaves out: `Opened` has no depreciation, whose opening
reserves the cost and not the remainder (`schedules.py:257`, `:363`) and brings an
accumulated balance of its own.

Two pairs of writes are one step. `_record_held` writes the candidates and then
the aliases (`statement_import.py:796`): an alias of status "candidate" decides
nothing, a decision replaces or adds it, and aliases are not state of
`StatementImport`. `init_entity` creates the ledger and then fills it in a
transaction (`entity.py:462`): a stop between them leaves a ledger without basis,
chart or business type, which the next `init` takes as it is, and `CompanySettings`
says nothing of companies begun that way. Texts are abstract, and refusals that leave
everything unchanged are not actions. Every part is listed with its status in
`PROJECT.json`.

## Plan

1. Proofs: `QuickbooksOpening` (`QbOpeningAsShown`), `StatementLayouts`
   (`ReadAsBanked`).
2. Taught instructions and pending feed rows, beside `PostingWorkflow`.
3. The snapshot cache of the reports.
