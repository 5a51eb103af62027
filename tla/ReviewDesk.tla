---------------------------- MODULE ReviewDesk ----------------------------
(***************************************************************************)
(* The decisions a person takes on staged rows: a category, a split over   *)
(* several accounts, or a pair of rows that are the two sides of one       *)
(* transfer (queue.py), and the chart of accounts they choose from         *)
(* (entity account-add and account_remove.py).                             *)
(*                                                                         *)
(* A queue file is named after one row or after a pair, so several files   *)
(* may speak of one row. Every command holds the entity lock to its end;   *)
(* what it writes after the ledger entry is a step of its own, and the     *)
(* process may stop before any of them.                                    *)
(***************************************************************************)
EXTENDS Integers, FiniteSetsExt, Functions

CONSTANTS
  DeskRows,      \* staged bank rows
  AccountOf,     \* the bank account of each row
  SameDay,       \* pairs of rows with one date
  FirstAmounts,  \* each row's amount when it is staged
  LaterAmounts,  \* the amount each row may be sent again at
  Categories,    \* accounts that account-add creates
  Plans,         \* split postings a person may ask for: account -> amount
  CorrectsPosted, \* a person corrects a row whose confirmation stopped behind its commit
  MaxStops       \* bound: process stops

Pairs == {p \in SUBSET DeskRows : \E r, s \in p : r # s /\ p = {r, s}}
Ids == {{r} : r \in DeskRows} \cup Pairs
Clearing == "Assets:Transfers-Clearing"
Accounts == Range(AccountOf) \cup Categories \cup {Clearing}
NoItem == [status |-> "none"]
NoJob == [id |-> {}, left |-> {}]

VARIABLES
  staged,     \* pending-categorization.json: the amount of each staged row
  queue,      \* review-queue/: one file per row or pair
  template,   \* split-templates.json: at most one template here
  chart,      \* the accounts of the catalog
  entries,    \* ledger entries: the rows they name and their postings
  sources,    \* source_transactions: the amount each posted row had
  receipts,   \* finalization receipts: the item exactly as it was approved
  seen,       \* the staging store's list of imported ids
  job,        \* the rest of the command that runs
  stops       \* process stops so far

deskVars == <<staged, queue, template, chart, entries, sources, receipts, seen, job, stops>>
ledger == <<entries, sources, receipts>>

\* The feed's amounts are numbers, an account that account-add creates is no bank
\* account, and the lines of a split are "the non-cash legs" (queue.py:1802).
ASSUME DeskAssumption ==
  /\ DOMAIN FirstAmounts \subseteq DeskRows /\ DeskRows \subseteq DOMAIN AccountOf
  /\ FirstAmounts \in [DOMAIN FirstAmounts -> Int] /\ LaterAmounts \in [DeskRows -> Int]
  /\ Clearing \notin Range(AccountOf) \cup Categories /\ Range(AccountOf) \cap Categories = {}
  /\ \A plan \in Plans :
       /\ plan \in [DOMAIN plan -> Int] /\ IsFiniteSet(DOMAIN plan)
       /\ DOMAIN plan \cap (Range(AccountOf) \cup {Clearing}) = {}

-----------------------------------------------------------------------------
(* Items *)

Actionable == {"open", "reopened", "requires-reproposal"}
Status(i) == queue[i].status
Hash(i) == Restrict(staged, i)

\* What an entry made from an item moves on each account.
SplitTotal(plan) == SumFunction(plan)

\* The two sides cancel and come from different accounts.
TransferDetails(p) ==
  /\ p \subseteq DOMAIN staged
  /\ \A a, b \in p : a # b => staged[a] = -staged[b] /\ AccountOf[a] # AccountOf[b]

NewItem(i, type, plan, original) ==
  [status |-> "open", type |-> type, hash |-> Hash(i), plan |-> plan, original |-> original]
Save(i, item) == queue' = [queue EXCEPT ![i] = item]

\* The amount the first proposal was made on stays with the file.
OriginalAmount(r) == IF queue[{r}] = NoItem THEN staged[r] ELSE queue[{r}].original

-----------------------------------------------------------------------------
(* Proposals *)

DeskFree == job = NoJob

\* A category proposal replaces whatever the row's file holds.
propose(r, c) ==
  /\ DeskFree /\ r \in DOMAIN staged /\ c \in chart
  /\ Save({r}, NewItem({r}, "category", [x \in {c} |-> -staged[r]], OriginalAmount(r)))
  /\ UNCHANGED <<staged, template, chart, ledger, seen, job, stops>>

propose_split(r, plan) ==
  /\ DeskFree /\ r \in DOMAIN staged
  /\ DOMAIN plan \subseteq chart /\ SplitTotal(plan) = -staged[r]
  /\ Status({r}) \in Actionable \cup {"none", "withdrawn"}
  /\ Save({r}, NewItem({r}, "split", plan, OriginalAmount(r)))
  /\ UNCHANGED <<staged, template, chart, ledger, seen, job, stops>>

MayProposeTransfer(p) ==
  /\ TransferDetails(p)
  /\ Status(p) \in Actionable \cup {"none"}
  /\ \A r \in p : Status({r}) \notin Actionable

propose_transfer(p) ==
  /\ DeskFree /\ MayProposeTransfer(p)
  /\ Save(p, NewItem(p, "transfer", [x \in {} |-> 0], Max({staged[r] : r \in p})))
  /\ UNCHANGED <<staged, template, chart, ledger, seen, job, stops>>

save_split_template(plan) ==
  /\ DeskFree /\ DOMAIN plan \subseteq chart
  /\ template' = {plan}
  /\ UNCHANGED <<staged, queue, chart, ledger, seen, job, stops>>

withdraw(i) ==
  /\ DeskFree /\ Status(i) \in {"open", "reopened"}
  /\ Save(i, [queue[i] EXCEPT !.status = "withdrawn"])
  /\ UNCHANGED <<staged, template, chart, ledger, seen, job, stops>>

\* The feed sends a staged row again at another amount.
AmountChanges(r) ==
  /\ DeskFree /\ r \in DOMAIN staged \ DOMAIN sources /\ staged[r] # LaterAmounts[r]
  /\ staged' = [staged EXCEPT ![r] = LaterAmounts[r]]
  /\ UNCHANGED <<queue, template, chart, ledger, seen, job, stops>>

reopen_if_amount_changed(r) ==
  IF staged[r] = queue[{r}].original THEN queue[{r}]
  ELSE [queue[{r}] EXCEPT !.status = "requires-reproposal"]

reconcile_pending_amount_changes ==
  /\ DeskFree
  /\ queue' = [i \in Ids |->
       IF Status(i) \in {"open", "confirmed"} /\ i \subseteq DOMAIN staged /\ i \notin Pairs
       THEN reopen_if_amount_changed(CHOOSE r \in i : TRUE) ELSE queue[i]]
  /\ UNCHANGED <<staged, template, chart, ledger, seen, job, stops>>

-----------------------------------------------------------------------------
(* Decisions *)

\* Wrong variant: a row is posted when an entry carries it as its own source id.
PostedAsOwn(i) == {r \in i : \E e \in entries : r = e.own}

\* A row is posted when an entry or a source transaction has its id.
Posted(i) == i \cap DOMAIN sources

\* Wrong variant: the staged rows are not compared with what was proposed on.
EvidenceOfAnyAmount(i) == i \subseteq DOMAIN staged

\* The rows are staged as they were when the proposal was made.
EvidenceHolds(i) == i \subseteq DOMAIN staged /\ Hash(i) = queue[i].hash

\* The receipt of exactly this item, on rows that are unchanged where still staged.
Recovers(i) ==
  /\ Posted(i) = i /\ \E rec \in receipts : rec.id = i /\ rec.item = queue[i]
  /\ \A r \in i \cap DOMAIN staged : staged[r] = queue[i].hash[r]

\* What approval checks again: the split against the chart and the row's
\* amount, the two sides of a transfer against each other.
ApprovalChecks(i) ==
  CASE queue[i].type = "split" -> /\ DOMAIN queue[i].plan \subseteq chart
                                  /\ \A r \in i : SplitTotal(queue[i].plan) = -staged[r]
    [] queue[i].type = "transfer" -> TransferDetails(i)
    [] OTHER -> TRUE

Lines(rows, own, postings) == [rows |-> rows, own |-> own, postings |-> postings]
Bank(r) == [a \in {AccountOf[r]} |-> staged[r]]
Both(f, g) == [x \in DOMAIN f \cup DOMAIN g |-> IF x \in DOMAIN f THEN f[x] ELSE g[x]]
Side(i, a) == CHOOSE r \in i : AccountOf[r] = a

\* One entry for a row or for a pair of one day; a pair of two days posts each
\* side against the clearing account.
EntriesOf(i, plan) ==
  IF i \notin Pairs THEN {Lines(i, r, Both(plan, Bank(r))) : r \in i}
  ELSE IF i \in SameDay
  THEN {Lines(i, CHOOSE r \in i : TRUE, [a \in {AccountOf[r] : r \in i} |-> staged[Side(i, a)]])}
  ELSE {Lines({r}, r, Both(Bank(r), [a \in {Clearing} |-> -staged[r]])) : r \in i}

\* One ledger transaction: the entries, the accounts they need, the source
\* rows and, for a confirmation, the receipt.
Post(i, plan, receipt) ==
  /\ entries' = entries \cup EntriesOf(i, plan)
  /\ chart' = chart \cup UNION {DOMAIN e.postings : e \in EntriesOf(i, plan)}
  /\ sources' = Both(Hash(i), sources)
  /\ receipts' = receipts \cup receipt

Cleanup == {"seen", "pending", "item"}

\* confirm, confirm_split and confirm_transfer, up to the ledger commit.
Confirm(i) ==
  /\ DeskFree /\ Status(i) \in {"open", "reopened"}
  /\ Posted(i) = {} /\ EvidenceHolds(i) /\ ApprovalChecks(i)
  /\ Post(i, queue[i].plan, {[id |-> i, item |-> queue[i]]})
  /\ job' = [id |-> i, left |-> Cleanup, status |-> "confirmed"]
  /\ UNCHANGED <<staged, queue, template, seen, stops>>

\* The same command again, after a stop behind the commit.
Repeat(i) ==
  /\ DeskFree /\ Status(i) \in {"open", "reopened"} /\ Recovers(i)
  /\ job' = [id |-> i, left |-> Cleanup, status |-> "confirmed"]
  /\ UNCHANGED <<staged, queue, template, chart, ledger, seen, stops>>

\* correct posts the row to another category. It keeps no receipt and does not
\* ask whether the row is posted: the ledger refuses a second entry with the
\* row's source id, which a pair of one day has on one of its rows only.
correct(r, c) ==
  LET i == {r} IN
  /\ DeskFree /\ Status(i) \in {"open", "reopened"} /\ queue[i].type = "category" /\ c \in chart
  /\ EvidenceHolds(i) /\ PostedAsOwn(i) = {}
  /\ CorrectsPosted \/ Posted(i) = {}
  /\ Post(i, [x \in {c} |-> -staged[r]], {})
  /\ job' = [id |-> i, left |-> Cleanup, status |-> "corrected"]
  /\ UNCHANGED <<staged, queue, template, seen, stops>>

Then(step) == job' = IF job.left = {step} THEN NoJob ELSE [job EXCEPT !.left = @ \ {step}]

\* Wrong variant: the item's own id is marked, not the ids of its rows.
mark_item_seen ==
  /\ "seen" \in job.left
  /\ seen' = seen \cup {job.id} /\ Then("seen")
  /\ UNCHANGED <<staged, queue, template, chart, ledger, stops>>

mark_seen ==
  /\ "seen" \in job.left
  /\ seen' = seen \cup job.id /\ Then("seen")
  /\ UNCHANGED <<staged, queue, template, chart, ledger, stops>>

remove_from_pending ==
  /\ "pending" \in job.left /\ "seen" \notin job.left
  /\ staged' = Restrict(staged, DOMAIN staged \ job.id) /\ Then("pending")
  /\ UNCHANGED <<queue, template, chart, ledger, seen, stops>>

\* Wrong variant: the decision is not saved when the command is a repetition.
save_first_decision ==
  /\ job.left = {"item"}
  /\ queue' = IF stops > 0 THEN queue ELSE [queue EXCEPT ![job.id].status = job.status]
  /\ Then("item")
  /\ UNCHANGED <<staged, template, chart, ledger, seen, stops>>

save_decided ==
  /\ job.left = {"item"}
  /\ Save(job.id, [queue[job.id] EXCEPT !.status = job.status]) /\ Then("item")
  /\ UNCHANGED <<staged, template, chart, ledger, seen, stops>>

Stop ==
  /\ ~DeskFree /\ stops < MaxStops
  /\ job' = NoJob /\ stops' = stops + 1
  /\ UNCHANGED <<staged, queue, template, chart, ledger, seen>>

-----------------------------------------------------------------------------
(* The chart of accounts *)

account_add(c) ==
  /\ DeskFree /\ c \notin chart
  /\ chart' = chart \cup {c}
  /\ UNCHANGED <<staged, queue, template, ledger, seen, job, stops>>

ClosedStatus == {"confirmed", "corrected"}

\* Wrong variant: the review queue is not searched.
NamedInTemplates(c) == \E plan \in template : c \in DOMAIN plan

\* Company settings that name the account: items not closed, templates.
Named(c) ==
  \/ \E i \in Ids : Status(i) \notin ClosedStatus \cup {"none"} /\ c \in DOMAIN queue[i].plan
  \/ \E plan \in template : c \in DOMAIN plan

\* Only an account that account-add created, with no posting, named nowhere.
account_remove(c) ==
  /\ DeskFree /\ c \in chart
  /\ ~ \E e \in entries : c \in DOMAIN e.postings
  /\ ~Named(c)
  /\ chart' = chart \ {c}
  /\ UNCHANGED <<staged, queue, template, ledger, seen, job, stops>>

-----------------------------------------------------------------------------
DeskInit ==
  /\ staged = FirstAmounts
  /\ queue = [i \in Ids |-> NoItem]
  /\ template = {}
  /\ chart = Range(AccountOf) \cup Categories
  /\ entries = {} /\ sources = <<>> /\ receipts = {}
  /\ seen = {} /\ job = NoJob /\ stops = 0

DeskNext ==
  \/ \E r \in DeskRows, c \in Categories : propose(r, c) \/ correct(r, c)
  \/ \E r \in DeskRows, plan \in Plans \cup template : propose_split(r, plan)
  \/ \E p \in Pairs : propose_transfer(p)
  \/ \E plan \in Plans : save_split_template(plan)
  \/ \E i \in Ids : withdraw(i) \/ Confirm(i) \/ Repeat(i)
  \/ \E r \in DeskRows : AmountChanges(r)
  \/ reconcile_pending_amount_changes
  \/ mark_seen \/ remove_from_pending \/ save_decided \/ Stop
  \/ \E c \in Categories : account_add(c) \/ account_remove(c)

\* A command that runs goes on; a person repeats a confirmation that stopped.
Fairness ==
  /\ WF_deskVars(mark_seen) /\ WF_deskVars(remove_from_pending) /\ WF_deskVars(save_decided)
  /\ \A i \in Ids : SF_deskVars(Repeat(i))

DeskSpec == DeskInit /\ [][DeskNext]_deskVars
DeskFairSpec == DeskSpec /\ Fairness
-----------------------------------------------------------------------------
Amounts == Range(FirstAmounts) \cup Range(LaterAmounts)
DeskTypeOK ==
  /\ DOMAIN staged \subseteq DeskRows /\ Range(staged) \subseteq Amounts
  /\ \A i \in {j \in Ids : queue[j] # NoItem} :
       /\ Status(i) \in Actionable \cup {"withdrawn"} \cup ClosedStatus
       /\ DOMAIN queue[i].hash = i /\ Range(queue[i].hash) \subseteq Amounts
  /\ chart \subseteq Accounts
  /\ DOMAIN sources \subseteq DeskRows /\ seen \subseteq DeskRows
  /\ job # NoJob => job.id \in Ids /\ job.left \subseteq Cleanup

Moves(e, a) == IF a \in DOMAIN e.postings THEN e.postings[a] ELSE 0
Balance(a) == SumFunction([e \in entries |-> Moves(e, a)])
BankTotal(a) == SumFunction([r \in DOMAIN sources |-> IF AccountOf[r] = a THEN sources[r] ELSE 0])

\* Whatever files spoke of a row, its bank account holds each posted row once,
\* at the amount of the row, and the clearing account ends at nothing.
BankMatchesSources ==
  /\ \A a \in Range(AccountOf) : Balance(a) = BankTotal(a)
  /\ Balance(Clearing) = 0

\* What a person approved is what was posted: the rows at the amounts of the
\* proposal, its accounts, entries that balance, and each row once.
PostedAsApproved ==
  /\ \A rec \in receipts : \A r \in rec.id : sources[r] = rec.item.hash[r]
  /\ \A e \in entries : SumFunction(e.postings) = 0
  /\ BankMatchesSources

\* A confirmation that stopped behind its ledger commit is finished by its
\* repetition, unless another command replaces the item first.
StoppedConfirmFinishes ==
  \A i \in Ids : (Recovers(i) /\ Status(i) = "open") ~> ~(Recovers(i) /\ Status(i) = "open")

\* The money of a row is moved by one entry: approving a pair leaves nothing of
\* its rows to a proposal of their own (the reason propose_transfer gives for
\* refusing rows that have one).
RowHasOneEntry == \A e, f \in entries : e.rows \cap f.rows # {} => e = f
=============================================================================
