------------------------------ MODULE OpenItems ------------------------------
(* The open items of accrual books: invoices, bills and credits, the payments  *)
(* allocated to them, and the canonical ledger they share                      *)
(* (accrual/items.py, the journal engine of accrual/journals.py and the        *)
(* versioned records of accrual/store.py).                                     *)
(*                                                                             *)
(* A caller first previews a request and later applies the preview, which is   *)
(* bound to the ledger it was compiled from.  Every operation commits its      *)
(* entries, records and receipt in one ledger transaction.  A settlement also  *)
(* closes the bank row's review behind that commit, file by file, and may be   *)
(* stopped between them.  Money is in cents; dates are left to AccrualSchedules. *)
EXTENDS Integers, FiniteSets, Functions

CONSTANTS
  Payments,       \* bank movements
  Spellings,      \* spellings under which one bank row is known (source_ids.py)
  Ops,            \* operation ids of the callers
  Receivables,    \* ids of invoices
  Credits,        \* ids of customer credits
  References,     \* source ids a caller may name for an adjustment
  Evidence,       \* stored supporting documents, by source identity
  NoEvidence, NoPlan, NoJob, NoItem,
  Cash,           \* [Payments -> Int]: signed cash of the movement
  Fee,            \* [Payments -> Nat]: processor fee kept from it
  Split,          \* shares of the two income lines of an income posting
  Amounts,        \* amounts a caller may name
  FeedTreatments, \* what an ordinary confirm may have posted a row to
  AnySpelling,    \* whether a later batch may name the row by its other spelling
  Lenient,        \* Payments a grouped review proposal may hold
  MaxCrashes      \* bound on stops

Accounts == {"Bank", "Fees", "Receivable", "Deposits", "Sales", "Services", "Allowances"}

ASSUME MoneyAssumption ==
  /\ Cash \in [Payments -> Int \ {0}] /\ Fee \in [Payments -> Nat]
  /\ Amounts \subseteq Nat \ {0}
  /\ Split \in [{"Sales", "Services"} -> Nat \ {0}]
  /\ FeedTreatments \subseteq {"income"} \union (Accounts \ {"Bank", "Fees"})

ASSUME ItemAssumption == Receivables \intersect Credits = {} /\ NoItem \notin Receivables \union Credits

Items    == Receivables \union Credits
Sources  == Payments \X Spellings
Control(i) == IF i \in Credits THEN "Deposits" ELSE "Receivable"
Sign(i)    == IF i \in Credits THEN -1 ELSE 1                    \* item_sign
Gross(p)   == Cash[p] + Fee[p]
Abs(n)     == IF n < 0 THEN -n ELSE n
Variants(s) == {v \in Sources : v[1] = s[1]}                     \* source_id_variants

VARIABLES
  items,     \* [subset of Items -> record]: accrual_items
  allocs,    \* set of records: accrual_allocations
  ledger,    \* [identity of an entry -> postings]
  claims,    \* [subset of Evidence -> [treatment, op]]: the source: intents
  receipts,  \* [subset of Ops -> [request, owner]]: the operation: intents
  held,      \* a preview not yet applied, or NoPlan
  pending,   \* spellings in the pending-categorization file
  queueItem, \* [Payments -> "none" | "single" | "grouped" | "confirmed"]
  job,       \* the review cleanup running under the lock, or NoJob
  crashes

books == <<items, allocs, ledger, claims, receipts>>
vars  == <<items, allocs, ledger, claims, receipts, held, pending, queueItem, job, crashes>>

Zero == [a \in Accounts |-> 0]
Posting(a, n) == [Zero EXCEPT ![a] = n]
Plus(f, g) == [a \in Accounts |-> f[a] + g[a]]

(* An entry is posted under any spelling of its row. *)
SourceExistsExactly(s) == <<"feed", s>> \in DOMAIN ledger
SourceExists(s) == \E v \in Variants(s) : <<"feed", v>> \in DOMAIN ledger
Nameable(s) == SourceExists(s) /\ (AnySpelling \/ <<"feed", s>> \in DOMAIN ledger)
LiveEntry(s) == ledger[CHOOSE e \in DOMAIN ledger : \E v \in Variants(s) : e = <<"feed", v>>]

--------------------------------------------------------------------------------
(* Requests, and the treatment their document is bound to: the operation id and *)
(* the spelling of a new payment are left out of it, and a batch of a payment   *)
(* that is already posted is bound to that payment, not to its rows.  The       *)
(* documents of credits on posted rows and of offsets are recorded and bind     *)
(* nothing: they are left out.                                                  *)
Creations ==
  [kind : {"item_create"}, item : Receivables, mode : {"new"}, source : {<<>>},
   amount : Amounts, evidence : Evidence \union {NoEvidence}]   \* or an estimate basis
  \union
  [kind : {"item_create"}, item : Credits, mode : {"existing"}, source : Sources,
   amount : Amounts, evidence : {NoEvidence}]

Rows == UNION {[S -> Amounts] : S \in SUBSET Items}

Settlements ==
  {r \in [kind : {"item_settlement"}, mode : {"new", "existing"}, source : Sources,
          rows : Rows, excess : Credits \union {NoItem}, evidence : Evidence \union {NoEvidence}] :
     /\ r.rows = <<>> => r.excess # NoItem
     /\ r.mode = "new" => r.evidence # NoEvidence}

Adjustments ==
  [kind : {"item_adjustment"}, item : Items, amount : Amounts, source : References, evidence : Evidence]

Offsets ==
  [kind : {"item_offset"}, credit : Credits, target : Receivables, amount : Amounts,
   evidence : {NoEvidence}]

Requests == Creations \union Settlements \union Adjustments \union Offsets

Treatment(r) ==
  CASE r.kind = "item_create" -> <<r.kind, r.amount>>
    [] r.kind = "item_settlement" /\ r.mode = "new" -> <<r.kind, r.source[1], r.rows, r.excess>>
    [] r.kind = "item_settlement" /\ r.mode = "existing" -> <<"existing_payment", r.source>>
    [] r.kind = "item_adjustment" -> <<r.kind, r.item, r.amount, r.source>>
    [] OTHER -> <<r.kind>>

(* A document that already has a financial effect is refused, unless it names   *)
(* the same treatment and the earlier receipt is replayed (_source_claims), or  *)
(* it supports another batch of the payment it is bound to: the posted one, or  *)
(* the one that its operation posted itself (_settlement_effect).               *)
Claimed(r) == r.evidence \in DOMAIN claims
IsBatch(r) == r.kind = "item_settlement" /\ r.mode = "existing"
PostedBy(q) == IF q.kind = "item_settlement" /\ q.mode = "new" THEN {q.source} ELSE {}
Replays(r) == Claimed(r) /\ ~IsBatch(r) /\ claims[r.evidence].treatment = Treatment(r)
JoinsAny(r) == Claimed(r) /\ IsBatch(r)
Joins(r) == /\ Claimed(r) /\ IsBatch(r)
            /\ \/ claims[r.evidence].treatment = Treatment(r)
               \/ r.source \in PostedBy(receipts[claims[r.evidence].op].request)
Conflicts(r) == Claimed(r) /\ ~Replays(r) /\ ~Joins(r)

NewClaimsForgotten(r, o) == claims
NewClaims(r, o) ==
  IF r.evidence = NoEvidence \/ Claimed(r) THEN claims
  ELSE [e \in DOMAIN claims \union {r.evidence} |->
          IF e = r.evidence THEN [treatment |-> Treatment(r), op |-> o] ELSE claims[e]]

--------------------------------------------------------------------------------
Open(i) == i \in DOMAIN items /\ items[i].status = "open"

(* _remaining reconciles the stored remainder against the allocation history.  *)
Reduces == {"settlement", "credit", "application"}
Reducing(i) == {a \in allocs : a.item = i /\ a.kind \in Reduces}
AllocatedTo(i) == SumFunction([a \in Reducing(i) |-> a.amount])
Reconciled(i) == /\ items[i].remaining = items[i].base - AllocatedTo(i)
                 /\ items[i].remaining >= 0

LoweredStaysOpen(i, n) == [items[i] EXCEPT !.remaining = @ - n]
Lowered(i, n) ==
  [items[i] EXCEPT !.remaining = @ - n,
                   !.status = IF items[i].remaining = n THEN "settled" ELSE "open"]

NewItem(n, mode, source, o) ==
  [original |-> n, base |-> n, remaining |-> n, status |-> "open",
   mode |-> mode, source |-> source, op |-> o]

(* --- _item_effect ----------------------------------------------------------- *)
(* A credit registered on a row that an ordinary confirm posted to deposits may *)
(* not take more than other items of that row and account leave of it.          *)
FromRow(s, a) == {j \in DOMAIN items : items[j].source = s /\ Control(j) = a}
Reserved(s, a) == SumFunction([j \in FromRow(s, a) |-> Sign(j) * items[j].original])

CanCreate(r) ==
  /\ r.item \notin DOMAIN items
  /\ r.mode = "existing" =>
       /\ Nameable(r.source)
       /\ LET s == Sign(r.item)  a == Control(r.item) IN
            s * (Reserved(r.source, a) + s * r.amount) <= s * LiveEntry(r.source)[a]

CreateEffect(r, o) ==
  [items |-> [i \in DOMAIN items \union {r.item} |->
                IF i = r.item THEN NewItem(r.amount, r.mode, r.source, o) ELSE items[i]],
   allocs |-> {},
   entries |-> IF r.mode = "existing" THEN <<>>
               ELSE [e \in {<<"accrual", o>>} |->
                       Plus(Posting(Control(r.item), Sign(r.item) * r.amount),
                            Posting("Sales", -(Sign(r.item) * r.amount)))]]

(* --- _settlement_effect ------------------------------------------------------ *)
RowSum(r) == SumFunction([i \in DOMAIN r.rows |-> Sign(i) * r.rows[i]])

(* Earlier batches of the same payment, found by the spelling of the request;   *)
(* only a receipt leaves a customer's credit (direction).                        *)
EarlierCredits(s) == {a \in allocs : a.kind = "unapplied_receipt" /\ a.source = s}
Earlier(s) == {a \in allocs : a.kind \in {"settlement", "unapplied_receipt"} /\ a.source = s}
Used(s) == SumFunction([a \in Earlier(s) |-> a.signed])

Excess(r) == IF r.excess = NoItem THEN 0 ELSE Gross(r.source[1]) - Used(r.source) - RowSum(r)

ControlPosting(r, a) ==
  (IF r.excess # NoItem /\ Control(r.excess) = a THEN -Excess(r) ELSE 0)
  - SumFunction([i \in {i \in DOMAIN r.rows : Control(i) = a} |-> Sign(i) * r.rows[i]])

(* A staged row must be settled under the spelling it is staged with. *)
StagedAs(s) == \A v \in Variants(s) : v \in pending => v = s

(* The offsets of an existing payment: all on the one control account the       *)
(* request names (it already reduced it), or plain income to reclassify.        *)
Offsetting(s) == {a \in Accounts \ {"Bank", "Fees"} : LiveEntry(s)[a] # 0}
ControlsOf(r) == {Control(i) : i \in DOMAIN r.rows \union ({r.excess} \ {NoItem})}
IsAnyControlPayment(r) == Cardinality(Offsetting(r.source)) = 1
IsControlPayment(r) == Cardinality(Offsetting(r.source)) = 1 /\ ControlsOf(r) = Offsetting(r.source)
IsCashIncome(r) == Cash[r.source[1]] > 0 /\ Offsetting(r.source) \subseteq {"Sales", "Services"}

CanSettle(r) ==
  LET p == r.source[1]  total == RowSum(r)  all == Used(r.source) + total IN
  /\ \A i \in DOMAIN r.rows :
       /\ Open(i) /\ Reconciled(i)
       /\ r.rows[i] <= items[i].remaining
       /\ Sign(i) * Cash[p] > 0
  /\ Abs(all) <= Abs(Gross(p)) /\ all * Gross(p) >= 0
  /\ r.excess # NoItem => Excess(r) # 0 /\ r.excess \notin DOMAIN items /\ Cash[p] > 0
  /\ r.mode = "new" =>
       /\ StagedAs(r.source)
       /\ ~SourceExists(r.source) /\ Earlier(r.source) = {}
       /\ total + Excess(r) = Gross(p)
  /\ r.mode = "existing" => Nameable(r.source) /\ (IsControlPayment(r) \/ IsCashIncome(r))

(* cashview._cumulative: floor each share, the residual on the last line, so    *)
(* that several batches together clear each income line exactly.                *)
Cumulative(n) ==
  LET sales == (Split["Sales"] * n) \div (Split["Sales"] + Split["Services"])
  IN  [Sales |-> sales, Services |-> n - sales]

ReclassPerBatch(r) ==
  LET lines == Offsetting(r.source)
  IN  [a \in Accounts |->
         IF a \in lines THEN IF Cardinality(lines) = 1 THEN RowSum(r) + Excess(r)
                          ELSE Cumulative(RowSum(r) + Excess(r))[a]
         ELSE ControlPosting(r, a)]
Reclass(r) ==
  LET n == Used(r.source)  m == n + RowSum(r) + Excess(r)
      lines == Offsetting(r.source)
      part(a, k) == IF Cardinality(lines) = 1 THEN k ELSE Cumulative(k)[a]
  IN  [a \in Accounts |->
         IF a \in lines THEN part(a, m) - part(a, n) ELSE ControlPosting(r, a)]

SettleEffect(r, o) ==
  LET p == r.source[1]
      changed == [i \in DOMAIN items |-> IF i \in DOMAIN r.rows THEN Lowered(i, r.rows[i]) ELSE items[i]]
  IN [items |-> IF r.excess = NoItem THEN changed
                ELSE [i \in DOMAIN items \union {r.excess} |->
                        IF i = r.excess THEN NewItem(Abs(Excess(r)), r.mode, r.source, o)
                        ELSE changed[i]],
      allocs |-> {[id |-> <<"settlement", o, i>>, kind |-> "settlement", item |-> i,
                   amount |-> r.rows[i], signed |-> Sign(i) * r.rows[i], source |-> r.source] :
                     i \in DOMAIN r.rows}
                 \union
                 (IF r.excess = NoItem THEN {}
                  ELSE {[id |-> <<"unapplied", o, r.excess>>, kind |-> "unapplied_receipt",
                         item |-> r.excess, amount |-> Abs(Excess(r)), signed |-> Excess(r),
                         source |-> r.source]}),
      entries |-> CASE r.mode = "new" ->
                         [e \in {<<"feed", r.source>>} |->
                            [a \in Accounts |-> CASE a = "Bank" -> Cash[p]
                                                  [] a = "Fees" -> Fee[p]
                                                  [] OTHER -> ControlPosting(r, a)]]
                    [] r.mode = "existing" /\ IsControlPayment(r) -> <<>>
                    [] OTHER -> [e \in {<<"reclass", o>>} |-> Reclass(r)]]

(* --- _adjustment_effect and _offset_effect ----------------------------------- *)
CanAdjustTooFar(r) ==
  /\ Open(r.item) /\ Reconciled(r.item)
  /\ \A a \in allocs : a.id # <<"adjustment", r.source>>
CanAdjust(r) ==
  /\ Open(r.item) /\ Reconciled(r.item) /\ r.amount <= items[r.item].remaining
  /\ \A a \in allocs : a.id # <<"adjustment", r.source>>

AdjustEffect(r, o) ==
  [items |-> [items EXCEPT ![r.item] = Lowered(r.item, r.amount)],
   allocs |-> {[id |-> <<"adjustment", r.source>>, kind |-> "credit", item |-> r.item,
                amount |-> r.amount, signed |-> 0, source |-> r.source]},
   entries |-> [e \in {<<"adjustment", o>>} |->
                  Plus(Posting(Control(r.item), -(Sign(r.item) * r.amount)),
                       Posting("Allowances", Sign(r.item) * r.amount))]]

CanOffset(r) ==
  \A i \in {r.credit, r.target} : Open(i) /\ Reconciled(i) /\ r.amount <= items[i].remaining

OffsetEffect(r, o) ==
  [items |-> [items EXCEPT ![r.credit] = Lowered(r.credit, r.amount),
                           ![r.target] = Lowered(r.target, r.amount)],
   allocs |-> {[id |-> <<"application", o, i>>, kind |-> "application", item |-> i,
                amount |-> r.amount, signed |-> 0, source |-> o] : i \in {r.credit, r.target}},
   entries |-> [e \in {<<"offset", o>>} |->
                  Plus(Posting("Receivable", -r.amount), Posting("Deposits", r.amount))]]

--------------------------------------------------------------------------------
Possible(r) ==
  /\ ~Conflicts(r)
  /\ CASE r.kind = "item_create" -> CanCreate(r)
       [] r.kind = "item_settlement" -> CanSettle(r)
       [] r.kind = "item_adjustment" -> CanAdjust(r)
       [] r.kind = "item_offset" -> CanOffset(r)

Effect(r, o) ==
  CASE r.kind = "item_create" -> CreateEffect(r, o)
    [] r.kind = "item_settlement" -> SettleEffect(r, o)
    [] r.kind = "item_adjustment" -> AdjustEffect(r, o)
    [] r.kind = "item_offset" -> OffsetEffect(r, o)

(* The ledger only grows, so its content digest is the set of its identities.   *)
Digest == <<DOMAIN ledger, DOMAIN receipts>>

(* The cleanup behind a settlement; the caller still holds the write lock.      *)
StartNoCleanup(r) == job' = IF r.kind = "item_settlement" THEN NoJob ELSE job
StartCleanup(r) ==
  job' = IF r.kind = "item_settlement" THEN [source |-> r.source, step |-> "queue"] ELSE NoJob

(* _preview_operation.  A request whose document already has this treatment      *)
(* previews as a replay; one whose operation id is taken is shown its receipt.  *)
Preview(r, o) ==
  /\ job = NoJob /\ held = NoPlan
  /\ o \notin DOMAIN receipts
  /\ Replays(r) \/ Possible(r)
  /\ held' = [op |-> o, request |-> r, digest |-> Digest]
  /\ UNCHANGED <<books, pending, queueItem, job, crashes>>

(* _apply with _apply_operation: a preview is applied only to the ledger it was *)
(* compiled from, and everything it does is one transaction with its receipt.   *)
Fresh(plan) == plan.digest = Digest

Commit(r, o) ==
  /\ LET f == Effect(r, o) IN
       /\ DOMAIN f.entries \intersect DOMAIN ledger = {}              \* _check_entries
       /\ items' = f.items
       /\ allocs' = allocs \union f.allocs
       /\ ledger' = [e \in DOMAIN ledger \union DOMAIN f.entries |->
                       IF e \in DOMAIN f.entries THEN f.entries[e] ELSE ledger[e]]
       /\ claims' = NewClaims(r, o)
       /\ receipts' = [x \in DOMAIN receipts \union {o} |->
                         IF x = o THEN [request |-> r, owner |-> o] ELSE receipts[x]]
  /\ StartCleanup(r)

(* An alias receipt adds no financial effect: it repeats the owner's receipt.   *)
CommitAlias(r, o) ==
  /\ receipts' = [x \in DOMAIN receipts \union {o} |->
                    IF x = o THEN [request |-> r, owner |-> claims[r.evidence].op] ELSE receipts[x]]
  /\ UNCHANGED <<items, allocs, ledger, claims>>
  /\ StartCleanup(r)

Apply ==
  /\ job = NoJob /\ held # NoPlan
  /\ held.op \notin DOMAIN receipts
  /\ Fresh(held)
  /\ IF Replays(held.request) THEN CommitAlias(held.request, held.op)
     ELSE Commit(held.request, held.op)
  /\ held' = NoPlan
  /\ UNCHANGED <<pending, queueItem, crashes>>

(* A stale preview is refused; its caller has to review a fresh one.             *)
Refuse ==
  /\ job = NoJob /\ held # NoPlan
  /\ ~Fresh(held) \/ held.op \in DOMAIN receipts
  /\ held' = NoPlan
  /\ UNCHANGED <<books, pending, queueItem, job, crashes>>

(* Another caller previews and applies at once, under the lock.                 *)
ApplyNow(r, o) ==
  /\ job = NoJob
  /\ o \notin DOMAIN receipts
  /\ \/ Replays(r) /\ CommitAlias(r, o)
     \/ ~Replays(r) /\ Possible(r) /\ Commit(r, o)
  /\ UNCHANGED <<held, pending, queueItem, crashes>>

(* The same operation again: the committed receipt is returned, nothing is      *)
(* written, and a settlement repeats its cleanup.                               *)
Retry(o) ==
  /\ job = NoJob /\ o \in DOMAIN receipts
  /\ receipts[o].request.kind = "item_settlement"
  /\ receipts[o].request.source \in pending \/ queueItem[receipts[o].request.source[1]] = "single"
  /\ StartCleanup(receipts[o].request)
  /\ UNCHANGED <<books, held, pending, queueItem, crashes>>

--------------------------------------------------------------------------------
(* _complete_linked_source_review: confirm the actionable queue item of the     *)
(* source, mark it seen, and take it out of the pending file.  A grouped        *)
(* proposal stops the command behind its commit.                                *)
CleanQueue ==
  /\ job # NoJob /\ job.step = "queue"
  /\ IF queueItem[job.source[1]] = "grouped"
     THEN job' = NoJob /\ UNCHANGED queueItem
     ELSE /\ job' = [job EXCEPT !.step = "pending"]
          /\ queueItem' = IF queueItem[job.source[1]] = "single"
                          THEN [queueItem EXCEPT ![job.source[1]] = "confirmed"] ELSE queueItem
  /\ UNCHANGED <<books, held, pending, crashes>>

CleanPending ==
  /\ job # NoJob /\ job.step = "pending"
  /\ pending' = pending \ {job.source}
  /\ job' = NoJob
  /\ UNCHANGED <<books, held, queueItem, crashes>>

Crash ==
  /\ crashes < MaxCrashes /\ job # NoJob
  /\ job' = NoJob /\ crashes' = crashes + 1
  /\ UNCHANGED <<books, held, pending, queueItem>>

(* The reviewer resolves a grouped proposal.                                    *)
ResolveGroup(p) ==
  /\ job = NoJob /\ queueItem[p] = "grouped"
  /\ queueItem' = [queueItem EXCEPT ![p] = "single"]
  /\ UNCHANGED <<books, held, pending, job, crashes>>

(* An ordinary confirm posts a pending row, unless the ledger knows it under    *)
(* any spelling, and takes it out of the file (PostingWorkflow has the detail). *)
FeedEntry(p, t) ==
  [a \in Accounts |->
     CASE a = "Bank" -> Cash[p]
       [] a = "Fees" -> Fee[p]
       [] t = "income" /\ a \in {"Sales", "Services"} -> -Cumulative(Gross(p))[a]
       [] t # "income" /\ a = t -> -Gross(p)
       [] OTHER -> 0]

ConfirmRow(s, t) ==
  /\ job = NoJob /\ s \in pending /\ queueItem[s[1]] # "grouped"
  /\ pending' = pending \ {s}
  /\ queueItem' = [queueItem EXCEPT ![s[1]] = IF @ = "single" THEN "confirmed" ELSE @]
  /\ ledger' = IF SourceExists(s) THEN ledger
               ELSE [e \in DOMAIN ledger \union {<<"feed", s>>} |->
                       IF e = <<"feed", s>> THEN FeedEntry(s[1], t) ELSE ledger[e]]
  /\ UNCHANGED <<items, allocs, claims, receipts, held, job, crashes>>

--------------------------------------------------------------------------------
Init ==
  /\ items = <<>> /\ allocs = {} /\ ledger = <<>> /\ claims = <<>> /\ receipts = <<>>
  /\ held = NoPlan /\ job = NoJob /\ crashes = 0
  /\ pending \in {S \in SUBSET Sources : \A s, v \in S : s[1] = v[1] => s = v}
  /\ queueItem \in [Payments -> {"none", "single", "grouped"}]
  /\ \A p \in Payments :
       /\ (queueItem[p] # "none") <=> (\E s \in pending : s[1] = p)
       /\ queueItem[p] = "grouped" => p \in Lenient

Next ==
  \/ \E o \in Ops, r \in Requests : Preview(r, o) \/ ApplyNow(r, o)
  \/ \E o \in Ops : Retry(o)
  \/ Apply \/ Refuse
  \/ CleanQueue \/ CleanPending \/ Crash
  \/ \E p \in Payments : ResolveGroup(p)
  \/ \E s \in Sources, t \in FeedTreatments : ConfirmRow(s, t)

Spec == Init /\ [][Next]_vars

(* The command in progress keeps running, and the caller of a settlement that  *)
(* was stopped repeats it, as the command asks.                                *)
FairSpec ==
  /\ Spec
  /\ WF_vars(CleanQueue) /\ WF_vars(CleanPending)
  /\ \A o \in Ops : WF_vars(Retry(o))
  /\ \A p \in Payments : SF_vars(ResolveGroup(p))
--------------------------------------------------------------------------------
(* PROPERTIES *)

(* Every record stays inside its type. *)
TypeOK ==
  /\ DOMAIN items \subseteq Items /\ DOMAIN claims \subseteq Evidence /\ DOMAIN receipts \subseteq Ops
  /\ \A i \in DOMAIN items :
       /\ items[i].remaining \in 0..items[i].base
       /\ items[i].status \in {"open", "settled"}
  /\ \A o \in DOMAIN receipts : receipts[o].request \in Requests /\ receipts[o].owner \in Ops
  /\ pending \subseteq Sources
  /\ held # NoPlan => held.request \in Requests

(* The stored remainder of every item is its base less its allocation history  *)
(* and the item is closed exactly when nothing remains: no interleaving of      *)
(* previews leaves an item that _remaining would refuse for ever.               *)
ItemsReconcile ==
  \A i \in DOMAIN items : /\ Reconciled(i)
                          /\ items[i].status = "settled" <=> items[i].remaining = 0

(* The balance of each control account is the open items on it and the part of  *)
(* ordinary postings that no item and no allocation explains: what the records  *)
(* say is outstanding and what the ledger says never part.                      *)
Balance(a) == SumFunction([e \in DOMAIN ledger |-> ledger[e][a]])
BookedBySettlement(s) ==
  \E o \in DOMAIN receipts : LET r == receipts[o].request IN
     r.kind = "item_settlement" /\ r.mode = "new" /\ r.source = s
Registered(s, a) == {i \in FromRow(s, a) : receipts[items[i].op].request.kind = "item_create"}
Ordinary(a) ==
  {e \in DOMAIN ledger : e[1] = "feed" /\ ledger[e][a] # 0 /\ ~BookedBySettlement(e[2])}
Unexplained(a) ==
  SumFunction([e \in Ordinary(a) |->
    ledger[e][a] + Used(e[2])
    - SumFunction([i \in Registered(e[2], a) |-> Sign(i) * items[i].original])])
Outstanding(a) ==
  SumFunction([i \in {i \in DOMAIN items : Control(i) = a} |-> Sign(i) * items[i].remaining])
ControlsExplained ==
  \A a \in {"Receivable", "Deposits"} : Balance(a) = Outstanding(a) + Unexplained(a)

(* However many batches, callers and spellings allocate a bank movement, they   *)
(* never allocate more than its cash and fee, nor against its direction.        *)
AllocatedFrom(p) ==
  SumFunction([a \in {a \in allocs : a.kind \in {"settlement", "unapplied_receipt"} /\ a.source[1] = p}
                 |-> a.signed])
PaymentNotOverAllocated ==
  \A p \in Payments : /\ Abs(AllocatedFrom(p)) <= Abs(Gross(p))
                      /\ AllocatedFrom(p) * Gross(p) >= 0

(* An open item is what its invoice and its allocations leave, the balance of    *)
(* its control account is explained by items and credits, and no item and no     *)
(* bank movement is overdrawn.                                                   *)
ItemsMatchBooks ==
  TypeOK /\ ItemsReconcile /\ ControlsExplained /\ PaymentNotOverAllocated

(* The cash of a bank movement is recorded once, whether an ordinary confirm or *)
(* a settlement gets there first, and under whichever spelling.                 *)
CashPostedOnce ==
  \A p \in Payments : Cardinality({e \in DOMAIN ledger : e[1] = "feed" /\ e[2][1] = p}) <= 1

(* A supporting document has one financial effect: operations that cite the     *)
(* same one carry the receipt of the same operation, or are settlements of one  *)
(* bank movement, batches of it after the first.                                *)
SharePayment(r, q) ==
  /\ r.kind = "item_settlement" /\ q.kind = "item_settlement" /\ r.source[1] = q.source[1]
  /\ IsBatch(r) \/ IsBatch(q)
EvidencePaysOnce ==
  \A o, x \in DOMAIN receipts :
    LET r == receipts[o].request  q == receipts[x].request IN
      r.evidence # NoEvidence /\ r.evidence = q.evidence =>
        receipts[o].owner = receipts[x].owner \/ SharePayment(r, q)

(* When batches have reclassified a whole cash-income payment, nothing of it is *)
(* left on any income line: the rounding of the batches loses no cent.          *)
ReclassifiedExactly ==
  \A p \in Payments : AllocatedFrom(p) = Gross(p) =>
    \A a \in {"Sales", "Services"} :
      SumFunction([e \in {e \in DOMAIN ledger :
                            \/ e[1] = "feed" /\ e[2][1] = p
                            \/ e[1] = "reclass" /\ receipts[e[2]].request.source[1] = p} |-> ledger[e][a]]) = 0

(* A row that a settlement has booked leaves the review queue, although the     *)
(* command may stop between the commit and the cleanup.                         *)
SettledLeavesReview ==
  \A s \in Sources :
    (\E o \in DOMAIN receipts : receipts[o].request.kind = "item_settlement" /\ receipts[o].request.source = s)
      ~> s \notin pending
================================================================================
