---------------------------- MODULE OpeningCutover ----------------------------
(* Opening accrual books: a balanced position carried in at a cutover date,      *)
(* from QuickBooks reports, from a list of lines, or, in a company that turned   *)
(* accrual on later, from what is still open (accrual/migration.py, opening.py). *)
(* Every control balance needs supporting rows with documents.  A person previews *)
(* and applies the preview later; files, configuration and books may change in   *)
(* between, and the answer may be lost.  Amounts are cents, debit positive; days *)
(* are numbers.  Parsing of files, names and evidence ids is left out.          *)
EXTENDS Integers, FiniteSets, FiniteSetsExt, Functions

CONSTANTS
  Requests,            \* what may be asked: [from, lines, reports, rows, files, closed]
  RootOf, Money,       \* accounts with their roots; those that hold money
  Starter,             \* accounts an accrual company starts with
  Tracking,            \* whether the company turned accrual on later
  Cutover, FiscalStart,
  Earned,              \* by day of the fiscal year before the cutover, what was earned
  Balancing,           \* the equity account that balances a derived opening
  MaxPlans, MaxChanges \* previews, and changes by others

VARIABLES entries, opens, coverage, items, evidence, files, config, closed, plans, changes

vars == <<entries, opens, coverage, items, evidence, files, config, closed, plans, changes>>

Accounts  == DOMAIN RootOf
Files     == UNION {q.files : q \in Requests}
Nominal   == {a \in Accounts : RootOf[a] \in {"Income", "Expenses"}}
Control   == {a \in Accounts \ Money : RootOf[a] \in {"Assets", "Liabilities"}}
AsOf      == IF Tracking THEN Cutover ELSE Cutover - 1
Added(S, f(_)) == FoldSet(LAMBDA x, n : f(x) + n, 0, S)
Sum(post) == Added(DOMAIN post, LAMBDA a : post[a])
At(post, a) == IF a \in DOMAIN post THEN post[a] ELSE 0
-----------------------------------------------------------------------------
(* Supporting rows *)

Recognizable(row) == row.amount - row.recognized = row.remaining
Valid(row) ==
  /\ row.account \in Control \union Money /\ (row.in # "external" => row.remaining >= 0)
  /\ row.in = "items" => row.amount >= row.remaining
                         /\ (row.kind = "receivable" => RootOf[row.account] = "Assets")
                         /\ (row.kind = "payable" => RootOf[row.account] = "Liabilities")
  /\ row.in = "schedules" =>
       /\ RootOf[row.account] = (IF row.kind = "deferred" THEN "Liabilities" ELSE "Assets")
       /\ row.recognized >= 0 /\ Recognizable(row) /\ row.end >= Cutover
       /\ row.kind = "depreciation" => row.contra # row.account /\ RootOf[row.contra] = "Assets"

\* The balance of an account that a row stands for.  A fixed asset is carried at
\* cost, and what was written off it on its contra account.
Carries(row, a) ==
  CASE row.kind = "depreciation" /\ row.contra = a -> -row.recognized
    [] row.account # a -> 0
    [] row.kind = "depreciation" -> row.amount
    [] row.kind = "credit" /\ row.direction = "credit" -> -row.remaining
    [] row.kind \in {"payable", "deferred"} -> -row.remaining
    [] row.kind = "accrual" /\ RootOf[a] = "Liabilities" -> -row.remaining
    [] OTHER -> row.remaining
Supported(rows, a) == Added(rows, LAMBDA row : Carries(row, a))
Touched(rows) == {row.account : row \in rows} \union {row.contra : row \in {x \in rows : x.kind = "depreciation"}}

\* The lines of a derived opening: what the rows carry, and one line to balance it.
Derived(rows) ==
  LET carried == [a \in {x \in Touched(rows) : Supported(rows, x) # 0} |-> Supported(rows, a)]
  IN IF Sum(carried) = 0 THEN carried
     ELSE [a \in DOMAIN carried \union {Balancing} |-> IF a = Balancing THEN -Sum(carried) ELSE carried[a]]
-----------------------------------------------------------------------------
(* Reports: a trial balance, a balance sheet and the profit and loss of the year *)

\* Mutant: the profit and loss is not compared.
TiesBalanceSheet(r, yearEnded) ==
  /\ Sum(r.tb) = 0
  /\ \A a \in Accounts \ Nominal : At(r.bs, a) = At(r.tb, a)
  /\ r.earnings = -Added(Nominal, LAMBDA a : At(r.tb, a))
Ties(r, yearEnded) ==
  /\ Sum(r.tb) = 0
  /\ \A a \in Nominal : IF yearEnded THEN At(r.tb, a) = 0 ELSE At(r.pnl, a) = At(r.tb, a)
  /\ yearEnded => Sum(r.pnl) = -r.net
  /\ \A a \in Accounts \ Nominal : At(r.bs, a) = At(r.tb, a)
  /\ r.earnings = -Added(Nominal, LAMBDA a : At(r.tb, a))

\* What is to be carried, if the request can be answered at all.
Balances(q) ==
  CASE q.from = "reports" -> q.reports.tb [] q.from = "rows" -> Derived(q.rows) [] OTHER -> q.lines
Acceptable(q) ==
  /\ Tracking <=> q.from = "rows"
  /\ q.from = "reports" => Ties(q.reports, q.closed)
  /\ q.from # "reports" => q.closed /\ DOMAIN Balances(q) # {} /\ Sum(Balances(q)) = 0 /\ DOMAIN Balances(q) \cap Nominal = {}
  /\ \A row \in q.rows : Valid(row) /\ Touched({row}) \subseteq DOMAIN Balances(q)

\* Control balances that the rows do not make up exactly, and rows beyond a balance.
Differences(q) ==
  {a \in DOMAIN Balances(q) :
     (a \in Control \/ a \in Touched(q.rows)) /\ Supported(q.rows, a) # Balances(q)[a]}
-----------------------------------------------------------------------------
(* Preview and apply *)

Missing == IF Tracking THEN Starter \ DOMAIN opens ELSE {}
Used(q) == DOMAIN Balances(q) \union Touched(q.rows) \union Missing
Chart(q) == [a \in Used(q) |-> IF a \in DOMAIN opens THEN Min({AsOf, opens[a]}) ELSE AsOf]
Facts(q) ==
  [balances |-> Balances(q), rows |-> q.rows, closed |-> q.closed, chart |-> Chart(q),
   documents |-> [f \in q.files |-> files[f]],
   mapping |-> IF q.from = "reports" THEN config ELSE DOMAIN opens \union Used(q)]
Digest == <<entries, opens, coverage, items, evidence>>

Carried  == coverage # {}
Empty    == entries = {}
Answered(q) ==
  /\ Acceptable(q)
  /\ IF Carried THEN coverage = {Facts(q)} ELSE Tracking \/ Empty
PlanOf(q) ==
  [request |-> q, facts |-> Facts(q), config |-> config, digest |-> Digest,
   ready |-> Differences(q) = {}, replayed |-> Carried]

Preview(q) ==
  /\ Answered(q) /\ Cardinality(plans) < MaxPlans
  /\ (Differences(q) = {} /\ ~Carried) => AsOf \notin closed
  /\ plans' = plans \union {PlanOf(q)}
  /\ UNCHANGED <<entries, opens, coverage, items, evidence, files, config, closed, changes>>

\* The preview is taken again; whatever it shows must be what was reviewed.
\* Mutant: differences show in the preview alone.
StaysUnreviewed(p, fresh) == fresh.facts = p.facts /\ fresh.config = p.config
Reviewed(p, fresh) == fresh.facts = p.facts /\ fresh.config = p.config /\ fresh.ready

Post(p) ==
  /\ PlanOf(p.request).digest = p.digest /\ AsOf \notin closed
  /\ entries' = entries \union {[what |-> "opening", day |-> AsOf, post |-> p.facts.balances]}
  /\ opens' = [a \in DOMAIN opens \union DOMAIN p.facts.chart |->
                 IF a \in DOMAIN p.facts.chart THEN p.facts.chart[a] ELSE opens[a]]
  /\ coverage' = {p.facts}
  /\ items' = {[row |-> row, left |-> row.remaining] : row \in p.request.rows}
  /\ evidence' = evidence \union {<<f, p.facts.documents[f]>> : f \in {row.file : row \in p.request.rows}}

\* Applying it again answers with the receipt, and writes nothing.
Apply(p) ==
  /\ Answered(p.request) /\ Reviewed(p, PlanOf(p.request))
  /\ IF Carried THEN UNCHANGED <<entries, opens, coverage, items, evidence>> ELSE Post(p)
  /\ UNCHANGED <<files, config, closed, plans, changes>>
-----------------------------------------------------------------------------
(* What goes on around it *)

Changed == changes < MaxChanges /\ changes' = changes + 1
EditFile(f) ==
  /\ Changed /\ files' = [files EXCEPT ![f] = @ + 1]
  /\ UNCHANGED <<entries, opens, coverage, items, evidence, config, closed, plans>>
Configure ==
  /\ Changed /\ config' = config + 1
  /\ UNCHANGED <<entries, opens, coverage, items, evidence, files, closed, plans>>
CloseDay(d) ==
  /\ Changed /\ closed' = closed \union {d} /\ config' = config + 1
  /\ UNCHANGED <<entries, opens, coverage, items, evidence, files, plans>>
OpenAccount(a) ==
  /\ Changed /\ a \notin DOMAIN opens
  /\ opens' = [x \in DOMAIN opens \union {a} |-> IF x = a THEN Cutover ELSE opens[x]]
  /\ UNCHANGED <<entries, coverage, items, evidence, files, config, closed, plans>>
\* Cash books and cash entries; nothing is dated before the cutover of an opening.
Earn(d, a, m) ==
  /\ Changed /\ d \notin closed /\ (Carried /\ ~Tracking => d >= Cutover)
  /\ entries' = entries \union {[what |-> "cash", day |-> d, post |-> [x \in {a, m} |-> IF x = m THEN 1 ELSE -1]]}
  /\ UNCHANGED <<opens, coverage, items, evidence, files, config, closed, plans>>
\* A carried invoice or bill is paid, or an installment recognized: later, and in part.
Lessen(i, against) ==
  LET sign == IF Carries(i.row, i.row.account) < 0 THEN 1 ELSE -1 IN
  /\ Changed /\ i.left > 0 /\ i.row.kind # "depreciation" /\ i.row.in # "external"
  /\ against \in (IF i.row.in = "items" THEN Money ELSE Nominal)
  /\ items' = (items \ {i}) \union {[i EXCEPT !.left = @ - 1]}
  /\ entries' = entries \union {[what |-> <<i.row.id, i.left>>, day |-> Cutover + 1,
                                 post |-> [x \in {i.row.account, against} |-> IF x = against THEN -sign ELSE sign]]}
  /\ UNCHANGED <<opens, coverage, evidence, files, config, closed, plans>>

Init ==
  /\ entries = {} /\ opens = [a \in Money |-> FiscalStart] /\ coverage = {} /\ items = {} /\ evidence = {}
  /\ files = [f \in Files |-> 0] /\ config = 0 /\ closed = {} /\ plans = {} /\ changes = 0

Days == FiscalStart - 1..Cutover + 1
Next ==
  \/ \E q \in Requests : Preview(q)
  \/ \E p \in plans : Apply(p)
  \/ \E f \in Files : EditFile(f)
  \/ Configure \/ CloseDay(AsOf)
  \/ \E a \in Accounts : OpenAccount(a)
  \/ \E d \in Days, a \in Nominal, m \in Money : Earn(d, a, m)
  \/ \E i \in items, x \in Money \union Nominal : Lessen(i, x)

Spec == Init /\ [][Next]_vars
-----------------------------------------------------------------------------
(* Reports.  A range before the cutover is answered only when it begins with the *)
(* carried year and holds all of it.                                            *)
YearCarried == \E c \in coverage : ~c.closed
\* Mutant: a range may begin with the day the opening is dated.
CoversFromOpening(from, to) ==
  (Carried /\ ~Tracking) => to >= AsOf /\ (from < AsOf => YearCarried /\ from = FiscalStart)
Covers(from, to) ==
  (Carried /\ ~Tracking) => to >= AsOf /\ (from < Cutover => YearCarried /\ from = FiscalStart)
Shown(from, to) ==
  -Added({e \in entries : e.day \in from..to}, LAMBDA e : Added(DOMAIN e.post \cap Nominal, LAMBDA a : e.post[a]))
Booked(from, to) ==
  -Added({e \in entries : e.day \in from..to /\ e.what # "opening"},
         LAMBDA e : Added(DOMAIN e.post \cap Nominal, LAMBDA a : e.post[a]))

(* Control accounts hold exactly what the open items, schedules and documents    *)
(* say, from the opening on; it was posted once, with documents as reviewed.     *)
Left(i, a) == Carries([i.row EXCEPT !.remaining = i.left], a)
Balance(a) == Added(entries, LAMBDA e : At(e.post, a))
OpeningIsSupported ==
  /\ Cardinality({e \in entries : e.what = "opening"}) <= 1
  /\ Carried <=> \E e \in entries : e.what = "opening"
  /\ \A e \in entries : Sum(e.post) = 0
  /\ \A a \in Control : Balance(a) = Added(items, LAMBDA i : Left(i, a))
  /\ \A c \in coverage : \A row \in c.rows : <<row.file, c.documents[row.file]>> \in evidence

(* A profit and loss that is answered shows what was earned in its range.        *)
PeriodsAreWhole ==
  \A from, to \in Days : (Carried /\ from <= to /\ Covers(from, to)) =>
    Shown(from, to) = Booked(from, to)
      + (IF ~YearCarried THEN 0 ELSE Added({d \in DOMAIN Earned : d \in from..to}, LAMBDA d : Earned[d]))

OpeningCarriesOver == OpeningIsSupported /\ PeriodsAreWhole
=============================================================================
