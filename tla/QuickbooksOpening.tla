-------------------------- MODULE QuickbooksOpening --------------------------
(* Opening balances from QuickBooks.  A snapshot is saved as evidence under its *)
(* digest; qb sync-opening saves it, shows the opening entry, decides from the  *)
(* ledger whether it may be posted, and only then takes the entity lock, under  *)
(* which it asks about the currency again and about nothing else.  qb           *)
(* import-opening posts from a folder of report files, and qb repair-opening    *)
(* replaces openings of an older version that carried income and expenses.  A   *)
(* repair lists what it will reverse before its transaction.  The company keeps *)
(* its books on the cash basis.                                                 *)
EXTENDS Integers, Sequences, FiniteSets, FiniteSetsExt, SequencesExt

CONSTANTS Snapshots,   \* saved answers of the QuickBooks API
          Files,       \* folders of exported reports
          Cutovers,    \* days a person names
          Accounts, Periodic,  \* all accounts; those of income and expense
          Legacy,      \* ledgers that an older version may have left
          Rows, RowDays,       \* bank rows and their days
          Currencies, Home,    \* the company keeps its books in Home at first
          MaxEntries,
          None

VARIABLES entries,   \* posted entries, in the order of their ids
          company,   \* the company currency and whether a person set it
          evidence,  \* the manifest saved for each snapshot
          cmd,       \* a sync between its decision and the lock, or a repair
                     \* between its list and its transaction
          answer     \* what the command that ended last reported
vars == <<entries, company, evidence, cmd, answer>>

BalanceKinds == {"trial-balance", "balance-sheet"}
\* Reports are read in the order of their file names.
KeyOrder == <<"BalanceSheet", "GeneralLedger", "OpeningBalanceSheet", "OpeningTrialBalance",
              "ProfitAndLoss", "TrialBalance">>
OpeningKeys == {"OpeningBalanceSheet", "OpeningTrialBalance"}
KindOf(key) == CASE key \in {"BalanceSheet", "OpeningBalanceSheet"} -> "balance-sheet"
                 [] key \in {"TrialBalance", "OpeningTrialBalance"} -> "trial-balance"
                 [] OTHER -> "ranged"
--------------------------------------------------------------------------------
(* REPORTS *)

\* What the importer makes of one report of a snapshot.
ReportReady(s, key) ==
  LET r == s.reports[key]
  IN /\ r.sound /\ r.cash = s.cash /\ r.currency = s.currency
     /\ r.end = IF key \in OpeningKeys THEN s.from - 1 ELSE s.to
     /\ KindOf(key) = "ranged" => r.start = s.from
Reference(s) ==
  LET ready == SelectSeq(KeyOrder, LAMBDA key : key \in DOMAIN s.reports /\ ReportReady(s, key))
  IN [chart |-> s.chart,
      reports |-> [n \in DOMAIN ready |-> [s.reports[ready[n]] EXCEPT !.kind = KindOf(ready[n])]]]

OfKind(folder, kind) == SelectSeq(folder.reports, LAMBDA r : r.kind = kind)
Ending(reports, d) == SelectSeq(reports, LAMBDA r : r.end = d)
FirstOf(reports) == IF reports = <<>> THEN None ELSE Head(reports)
Ends(reports) == {r.end : r \in ToSet(reports)}
LatestEnd(reports) == FirstOf(Ending(reports, Max(Ends(reports))))
EarliestEnd(reports) == FirstOf(Ending(reports, Min(Ends(reports))))

\* A slot of the inventory is present when nothing blocks its report.
Present(r) == r # None /\ r.sound /\ r.cash

\* With a cutover, the report that ends the day before it or none.
CutoverSlot(folder, kind, cutover) ==
  LET exact == Ending(OfKind(folder, kind), cutover - 1)
  IN IF exact # <<>> /\ Present(Head(exact)) THEN Head(exact) ELSE None

\* Without one the day is taken from the reports that cover a period.
PriorEnd(folder) ==
  LET ranged == OfKind(folder, "ranged")
  IN IF ranged = <<>> THEN None
     ELSE Max({r.start : r \in {x \in ToSet(ranged) : x.end = Max(Ends(ranged))}}) - 1

\* MUTANT: the newest report, whatever period the others cover.
NewestTrialBalance(folder) ==
  LET all == OfKind(folder, "trial-balance") IN IF all = <<>> THEN None ELSE LatestEnd(all)

InferredTrialBalance(folder) ==
  LET all == OfKind(folder, "trial-balance")
      prior == PriorEnd(folder)
      before == IF prior = None THEN <<>> ELSE SelectSeq(all, LAMBDA r : r.end <= prior)
  IN IF all = <<>> THEN None
     ELSE IF before = <<>> THEN LatestEnd(all)
     ELSE LatestEnd(before)
InferredBalanceSheet(folder) ==
  LET all == OfKind(folder, "balance-sheet")
      prior == PriorEnd(folder)
  IN IF all = <<>> THEN None
     ELSE IF prior # None /\ Ending(all, prior) # <<>> THEN Head(Ending(all, prior))
     ELSE EarliestEnd(all)
InferredSlot(folder, kind) ==
  LET r == IF kind = "trial-balance" THEN InferredTrialBalance(folder) ELSE InferredBalanceSheet(folder)
  IN IF Present(r) THEN r ELSE None
--------------------------------------------------------------------------------
(* THE OPENING ENTRY *)

Zero == [a \in Accounts |-> 0]
Plus(f, g) == [a \in Accounts |-> f[a] + g[a]]
Minus(f) == [a \in Accounts |-> -f[a]]

\* Assets and liabilities; the rest is in the offset to opening equity.
Carried(r) == [a \in Accounts |-> IF a \in Periodic THEN 0 ELSE r.lines[a]]

\* The rows to look up in the chart; a balance sheet has none of income and expense.
RowsOf(r) == {a \in Accounts : r.lines[a] # 0 /\ (r.kind = "balance-sheet" => a \notin Periodic)}
Charted(r, folder) == folder.chart # {} /\ RowsOf(r) \subseteq folder.chart

\* The lines of the opening a folder gives, or None when it is refused.
Opening(folder, kind) ==
  LET r == InferredSlot(folder, kind)
  IN IF r = None \/ ~Charted(r, folder) \/ Carried(r) = Zero THEN None ELSE Carried(r)

OpeningId(kind, cutover) == <<kind, cutover>>
Entry(id, day, lines, currency, qb) ==
  [id |-> id, reverses |-> None, day |-> day, lines |-> lines, currency |-> currency, qb |-> qb]
--------------------------------------------------------------------------------
(* THE LEDGER *)

Index == DOMAIN entries
Ids == {entries[k].id : k \in Index} \ {None}
ReversedIds == {entries[k].reverses : k \in Index} \ {None}
Room(n) == Len(entries) + n <= MaxEntries

\* A reversal negates its original on the same day and keeps its other metadata.
Reversal(e) == [e EXCEPT !.id = None, !.reverses = e.id, !.lines = Minus(@)]
WithId(id) == entries[CHOOSE k \in Index : entries[k].id = id]

\* MUTANT: a reversal of an opening is no opening.
ActiveById == {k \in Index : entries[k].qb /\ entries[k].id \in Ids \ ReversedIds}

\* The reversal of an opening has no id of its own and counts as active.
Active == {k \in Index : entries[k].qb /\ entries[k].id \notin ReversedIds}

\* MUTANT: an entry of the cutover day does not overlap.
OverlapsBefore(cutover) == \E k \in Index : entries[k].day < cutover /\ entries[k].id \notin ReversedIds

Overlaps(cutover) == \E k \in Index : entries[k].day <= cutover /\ entries[k].id \notin ReversedIds

Sum(S) == FoldSet(LAMBDA k, total : Plus(entries[k].lines, total), Zero, S)

\* MUTANT: an opening that was reversed is listed again.
EveryInvalid(cutover) ==
  {entries[k].id : k \in {j \in Index : /\ entries[j].qb /\ entries[j].day = cutover /\ entries[j].id # None
                                        /\ \E a \in Periodic : entries[j].lines[a] # 0}}

InvalidOpenings(cutover) ==
  {entries[k].id : k \in {j \in Index : /\ entries[j].qb /\ entries[j].day = cutover
                                        /\ entries[j].id \in Ids \ ReversedIds
                                        /\ \E a \in Periodic : entries[j].lines[a] # 0}}
--------------------------------------------------------------------------------
(* CURRENCY AND EVIDENCE *)

MayAdopt == ~company.set /\ entries = <<>>
Book(s) == IF ~s.multi /\ s.currency # company.currency /\ MayAdopt THEN s.currency ELSE company.currency
\* The warning that a refused currency leaves names the company currency and why.
Refusal(s) ==
  IF s.multi \/ s.currency = company.currency \/ MayAdopt THEN None ELSE <<company.currency, company.set>>

Supported(s) == s.cash /\ s.currency = Book(s) /\ ~s.multi
Consistent(s) ==
  LET folder == Reference(s)
      both == \A kind \in BalanceKinds : CutoverSlot(folder, kind, s.from) # None
      lines == Opening(folder, "trial-balance")
  IN both => lines # None /\ lines = Opening(folder, "balance-sheet")
OpeningReady(s) ==
  Supported(s) /\ Consistent(s) /\ \E kind \in BalanceKinds : CutoverSlot(Reference(s), kind, s.from) # None

Manifest(s) == [book |-> Book(s), refusal |-> Refusal(s), ready |-> OpeningReady(s)]
\* Saved once; the same snapshot again must give the same manifest.
MaySave(s) == evidence[s] \in {None, Manifest(s)}
Saved(s) == [evidence EXCEPT ![s] = Manifest(s)]
--------------------------------------------------------------------------------
(* COMMANDS *)

Init ==
  /\ entries \in Legacy
  /\ company = [currency |-> Home, set |-> FALSE]
  /\ evidence = [s \in Snapshots |-> None]
  /\ cmd = None /\ answer = None

\* An answer is fresh when the ledger is still the one the command decided on.
Report(kind, subject, seen, wrote) ==
  [kind |-> kind, subject |-> subject, fresh |-> seen = Len(entries), wrote |-> wrote]

SyncImport(s) ==
  /\ evidence[s] = None
  /\ evidence' = Saved(s) /\ answer' = None
  /\ UNCHANGED <<entries, company, cmd>>

\* The kind sync-opening posts from: the trial balance of the day before, or else
\* the balance sheet of that day.
Source(s) ==
  IF CutoverSlot(Reference(s), "trial-balance", s.from) # None THEN "trial-balance" ELSE "balance-sheet"

Decidable(s) == cmd = None /\ MaySave(s) /\ OpeningReady(s) /\ Opening(Reference(s), Source(s)) # None

\* The one opening that stands is the one shown: nothing to do.
SyncFindsOpening(s) ==
  /\ Decidable(s)
  /\ \E k \in Active : /\ Active = {k}
                       /\ entries[k].lines = Opening(Reference(s), Source(s))
                       /\ entries[k].day = s.from /\ entries[k].currency = Book(s)
  /\ evidence' = Saved(s)
  /\ answer' = Report("sync", s, Len(entries), FALSE)
  /\ UNCHANGED <<entries, company, cmd>>

SyncDecides(s) ==
  /\ Decidable(s) /\ Active = {} /\ ~Overlaps(s.from)
  /\ evidence' = Saved(s) /\ answer' = None
  /\ cmd' = [kind |-> "sync", snapshot |-> s, target |-> Book(s), seen |-> Len(entries)]
  /\ UNCHANGED <<entries, company>>

\* Under the lock: the currency, and the id of the opening itself.
SyncApplies ==
  LET s == cmd.snapshot
      id == OpeningId(Source(s), s.from)
      lines == Opening(Reference(s), Source(s))
      accepted == cmd.target = company.currency \/ MayAdopt
      writes == accepted /\ id \notin Ids
  IN /\ cmd # None /\ cmd.kind = "sync"
     /\ cmd' = None
     /\ writes => Room(1)
     /\ entries' = IF writes THEN Append(entries, Entry(id, s.from, lines, cmd.target, TRUE)) ELSE entries
     /\ company' = IF writes THEN [company EXCEPT !.currency = cmd.target] ELSE company
     /\ answer' = IF accepted THEN Report("sync", s, cmd.seen, writes) ELSE None
     /\ UNCHANGED evidence

\* From a folder, in one transaction and without the entity lock.  No report date is
\* checked against the cutover, and an opening of another day or kind is no obstacle.
ImportOpening(folder, kind, cutover) ==
  LET lines == Opening(folder, kind)
      id == OpeningId(kind, cutover)
  IN /\ Room(1) /\ lines # None /\ id \notin Ids
     /\ entries' = Append(entries, Entry(id, cutover, lines, company.currency, TRUE))
     /\ answer' = None
     /\ UNCHANGED <<company, evidence, cmd>>

RepairLists(folder, cutover) ==
  /\ cmd = None /\ InvalidOpenings(cutover) # {}
  /\ cmd' = [kind |-> "repair", folder |-> folder, cutover |-> cutover,
             invalid |-> InvalidOpenings(cutover), seen |-> Len(entries)]
  /\ answer' = None
  /\ UNCHANGED <<entries, company, evidence>>

\* The replacement and the reversals of the list are one transaction, which a
\* refused replacement rolls back.
RepairApplies ==
  LET lines == Opening(cmd.folder, "balance-sheet")
      id == OpeningId("balance-sheet", cmd.cutover)
      new == IF id \in Ids THEN <<>> ELSE <<Entry(id, cmd.cutover, lines, company.currency, TRUE)>>
      reversals == SetToSeq({Reversal(WithId(i)) : i \in cmd.invalid})
  IN /\ cmd # None /\ cmd.kind = "repair"
     /\ cmd' = None
     /\ IF lines = None THEN UNCHANGED entries /\ answer' = None
        ELSE /\ Room(Len(new) + Len(reversals))
             /\ entries' = entries \o new \o reversals
             /\ answer' = Report("repair", cmd, cmd.seen, new # <<>>)
     /\ UNCHANGED <<company, evidence>>

\* What other commands do meanwhile: a bank row, ledger reverse, set-currency.
ImportRow(r, day) ==
  /\ Room(1) /\ <<"row", r>> \notin Ids
  /\ entries' = Append(entries, Entry(<<"row", r>>, day, Zero, company.currency, FALSE))
  /\ answer' = None
  /\ UNCHANGED <<company, evidence, cmd>>
ReverseEntry(id) ==
  /\ Room(1) /\ id \notin ReversedIds
  /\ entries' = Append(entries, Reversal(WithId(id)))
  /\ answer' = None
  /\ UNCHANGED <<company, evidence, cmd>>
SetCurrency(c) ==
  /\ entries = <<>> /\ ~company.set
  /\ company' = [currency |-> c, set |-> TRUE] /\ answer' = None
  /\ UNCHANGED <<entries, evidence, cmd>>

References == {Reference(s) : s \in {x \in Snapshots : evidence[x] # None}}
Next ==
  \/ \E s \in Snapshots : SyncImport(s) \/ SyncFindsOpening(s) \/ SyncDecides(s)
  \/ SyncApplies
  \/ \E f \in Files \cup References, kind \in BalanceKinds, d \in Cutovers : ImportOpening(f, kind, d)
  \/ \E f \in Files, d \in Cutovers : RepairLists(f, d)
  \/ RepairApplies
  \/ \E r \in Rows, d \in RowDays : ImportRow(r, d)
  \/ \E id \in Ids : ReverseEntry(id)
  \/ \E c \in Currencies : SetCurrency(c)

Spec == Init /\ [][Next]_vars
--------------------------------------------------------------------------------
(* PROPERTIES *)

Openings == {k \in Index : entries[k].qb}
\* The opening reports of a snapshot that says which period it covers.
Covers(s) == \E key \in {"GeneralLedger", "ProfitAndLoss"} \cap DOMAIN s.reports : ReportReady(s, key)
ShownKey(s) ==
  CHOOSE key \in OpeningKeys \cap DOMAIN s.reports :
    /\ ReportReady(s, key)
    /\ key = "OpeningBalanceSheet" =>
         "OpeningTrialBalance" \notin DOMAIN s.reports \/ ~ReportReady(s, "OpeningTrialBalance")

\* A sync that reports its opening as applied, on the ledger it decided on: the
\* openings in the books add up to the balances that the opening report shows for
\* the day before, in the currency of the company and of the report, and what the
\* sync wrote did not go on top of an entry of that day or before.
OpeningAsShown ==
  (answer # None /\ answer.kind = "sync" /\ answer.fresh /\ Covers(answer.subject)) =>
    LET s == answer.subject
    IN /\ Sum(Openings) = Carried(s.reports[ShownKey(s)])
       /\ \A k \in Openings : entries[k].currency = company.currency
       /\ company.currency = s.currency
       /\ answer.wrote => \A k \in Index \ Openings :
                            entries[k].day <= s.from => \E j \in Index : entries[j].reverses = entries[k].id

\* A repair that nobody disturbed leaves no opening with income or expenses on that
\* day, and reversed each one it listed once.
RepairLeavesNone ==
  (answer # None /\ answer.kind = "repair" /\ answer.fresh) =>
    /\ InvalidOpenings(answer.subject.cutover) = {}
    /\ \A i \in answer.subject.invalid : Cardinality({k \in Index : entries[k].reverses = i}) = 1
================================================================================
