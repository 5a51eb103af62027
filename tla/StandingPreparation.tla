------------------------- MODULE StandingPreparation -------------------------
(* What a host may do in a company folder under a standing policy.  An          *)
(* execution checks its command when it starts, without the entity lock; people *)
(* and other programs go on working, and the writers it reaches check again.    *)
(* Postings are fenced by the evidence the host verified, by the item it read   *)
(* and by the digest of the ledger.  A reconciliation is staged, audited and    *)
(* published in steps, and the next reconciliation finishes what a stop left.   *)
EXTENDS Integers, Sequences, FiniteSets

CONSTANTS HostRows, Versions,         \* staged rows and the documents they may hold
          AmountOf, PeriodOf,         \* what a document says
          Categories, RuleFor,        \* catalog; the rule of a row in the routine policy
          ReportKeys, PeriodOfKey,    \* reconciliations: an account and a day
          Figures,                    \* source balances; a negative one does not add up
          Questions,                  \* groups of rows the host asks a person about
          Executions,
          Actions, FirstPeriod, LastPeriod, Held, HeldEntries, Ceiling,   \* the policy
          MaxEntries, MaxSaves, MaxHalts,
          Missing

VARIABLES waiting,       \* the document that waits in review for each row
          items,         \* the proposal of each row
          answers,       \* decisions people gave the host on captured rows
          prepBooks,     \* the ledger; its length stands for its digest
          prepReceipts,  \* audit events of the postings
          live,          \* executions whose authority has not expired
          cmds,          \* the command of each execution
          report,        \* reports/reconciliation.json
          stage,         \* the unfinished reconciliation transaction
          audits,        \* its audit events
          saves,         \* the clock of the report
          halts
posting == <<waiting, items, answers, prepReceipts>>
reporting == <<report, stage, audits, saves>>
prepVars == <<posting, prepBooks, live, cmds, reporting, halts>>

Proposals == [category: Categories, evidence: Versions, human: BOOLEAN,
              status: {"open", "confirmed", "requires-reproposal"}]
ReportRecords == [figure: Figures, balance: Nat, by: Executions \cup {Missing}, at: Nat,
                  status: {"source-inconsistent", "clean", "open", "resolved"}]
ReportStages == [exec: Executions, key: ReportKeys, figure: Figures, digest: Nat, manifest: BOOLEAN,
                 report: [ReportKeys -> ReportRecords \cup {Missing}]]
ASSUME PrepAssumption ==
  /\ RuleFor \in [HostRows -> Categories \cup {Missing}] /\ Questions \subseteq SUBSET HostRows
  /\ Missing \notin Executions \cup Held
  /\ Missing \notin Proposals /\ Missing \notin ReportRecords /\ Missing \notin ReportStages

Digest == Len(prepBooks)
Room == Digest < MaxEntries
Index == DOMAIN prepBooks

\* A ledger writer and a reconciliation hold the entity lock; a command that has begun does not.
EntityLocked == \E e \in Executions : cmds[e] # Missing /\ cmds[e].phase # "begun"
------------------------------------------------------------------------------
(* AUTHORITY *)

Authorized(e, action, periods, sources, entries, human) ==
  /\ e \in live
  /\ action \in Actions
  /\ periods \subseteq FirstPeriod..LastPeriod
  /\ ~human /\ sources \cap Held = {} /\ entries \cap HeldEntries = {}

\* The lower of the limits of the company and of the policy.
Small(amount) == amount <= Ceiling

Command(action, on, evidence, item, category) ==
  [action |-> action, on |-> on, evidence |-> evidence, item |-> item,
   category |-> category, digest |-> Digest, phase |-> "begun"]
\* A command whose action the policy lacks is refused and is left out.
Begins(e, c) == /\ cmds[e] = Missing /\ c.action \in Actions
                /\ cmds' = [cmds EXCEPT ![e] = c]
                /\ UNCHANGED <<posting, prepBooks, live, reporting, halts>>
Done(e) == cmds' = [cmds EXCEPT ![e] = Missing]
\* The writer of a command that has begun, once it has the lock.
Writes(e, action) == cmds[e] # Missing /\ cmds[e].action = action /\ cmds[e].phase = "begun" /\ ~EntityLocked

Entry(row, version, category, amount, by, of) ==
  [row |-> row, version |-> version, category |-> category, amount |-> amount, by |-> by, of |-> of]
Receipt(e, action, row, item) ==
  [exec |-> e, action |-> action, row |-> row, item |-> item, at |-> Digest + 1]
Reversed(n) == \E m \in Index : prepBooks[m].of = n
InBooks(r) == \E n \in Index : prepBooks[n].row = r
\* An entry and the ones it corrects: every set that holds it and, with an entry,
\* the entry it reverses, holds them.
Corrects(entries) == \A k \in entries : prepBooks[k].of = 0 \/ prepBooks[k].of \in entries
Lineage(n) == {k \in Index : \A entries \in SUBSET Index : n \in entries /\ Corrects(entries) => k \in entries}
------------------------------------------------------------------------------
(* ROUTINE PLANS *)

\* A decision holds for a row when every captured row of its question that is
\* still staged reads as it did then.
DecisionHolds(a) == \A r \in DOMAIN a.captured : waiting[r] \in {a.captured[r], Missing}
Planned(r) ==
  IF answers[r] # Missing
  THEN IF DecisionHolds(answers[r]) THEN answers[r].category ELSE Missing
  ELSE IF ~Small(AmountOf[waiting[r]]) THEN Missing ELSE RuleFor[r]
Owned(r) == items[r] # Missing /\ items[r].status = "open"
------------------------------------------------------------------------------
PrepInit ==
  /\ waiting = [r \in HostRows |-> Missing] /\ items = [r \in HostRows |-> Missing]
  /\ answers = [r \in HostRows |-> Missing]
  /\ prepBooks = <<>> /\ prepReceipts = {} /\ live = Executions
  /\ cmds = [e \in Executions |-> Missing]
  /\ report = [k \in ReportKeys |-> Missing] /\ stage = Missing /\ audits = {}
  /\ saves = 0 /\ halts = 0
------------------------------------------------------------------------------
(* PEOPLE AND OTHER PROGRAMS *)

\* A row reaches review, or is queued again with other data or a hold reason.
Restage(r, v) ==
  /\ ~EntityLocked /\ ~InBooks(r) /\ waiting[r] # v
  /\ waiting' = [waiting EXCEPT ![r] = v]
  /\ UNCHANGED <<items, answers, prepReceipts, prepBooks, live, cmds, reporting, halts>>

\* A review requirement stays with the item across proposals.
Proposal(r, v, category) ==
  [category |-> category, evidence |-> v, status |-> "open",
   human |-> items[r] # Missing /\ items[r].human]
PersonProposes(r, category) ==
  /\ ~EntityLocked /\ waiting[r] # Missing
  /\ items' = [items EXCEPT ![r] = Proposal(r, waiting[r], category)]
  /\ UNCHANGED <<waiting, answers, prepReceipts, prepBooks, live, cmds, reporting, halts>>

\* The close flow asks for a new proposal where the amount of the row changed.
Stale(r) == /\ items[r] # Missing /\ items[r].status \in {"open", "confirmed"}
            /\ waiting[r] # Missing /\ AmountOf[waiting[r]] # AmountOf[items[r].evidence]
ScanAmounts ==
  /\ ~EntityLocked /\ \E r \in HostRows : Stale(r)
  /\ items' = [r \in HostRows |-> IF Stale(r) THEN [items[r] EXCEPT !.status = "requires-reproposal", !.human = TRUE]
                              ELSE items[r]]
  /\ UNCHANGED <<waiting, answers, prepReceipts, prepBooks, live, cmds, reporting, halts>>

PersonConfirms(r) ==
  /\ ~EntityLocked /\ Room /\ Owned(r) /\ ~InBooks(r) /\ waiting[r] = items[r].evidence
  /\ prepBooks' = Append(prepBooks, Entry(r, waiting[r], items[r].category, AmountOf[waiting[r]], Missing, 0))
  /\ waiting' = [waiting EXCEPT ![r] = Missing]
  /\ items' = [items EXCEPT ![r].status = "confirmed"]
  /\ UNCHANGED <<answers, prepReceipts, live, cmds, reporting, halts>>

PersonCorrects(n, category, v) ==
  /\ ~EntityLocked /\ Room /\ n \in Index /\ ~Reversed(n)
  /\ prepBooks' = Append(prepBooks, Entry(Missing, v, category, AmountOf[v], Missing, n))
  /\ UNCHANGED <<posting, live, cmds, reporting, halts>>

\* qb import-opening posts without the entity lock.
UnlockedPosting(v) ==
  /\ Room
  /\ prepBooks' = Append(prepBooks, Entry(Missing, v, Missing, AmountOf[v], Missing, 0))
  /\ UNCHANGED <<posting, live, cmds, reporting, halts>>

\* The host asks a person about a group of rows and freezes what they showed.
Answer(G, category) ==
  /\ \A r \in G : waiting[r] # Missing /\ answers[r] = Missing
  /\ answers' = [r \in HostRows |-> IF r \in G THEN [captured |-> [x \in G |-> waiting[x]], category |-> category]
                                ELSE answers[r]]
  /\ UNCHANGED <<waiting, items, prepReceipts, prepBooks, live, cmds, reporting, halts>>

Expire(e) == /\ e \in live /\ live' = live \ {e}
             /\ UNCHANGED <<posting, prepBooks, cmds, reporting, halts>>

\* The process of an execution stops; an flock is given up with it.
Halt(e) == /\ cmds[e] # Missing /\ cmds[e].phase # "begun" /\ halts < MaxHalts
           /\ Done(e) /\ halts' = halts + 1
           /\ UNCHANGED <<posting, prepBooks, live, reporting>>
------------------------------------------------------------------------------
(* POSTING UNDER THE POLICY *)

\* MUTANT: the document the command started from is not compared again.
ReadsAny(e, r) == waiting[r] # Missing
\* The staged document is the one the host verified.
Reads(e, r) == waiting[r] = cmds[e].evidence
LedgerUnchanged(e) == Digest = cmds[e].digest

HostImports(e, r, v) ==
  /\ Authorized(e, "import", {PeriodOf[v]}, {r}, {}, FALSE)
  /\ Begins(e, Command("import", r, v, Missing, Missing))
\* A row the rules do not categorize, or above the ceiling, waits in review.
HostImportStages(e, r, v) ==
  /\ waiting' = [waiting EXCEPT ![r] = IF @ = Missing THEN v ELSE @]
  /\ UNCHANGED <<items, answers, prepReceipts, prepBooks>>
HostImportPosts(e, r, v) ==
  /\ Room /\ RuleFor[r] # Missing /\ Small(AmountOf[v])
  /\ LedgerUnchanged(e) /\ Authorized(e, "import", {PeriodOf[v]}, {r}, {}, FALSE)
  /\ prepBooks' = Append(prepBooks, Entry(r, v, RuleFor[r], AmountOf[v], e, 0))
  /\ prepReceipts' = prepReceipts \cup {Receipt(e, "import", r, Missing)}
  /\ UNCHANGED <<waiting, items, answers>>
CommitImport(e) ==
  /\ Writes(e, "import")
  /\ LET r == cmds[e].on
         v == cmds[e].evidence
     IN \/ InBooks(r) /\ UNCHANGED <<posting, prepBooks>>
        \/ ~InBooks(r) /\ (RuleFor[r] = Missing \/ ~Small(AmountOf[v])) /\ HostImportStages(e, r, v)
        \/ ~InBooks(r) /\ waiting[r] = Missing /\ HostImportPosts(e, r, v)
  /\ Done(e) /\ UNCHANGED <<live, reporting, halts>>

\* A proposal, or one of the actions a routine plan names.
HostProposes(e, r, v, category) ==
  /\ waiting[r] = v /\ Authorized(e, "categorize", {PeriodOf[v]}, {r}, {}, FALSE)
  /\ Begins(e, Command("categorize", r, v, Missing, category))
RoutineProposes(e, r) ==
  /\ waiting[r] # Missing /\ ~InBooks(r) /\ ~Owned(r) /\ Planned(r) # Missing
  /\ HostProposes(e, r, waiting[r], Planned(r))
CommitProposal(e) ==
  /\ Writes(e, "categorize") /\ cmds[e].item = Missing
  /\ LET r == cmds[e].on
     IN /\ Reads(e, r) /\ LedgerUnchanged(e) /\ Small(AmountOf[waiting[r]])
        /\ Authorized(e, "categorize", {PeriodOf[waiting[r]]}, {r}, {}, FALSE)
        /\ items' = [items EXCEPT ![r] = Proposal(r, waiting[r], cmds[e].category)]
  /\ Done(e) /\ UNCHANGED <<waiting, answers, prepReceipts, prepBooks, live, reporting, halts>>

HostConfirms(e, r, v) ==
  /\ items[r] # Missing /\ (InBooks(r) => items[r].status = "open")
  /\ Begins(e, Command("categorize", r, v, items[r], Missing))
\* MUTANT: the item is read again and not compared with the one the host saw.
ItemAny(e, r) == items[r] # Missing
ItemUnchanged(e, r) == items[r] = cmds[e].item
Confirmable(e, r) ==
  /\ Owned(r) /\ items[r].evidence = cmds[e].evidence
  /\ Small(AmountOf[IF waiting[r] = Missing THEN items[r].evidence ELSE waiting[r]])
CommitConfirm(e) ==
  /\ Writes(e, "categorize") /\ cmds[e].item # Missing
  /\ LET r == cmds[e].on
     IN /\ Confirmable(e, r) /\ ~InBooks(r) /\ Room
        /\ Reads(e, r) /\ ItemUnchanged(e, r) /\ LedgerUnchanged(e)
        /\ Authorized(e, "categorize", {PeriodOf[waiting[r]]}, {r}, {}, items[r].human)
        /\ prepBooks' = Append(prepBooks, Entry(r, waiting[r], items[r].category, AmountOf[waiting[r]], e, 0))
        /\ prepReceipts' = prepReceipts \cup {Receipt(e, "confirm", r, items[r])}
  /\ cmds' = [cmds EXCEPT ![e].phase = "posted"]
  /\ UNCHANGED <<waiting, items, answers, live, reporting, halts>>
FinishItem(e, r) ==
  /\ waiting' = [waiting EXCEPT ![r] = Missing]
  /\ items' = [items EXCEPT ![r].status = "confirmed"]
  /\ Done(e) /\ UNCHANGED <<answers, prepReceipts, prepBooks, live, reporting, halts>>
FinishConfirm(e) == /\ cmds[e] # Missing /\ cmds[e].phase = "posted"
                    /\ FinishItem(e, cmds[e].on)
\* Only the execution that posted the row, reading the same item, finishes it.
RecoverConfirm(e) ==
  /\ Writes(e, "categorize") /\ cmds[e].item # Missing
  /\ LET r == cmds[e].on
     IN /\ Confirmable(e, r) /\ InBooks(r) /\ waiting[r] \in {Missing, cmds[e].evidence}
        /\ \E q \in prepReceipts : q.action = "confirm" /\ q.row = r /\ q.exec = e /\ q.item = items[r]
        /\ FinishItem(e, r)

\* A correction is bound to the entry and to all it corrects.
HostCorrects(e, n, category) ==
  /\ n \in Index
  /\ Begins(e, Command("correct", n, Missing, Missing, category))
SourcesOf(chain) == {prepBooks[k].row : k \in chain} \ {Missing}
\* MUTANT: only the entry itself is held against the policy.
OnlyEntry(n) == {n}
Bound(n) == Lineage(n)
CommitCorrection(e) ==
  /\ Writes(e, "correct") /\ Room
  /\ LET n == cmds[e].on
         chain == Bound(n)
     IN /\ ~Reversed(n) /\ LedgerUnchanged(e)
        /\ \A k \in chain : Small(prepBooks[k].amount)
        /\ Authorized(e, "correct", {PeriodOf[prepBooks[k].version] : k \in chain}, SourcesOf(chain), chain, FALSE)
        /\ prepBooks' = Append(prepBooks,
             Entry(Missing, prepBooks[n].version, cmds[e].category, prepBooks[n].amount, e, n))
        /\ prepReceipts' = prepReceipts \cup {Receipt(e, "correct", Missing, Missing)}
  /\ Done(e) /\ UNCHANGED <<waiting, items, answers, live, reporting, halts>>

\* Due reversals are posted one by one under one lock; each moves the fence.
HostAdjusts(e, v) == Begins(e, Command("adjust", Missing, v, Missing, Missing))
CommitAdjustment(e) ==
  /\ Writes(e, "adjust") \/ (cmds[e] # Missing /\ cmds[e].phase = "batch")
  /\ LET v == cmds[e].evidence
     IN /\ Room /\ LedgerUnchanged(e) /\ Small(AmountOf[v])
        /\ Authorized(e, "adjust", {PeriodOf[v]}, {}, {}, FALSE)
        /\ prepBooks' = Append(prepBooks, Entry(Missing, v, Missing, AmountOf[v], e, 0))
        /\ prepReceipts' = prepReceipts \cup {Receipt(e, "adjust", Missing, Missing)}
        /\ \/ Done(e)
           \/ cmds' = [cmds EXCEPT ![e].phase = "batch", ![e].digest = Digest + 1]
  /\ UNCHANGED <<waiting, items, answers, live, reporting, halts>>

\* A check that fails, one of those above or one this module leaves out, ends the
\* command before its next write; a stage it made stays.
Denied(e) == /\ cmds[e] # Missing /\ cmds[e].phase \in {"begun", "batch", "recovered", "staged"}
             /\ Done(e) /\ UNCHANGED <<posting, prepBooks, live, reporting, halts>>
------------------------------------------------------------------------------
(* RECONCILIATIONS *)

\* The ledger balance follows every posting, so its figure is the digest.
Status(figure) == IF figure < 0 THEN "source-inconsistent" ELSE IF figure = Digest THEN "clean" ELSE "open"
ReportRecord(k, figure, by) ==
  LET old == report[k]
      kept == /\ old # Missing /\ old.status = "resolved" /\ old.figure = figure
              /\ old.balance = Digest /\ figure >= 0
  IN [figure |-> figure, balance |-> Digest, by |-> by, at |-> saves + 1,
      status |-> IF kept THEN "resolved" ELSE Status(figure)]

\* MUTANT: a stage is published whether its audit was written or not.
AuditedAlways == TRUE
StageAudited == stage \in audits
\* A stage without a manifest or an audit is dropped; an audited one must still
\* belong to this ledger.
RecoverRefuses == stage # Missing /\ stage.manifest /\ StageAudited /\ stage.digest # Digest
Recovered == IF stage # Missing /\ stage.manifest /\ StageAudited THEN stage.report ELSE report
Recover == /\ ~RecoverRefuses
           /\ report' = Recovered /\ stage' = Missing
           /\ UNCHANGED <<audits, saves>>

\* MUTANT: a person saves without finishing what an earlier command left.
SavesAnyway == TRUE
SavesRecovered == stage = Missing
PersonSaves(rec, k) ==
  /\ ~EntityLocked /\ SavesRecovered /\ saves < MaxSaves
  /\ report' = [report EXCEPT ![k] = rec]
  /\ saves' = saves + 1
  /\ UNCHANGED <<posting, prepBooks, live, cmds, stage, audits, halts>>
PersonReconciles(k, figure) == PersonSaves(ReportRecord(k, figure, Missing), k)
PersonResolves(k) ==
  /\ report[k] # Missing /\ report[k].status \notin {"source-inconsistent", "resolved"}
  /\ PersonSaves([report[k] EXCEPT !.status = "resolved", !.at = saves + 1], k)
\* The first thing reconcile and resolve do under the lock.
PersonRecovers == /\ ~EntityLocked /\ stage # Missing /\ Recover
                  /\ UNCHANGED <<posting, prepBooks, live, cmds, halts>>

HostReconciles(e, k, figure) ==
  /\ Authorized(e, "reconcile", {PeriodOfKey[k]}, {}, {}, FALSE)
  /\ Begins(e, Command("reconcile", k, figure, Missing, Missing))
HostRecovers(e) ==
  /\ Writes(e, "reconcile") /\ Recover
  /\ cmds' = [cmds EXCEPT ![e].phase = "recovered"]
  /\ UNCHANGED <<posting, prepBooks, live, halts>>

In(e, phase) == cmds[e] # Missing /\ cmds[e].phase = phase
To(e, phase) == cmds' = [cmds EXCEPT ![e].phase = phase] /\ UNCHANGED <<posting, prepBooks, live, halts>>
\* The audit of this execution for the same reconciliation.
AuditedBefore(e) == {a \in audits : a.exec = e /\ a.key = cmds[e].on /\ a.figure = cmds[e].evidence}

\* A repeat of a reconciliation that is in the report succeeds without a write;
\* a repeat of one that is not any more is refused.
Repeat(e) ==
  /\ In(e, "recovered") /\ \E a \in AuditedBefore(e) : a.digest = cmds[e].digest /\ a.report = report
  /\ Done(e) /\ UNCHANGED <<posting, prepBooks, live, reporting, halts>>
Staged(e, manifest) ==
  [exec |-> e, key |-> cmds[e].on, figure |-> cmds[e].evidence, digest |-> cmds[e].digest, manifest |-> manifest,
   report |-> [report EXCEPT ![cmds[e].on] = ReportRecord(cmds[e].on, cmds[e].evidence, e)]]
StageReport(e) ==
  /\ In(e, "recovered") /\ AuditedBefore(e) = {} /\ saves < MaxSaves
  /\ stage' = Staged(e, FALSE) /\ saves' = saves + 1
  /\ UNCHANGED <<report, audits>> /\ To(e, "staging")
StageManifest(e) ==
  /\ In(e, "staging") /\ stage' = [stage EXCEPT !.manifest = TRUE]
  /\ UNCHANGED <<report, audits, saves>> /\ To(e, "staged")
Audit(e) ==
  /\ In(e, "staged") /\ LedgerUnchanged(e)
  /\ Authorized(e, "reconcile", {PeriodOfKey[cmds[e].on]}, {}, {}, FALSE)
  /\ audits' = audits \cup {stage}
  /\ UNCHANGED <<report, stage, saves>> /\ To(e, "audited")
PublishReport(e) ==
  /\ In(e, "audited") /\ report' = stage.report
  /\ UNCHANGED <<stage, audits, saves>> /\ To(e, "published")
RemoveStage(e) ==
  /\ In(e, "published") /\ stage' = Missing /\ Done(e)
  /\ UNCHANGED <<posting, prepBooks, live, report, audits, saves, halts>>
------------------------------------------------------------------------------
PeopleNext ==
  \/ \E r \in HostRows : \/ \E v \in Versions : Restage(r, v)
                     \/ \E c \in Categories : PersonProposes(r, c)
                     \/ PersonConfirms(r)
  \/ ScanAmounts
  \/ \E n \in Index, c \in Categories, v \in Versions : PersonCorrects(n, c, v)
  \/ \E v \in Versions : UnlockedPosting(v)
  \/ \E G \in Questions, c \in Categories : Answer(G, c)
  \/ \E k \in ReportKeys : PersonResolves(k) \/ \E f \in Figures : PersonReconciles(k, f)
  \/ PersonRecovers
HostBegins(e) ==
  \/ \E r \in HostRows, v \in Versions : \/ HostImports(e, r, v)
                                     \/ \E c \in Categories : HostProposes(e, r, v, c)
                                     \/ HostConfirms(e, r, v)
  \/ \E r \in HostRows : RoutineProposes(e, r)
  \/ \E n \in Index, c \in Categories : HostCorrects(e, n, c)
  \/ \E v \in Versions : HostAdjusts(e, v)
  \/ \E k \in ReportKeys, f \in Figures : HostReconciles(e, k, f)
HostWrites(e) ==
  \/ CommitImport(e) \/ CommitProposal(e) \/ CommitConfirm(e) \/ FinishConfirm(e) \/ RecoverConfirm(e)
  \/ CommitCorrection(e) \/ CommitAdjustment(e)
  \/ HostRecovers(e) \/ Repeat(e) \/ StageReport(e) \/ StageManifest(e) \/ Audit(e)
  \/ PublishReport(e) \/ RemoveStage(e)
PrepNext == PeopleNext \/ \E e \in Executions : HostBegins(e) \/ HostWrites(e) \/ Denied(e) \/ Expire(e) \/ Halt(e)
PrepSpec == PrepInit /\ [][PrepNext]_prepVars
------------------------------------------------------------------------------
(* PROPERTIES *)

\* Whatever happened since an execution started, what it posts is the document it
\* verified under the item it read, nothing it touches directly or through
\* corrections is outside its policy, and the audit log names it once
\* (preparation_runtime.record_preparation).
InPolicy(n) == /\ prepBooks[n].amount <= Ceiling /\ prepBooks[n].row \notin Held /\ n \notin HeldEntries
               /\ PeriodOf[prepBooks[n].version] \in FirstPeriod..LastPeriod
PostedAsVerified ==
  \A e \in Executions :
    Len(prepBooks') > Len(prepBooks) /\ prepBooks'[Len(prepBooks')].by = e =>
      LET new == prepBooks'[Len(prepBooks')]
          c == cmds[e]
      IN /\ e \in live /\ Len(prepBooks') = c.digest + 1
         /\ new.amount <= Ceiling
         /\ c.action \in {"import", "categorize"} => new.version = c.evidence /\ ~InBooks(new.row)
         /\ c.item # Missing => new.category = c.item.category /\ ~c.item.human
         /\ new.of # 0 => \A k \in Lineage(new.of) : InPolicy(k)
         /\ Cardinality({q \in prepReceipts' : q.at = Len(prepBooks')}) = 1

\* Nothing in the reconciliation report is ever replaced by something older: a
\* stop, a recovery or a repeat keeps the records and resolutions saved since; and
\* what a host put there is in the audit log once
\* (preparation_runtime.recover_preparation_reconciliations).
NeverOlder ==
  \A k \in ReportKeys :
    /\ report[k] # Missing => report'[k] # Missing /\ report'[k].at >= report[k].at
    /\ report'[k] # report[k] /\ report'[k].by # Missing =>
         \/ Cardinality({a \in audits : a.key = k /\ a.report[k] = report'[k]}) = 1
         \/ report'[k].status = "resolved"

\* A posting of a host is what it verified, inside its policy, and no reconciliation or
\* resolution is replaced by an older one, whatever stops and is recovered.
HostActsAsVerified == [][PostedAsVerified /\ NeverOlder]_<<prepBooks, report>>
==============================================================================
