------------------------- MODULE Operations_proofs -------------------------
(* Theorems about the commands of one company beside posting and review.         *)
(* Of CompanySettings, for any currencies, charts, accounts, rows, owners and    *)
(* command lines, and any number of events and stops.  Of hosts under a standing *)
(* policy (StandingPreparation), for any rows, documents, executions, policy and *)
(* accounts, and any number of postings by anybody, reconciliations, stops and   *)
(* expired authorities: a posting of a host is what it verified, and the report  *)
(* never goes back.                                                              *)
EXTENDS CompanySettings, StandingPreparation, FiniteSetTheorems, SequenceTheorems, TLAPS

(* ENTITY CONFIGURATION AND CURRENCY *)

Accounts(l) == {n \in Names : l.accounts[n] # None}

\* A configuration that fits a ledger: the ledger has the accounts it names, and
\* the ledger is where the currency was recorded first.
Fits(f, l) ==
  /\ f \in File
  /\ Named(f) \subseteq Accounts(l)
  /\ l.currency = None => f.currency = None

\* What a command leaves alone in entity.json unless it is about it.
Same(f, g) ==
  /\ f.notes = g.notes /\ f.mapped = g.mapped /\ f.related = g.related /\ f.approved = g.approved
  /\ f.fiscal = g.fiscal /\ f.method = g.method /\ f.profile = g.profile

Steps == {"idle", "init", "publish", "basis", "enable", "goals"} \cup Annual

\* The command in progress goes on with what fits, and takes back nothing.
RunFits ==
  /\ run = Run(run.step, run.config, run.arg) /\ run.step \in Steps
  /\ run.step # "idle" => ledger # None
  /\ run.step = "init" => file = None
  /\ run.step \in {"basis", "enable", "goals"} \cup Annual => file # None
  /\ run.step \in {"init", "publish", "goals"} => Fits(run.config, ledger)
  /\ run.step \in {"init", "publish"} => run.arg \subseteq Rows
  /\ run.step = "publish" /\ file # None => Same(file, run.config) /\ file.goals = run.config.goals
  /\ run.step = "goals" => Same(file, run.config)
  /\ run.step = "basis" => run.arg \in Bases
  /\ run.step = "enable" => run.arg \in Days

InOneCurrency == ledger # None => \A r \in Rows : ledger.entries[r] \in {None, BookCurrency(ledger, Default)}

AuditShape ==
  audit = [head |-> audit.head, sealed |-> audit.sealed, goals |-> audit.goals,
           goalsHead |-> audit.goalsHead, added |-> audit.added, plans |-> audit.plans]

\* A plan that was used covers an event that is not the last one any more.
PlansAreOld ==
  /\ audit.goalsHead \in Nat /\ audit.goalsHead <= audit.head
  /\ run.step = "goals" => run.arg.kind = "goals" /\ run.arg.event = audit.goalsHead
  /\ \A u \in audit.plans :
       /\ u = [event |-> u.event, plan |-> u.plan]
       /\ u.plan.event \in Nat
       /\ \/ u.plan.kind = "remove" /\ u.plan.event < audit.head
          \/ u.plan.kind = "goals" /\ u.plan.event < audit.goalsHead
  /\ PlanUsedOnce

\* A command line that has loaded a company found one, and accounts are added to one.
SnapsOfBooks ==
  /\ \A c \in Callers : snap[c] # None => file # None
  /\ audit.added # {} => ledger # None

IInv ==
  /\ TypeOK /\ SnapsOfBooks
  /\ file # None => Fits(file, ledger)
  /\ RunFits /\ InOneCurrency /\ AuditShape /\ PlansAreOld

-----------------------------------------------------------------------------
(* What the operators return *)

\* Accounts that are opened in a currency join the catalog, and no other changes.
LEMMA OpenedType ==
  ASSUME NEW accounts \in [Names -> Currencies \cup {None}], NEW names, NEW code \in Currencies \cup {None}
  PROVE  /\ Opened(accounts, names, code) \in [Names -> Currencies \cup {None}]
         /\ code # None => \A n \in Names : accounts[n] # None => Opened(accounts, names, code)[n] # None
         /\ \A n \in Names \ names : Opened(accounts, names, code)[n] = accounts[n]
BY DEF Opened

\* A configuration fits a ledger that has more accounts and keeps its currency.
LEMMA FitsGrows ==
  ASSUME NEW f, NEW l, NEW m, Fits(f, l), Accounts(l) \subseteq Accounts(m),
         m.currency = None => l.currency = None
  PROVE  Fits(f, m)
BY DEF Fits

\* What fits is a file.
LEMMA FitsIsFile ==
  ASSUME NEW f, NEW l, Fits(f, l)
  PROVE  f # None
BY SettingsAssumption DEF Fits

\* What a command loads fits the ledger, differs from the file in the currency at
\* most, and has the currency of the books.
LEMMA LoadedFits ==
  ASSUME ledger \in Ledger, Fits(file, ledger)
  PROVE  /\ Fits(Loaded, ledger) /\ Same(file, Loaded) /\ Loaded.goals = file.goals
         /\ CurrencyOf(Loaded) = BookCurrency(ledger, Default) /\ CurrencyOf(Loaded) \in Currencies
         /\ Loaded.basis = file.basis
<1>1. CASE ledger.currency = None
  <2>1. Loaded = file /\ file.currency = None
    BY <1>1 DEF Loaded, Repaired, Fits
  <2> QED BY <1>1, <2>1, SettingsAssumption DEF CurrencyOf, BookCurrency, Default, Same, Fits
<1>2. CASE ledger.currency # None
  <2>1. /\ Loaded = [file EXCEPT !.currency = ledger.currency, !.source = ledger.source]
        /\ ledger.currency \in Currencies /\ ledger.source \in Sources
    BY <1>2 DEF Loaded, Repaired, Ledger
  <2>2. /\ Loaded \in File /\ Loaded.currency = ledger.currency /\ Same(file, Loaded)
        /\ Loaded.goals = file.goals /\ Loaded.basis = file.basis
    BY <2>1 DEF File, Fits, Same
  <2>3. Named(Loaded) = Named(file)
    BY <2>2 DEF Named, Same
  <2> QED BY <1>2, <2>1, <2>2, <2>3 DEF CurrencyOf, BookCurrency, Fits
<1> QED BY <1>1, <1>2

\* A change of the currency keeps the catalog and the entries.
LEMMA WithCurrencyType ==
  ASSUME NEW l \in Ledger, NEW previous \in Currencies, NEW code \in Currencies, NEW source \in Sources
  PROVE  /\ WithCurrency(l, previous, code, source) \in Ledger
         /\ WithCurrency(l, previous, code, source).currency = code
         /\ WithCurrency(l, previous, code, source).entries = l.entries
         /\ Accounts(WithCurrency(l, previous, code, source)) = Accounts(l)
<1> DEFINE m == WithCurrency(l, previous, code, source)
           accounts == [n \in Names |-> IF l.accounts[n] = previous THEN code ELSE l.accounts[n]]
<1>1. m = [l EXCEPT !.currency = code, !.source = source, !.accounts = accounts]
  BY DEF WithCurrency, Ledger
<1>2. accounts \in [Names -> Currencies \cup {None}]
  BY DEF Ledger
<1>3. /\ m \in Ledger /\ m.currency = code /\ m.entries = l.entries /\ m.accounts = accounts
  <2> HIDE DEF accounts
  <2> QED BY <1>1, <1>2 DEF Ledger
<1>4. \A n \in Names : accounts[n] # None <=> l.accounts[n] # None
  BY SettingsAssumption DEF Ledger
<1> HIDE DEF m, accounts
<1>5. Accounts(m) = Accounts(l)
  BY <1>3, <1>4 DEF Accounts
<1> QED BY <1>3, <1>5 DEF m

-----------------------------------------------------------------------------
(* The parts of a step *)

\* A step that seals an event, or none, and uses no plan.
Advanced ==
  /\ AuditShape' /\ audit'.head \in 0..MaxEvents /\ audit.head <= audit'.head
  /\ audit'.added \subseteq OwnNames
  /\ audit'.plans = audit.plans /\ audit'.goalsHead = audit.goalsHead

\* A seal that uses no plan counts one event.
LEMMA SealAddedAdvances ==
  ASSUME TypeOK, AuditShape, NEW l, NEW added \in SUBSET OwnNames, Seal(l, [audit EXCEPT !.added = added])
  PROVE  ledger' = l /\ Advanced
<1>1. /\ audit' = [audit EXCEPT !.head = audit.head + 1, !.sealed = l, !.added = added]
      /\ ledger' = l /\ audit.head < MaxEvents
  BY DEF Seal, AuditShape
<1>2. /\ audit'.head = audit.head + 1 /\ audit'.added = added /\ audit'.plans = audit.plans
      /\ audit'.goalsHead = audit.goalsHead /\ AuditShape'
  BY <1>1 DEF AuditShape
<1> QED BY <1>1, <1>2, SettingsAssumption DEF Advanced, TypeOK

\* A plain seal.
LEMMA SealAdvances ==
  ASSUME TypeOK, AuditShape, NEW l, Seal(l, audit)
  PROVE  ledger' = l /\ Advanced
<1>1. audit = [audit EXCEPT !.added = audit.added] /\ audit.added \in SUBSET OwnNames
  BY DEF AuditShape, TypeOK
<1> QED BY <1>1, SealAddedAdvances

\* No event is no less.
LEMMA StaysAdvanced ==
  ASSUME TypeOK, AuditShape, UNCHANGED audit
  PROVE  Advanced
BY SettingsAssumption DEF Advanced, TypeOK, AuditShape

\* A free lock fits.
LEMMA IdleFits ==
  ASSUME run' = Idle
  PROVE  RunFits' /\ run'.step # "goals"
BY DEF RunFits, Idle, Run, Steps, Annual

\* So does one that stays free.
LEMMA FreeFits ==
  ASSUME RunFits, Free, UNCHANGED run
  PROVE  RunFits' /\ run'.step # "goals"
<1>1. run.step = "idle" /\ run = Run(run.step, run.config, run.arg)
  BY DEF Free, RunFits
<1> QED BY <1>1 DEF RunFits, Steps, Annual

\* A command that will replace the file fits when its new file does.
LEMMA PublishFits ==
  ASSUME NEW config, NEW arg, run' = Run("publish", config, arg), ledger' # None,
         Fits(config, ledger'), arg \subseteq Rows,
         file' # None => Same(file', config) /\ file'.goals = config.goals
  PROVE  RunFits' /\ run'.step # "goals"
<1>1. run'.step = "publish" /\ run'.config = config /\ run'.arg = arg
  BY DEF Run
<1> QED BY <1>1 DEF RunFits, Run, Steps, Annual

\* What holds of the plans holds when no plan is used.
LEMMA PlansStay ==
  ASSUME TypeOK, PlansAreOld, Advanced,
         run'.step = "goals" => run'.arg.kind = "goals" /\ run'.arg.event = audit.goalsHead
  PROVE  PlansAreOld'
<1>1. PlanUsedOnce'
  BY DEF PlansAreOld, PlanUsedOnce, Advanced
<1>2. audit.head \in Nat /\ audit'.head \in Nat
  BY SettingsAssumption DEF TypeOK, Advanced
<1>3. ASSUME NEW u \in audit'.plans
      PROVE  /\ u = [event |-> u.event, plan |-> u.plan]
             /\ u.plan.event \in Nat
             /\ \/ u.plan.kind = "remove" /\ u.plan.event < audit'.head
                \/ u.plan.kind = "goals" /\ u.plan.event < audit'.goalsHead
  <2>1. u \in audit.plans
    BY DEF Advanced
  <2>2. u.plan.event < audit.head => u.plan.event < audit'.head
    BY <1>2, <2>1 DEF PlansAreOld, Advanced
  <2> QED BY <2>1, <2>2 DEF PlansAreOld, Advanced
<1>4. audit'.goalsHead \in Nat /\ audit'.goalsHead <= audit'.head
  BY <1>2 DEF PlansAreOld, Advanced
<1>5. run'.step = "goals" => run'.arg.kind = "goals" /\ run'.arg.event = audit'.goalsHead
  BY DEF Advanced
<1> QED BY <1>1, <1>3, <1>4, <1>5 DEF PlansAreOld

\* A step keeps the invariant when its parts do.
LEMMA StepParts ==
  ASSUME IInv, AuditShape', audit'.head \in 0..MaxEvents, audit'.added \subseteq OwnNames, PlansAreOld',
         ledger' \in Ledger, file' # None => Fits(file', ledger'), file' # None \/ UNCHANGED <<file, snap>>,
         RunFits', InOneCurrency',
         staged' \subseteq Rows, snap' \in [Callers -> Currencies \cup {None}]
  PROVE  IInv'
<1>1. TypeOK'
  BY SettingsAssumption DEF TypeOK, Fits
<1>2. SnapsOfBooks'
  BY SettingsAssumption DEF SnapsOfBooks, IInv
<1> QED BY <1>1, <1>2 DEF IInv

\* In particular when it uses no plan.
LEMMA Step ==
  ASSUME IInv, Advanced, ledger' \in Ledger, file' # None => Fits(file', ledger'),
         file' # None \/ UNCHANGED <<file, snap>>, RunFits', InOneCurrency',
         run'.step = "goals" => run'.arg.kind = "goals" /\ run'.arg.event = audit.goalsHead,
         staged' \subseteq Rows, snap' \in [Callers -> Currencies \cup {None}]
  PROVE  IInv'
<1>1. PlansAreOld'
  BY PlansStay DEF IInv
<1> QED BY <1>1, StepParts DEF Advanced

\* Books with the same entries and the same currency, or without entries, are in
\* one currency.
LEMMA SameBooks ==
  ASSUME InOneCurrency, ledger # None, ledger'.entries = ledger.entries,
         ledger'.currency = ledger.currency \/ \A r \in Rows : ledger.entries[r] = None
  PROVE  InOneCurrency'
BY DEF InOneCurrency, BookCurrency

\* What a command that takes the lock finds.
LEMMA LockedFacts ==
  ASSUME IInv, Locked
  PROVE  /\ ledger \in Ledger /\ ledger # None /\ file # None /\ Fits(file, ledger) /\ run.step = "idle"
         /\ Fits(Loaded, ledger) /\ Same(file, Loaded) /\ Loaded.goals = file.goals /\ Loaded \in File
         /\ CurrencyOf(Loaded) = BookCurrency(ledger, Default) /\ CurrencyOf(Loaded) \in Currencies
BY LoadedFits DEF IInv, TypeOK, Locked, Free, Loads, Fits

\* A command that only replaces the file.
LEMMA FileStep ==
  ASSUME IInv, Free, ledger \in Ledger, Fits(file', ledger), UNCHANGED <<ledger, audit, staged, run, snap>>
  PROVE  IInv'
<1>1. RunFits' /\ run'.step # "goals"
  BY FreeFits DEF IInv
<1>2. InOneCurrency' /\ Advanced
  BY StaysAdvanced DEF IInv, InOneCurrency
<1>3. file' # None
  BY SettingsAssumption DEF Fits
<1> QED BY <1>1, <1>2, <1>3, Step DEF IInv, TypeOK

\* A command that commits a ledger with the same books and the same names, and
\* then goes on to replace the file.
LEMMA CommitThenPublish ==
  ASSUME IInv, ledger \in Ledger, file # None, file' \in {file, Loaded},
         NEW l \in Ledger, NEW config, ledger' = l, Advanced,
         NEW arg \in SUBSET Rows, run' = Run("publish", config, arg),
         l.entries = ledger.entries, l.currency = ledger.currency \/ \A r \in Rows : ledger.entries[r] = None,
         ledger.currency # None => l.currency # None,
         Accounts(ledger) \subseteq Accounts(l), Fits(config, l), Same(Loaded, config),
         Loaded.goals = config.goals,
         staged' \subseteq Rows, snap' \in [Callers -> Currencies \cup {None}]
  PROVE  IInv'
<1>1. Fits(file, ledger) /\ Fits(Loaded, ledger) /\ Same(file, Loaded) /\ Loaded.goals = file.goals
  BY LoadedFits DEF IInv
<1>2. Fits(file', ledger') /\ file' # None
  BY <1>1, FitsGrows, SettingsAssumption DEF Fits
<1>3. RunFits' /\ run'.step # "goals"
  <2>1. Same(file', config) /\ file'.goals = config.goals
    BY <1>1 DEF Same
  <2> QED BY <2>1, PublishFits, SettingsAssumption
<1>4. InOneCurrency'
  BY SameBooks, SettingsAssumption DEF IInv
<1> QED BY <1>2, <1>3, <1>4, Step DEF IInv, TypeOK

-----------------------------------------------------------------------------
(* The commands *)

\* What a command that commits finds.
LEMMA InvFacts ==
  ASSUME IInv
  PROVE  /\ TypeOK /\ RunFits /\ InOneCurrency /\ AuditShape /\ PlansAreOld
         /\ ledger # None => ledger \in Ledger
         /\ file # None => ledger # None /\ Fits(file, ledger) /\ file \in File
         /\ staged \subseteq Rows /\ snap \in [Callers -> Currencies \cup {None}]
         /\ audit.added \subseteq OwnNames
         /\ \A c \in Callers : snap[c] # None => file # None
         /\ audit.added # {} => ledger # None
         /\ None \notin File /\ None \notin Ledger
BY SettingsAssumption DEF IInv, TypeOK, Fits, SnapsOfBooks

\* A new configuration fits any ledger that records no currency, and any other too.
LEMMA NewFileFits ==
  ASSUME NEW basis \in Bases, NEW business \in DOMAIN Charts, NEW l
  PROVE  Fits(NewFile(basis, business), l)
BY DEF Fits, NewFile, File, Named, Sources

\* A new company.
LEMMA InitSteps ==
  ASSUME IInv,
         \/ \E b \in Bases, t \in DOMAIN Charts : InitLedger(b, t) \/ InitAgain(b, t)
         \/ InitUpgrade
  PROVE  IInv'
<1>1. ASSUME NEW b \in Bases, NEW t \in DOMAIN Charts, InitLedger(b, t)
      PROVE  IInv'
  <2> DEFINE chart == Charts[t] \cup (IF b = "accrual" THEN AccrualNames ELSE {})
             nothing == [n \in Names |-> None]
             step == IF b = "accrual" THEN "init" ELSE "publish"
  <2>1. /\ ledger' = NewLedger(b, t) /\ run' = Run(step, NewFile(b, t), {}) /\ ledger = None /\ file = None
        /\ UNCHANGED <<audit, file, staged, snap, held, stops>>
    BY <1>1, InvFacts DEF InitLedger, TypeOK
  <2>2. Opened(nothing, chart, Default) \in [Names -> Currencies \cup {None}]
    BY SettingsAssumption DEF Opened, Default
  <2>3. NewLedger(b, t) \in Ledger /\ NewLedger(b, t).entries = [r \in Rows |-> None]
    <3> HIDE DEF chart, nothing
    <3>1. NewLedger(b, t) = [basis |-> b, schema |-> 1, currency |-> None, source |-> "default", tracking |-> 0,
             business |-> t, receipts |-> {}, entries |-> [r \in Rows |-> None],
             accounts |-> Opened(nothing, chart, Default)]
      BY DEF NewLedger, nothing, chart
    <3> QED BY <2>2, <3>1 DEF Ledger, Sources
  <2>4. RunFits' /\ run'.step # "goals"
    <3>1. run'.step = step /\ run'.config = NewFile(b, t) /\ run'.arg = {}
      BY <2>1 DEF Run
    <3>2. Fits(run'.config, ledger') /\ ledger' # None /\ file' = None
      BY <2>1, <2>3, <3>1, NewFileFits, SettingsAssumption
    <3>3. step \in {"init", "publish"}
      OBVIOUS
    <3> HIDE DEF step
    <3> QED BY <2>1, <3>1, <3>2, <3>3 DEF RunFits, Run, Steps, Annual
  <2>5. InOneCurrency'
    BY <2>1, <2>3 DEF InOneCurrency
  <2>6. Advanced
    BY <2>1, InvFacts, StaysAdvanced
  <2> QED BY <2>1, <2>3, <2>4, <2>5, <2>6, InvFacts, Step
<1>2. ASSUME NEW b \in Bases, NEW t \in DOMAIN Charts, InitAgain(b, t)
      PROVE  IInv'
  BY <1>2, InvFacts, NewFileFits, FileStep DEF InitAgain
<1>3. CASE InitUpgrade
  <2> DEFINE l == [ledger EXCEPT !.schema = 2]
  <2>1. /\ run.step = "init" /\ Seal(l, audit) /\ run' = [run EXCEPT !.step = "publish"]
        /\ UNCHANGED <<file, staged, snap, held, stops>>
    BY <1>3 DEF InitUpgrade
  <2>2. ledger \in Ledger /\ Fits(run.config, ledger) /\ run.arg \subseteq Rows /\ file = None
    BY <2>1, InvFacts DEF RunFits
  <2>3. /\ l \in Ledger /\ l.entries = ledger.entries /\ l.currency = ledger.currency
        /\ l.accounts = ledger.accounts
    BY <2>2 DEF Ledger
  <2> HIDE DEF l
  <2>4. ledger' = l /\ Advanced
    BY <2>1, InvFacts, SealAdvances
  <2>5. run' = Run("publish", run.config, run.arg)
    BY <2>1, InvFacts DEF RunFits, Run
  <2>6. Fits(run.config, l)
    BY <2>2, <2>3, FitsGrows DEF Accounts
  <2>7. RunFits' /\ run'.step # "goals"
    BY <2>1, <2>2, <2>3, <2>4, <2>5, <2>6, PublishFits, SettingsAssumption
  <2>8. InOneCurrency'
    BY <2>2, <2>3, <2>4, InvFacts, SameBooks, SettingsAssumption
  <2> QED BY <2>1, <2>2, <2>3, <2>4, <2>7, <2>8, InvFacts, Step
<1> QED BY <1>1, <1>2, <1>3

\* The steps commands share.
LEMMA SharedSteps ==
  ASSUME IInv,
         \/ Publish \/ Stop
         \/ \E c \in Callers : LoadConfig(c)
         \/ \E o \in Owners, k \in Kinds : \E v \in Choices(k) : Preview(o, k, v)
  PROVE  IInv'
<1>1. CASE Publish
  <2>1. /\ run.step = "publish" /\ file' = run.config /\ staged' = staged \cup run.arg /\ run' = Idle
        /\ UNCHANGED <<ledger, audit, snap, held, stops>>
    BY <1>1 DEF Publish
  <2>2. ledger \in Ledger /\ Fits(run.config, ledger) /\ run.arg \subseteq Rows
    BY <2>1, InvFacts DEF RunFits
  <2>3. InOneCurrency' /\ Advanced
    BY <2>1, InvFacts, StaysAdvanced DEF InOneCurrency
  <2> QED BY <2>1, <2>2, <2>3, InvFacts, FitsIsFile, IdleFits, Step
<1>2. CASE Stop
  <2>1. ledger \in Ledger
    BY <1>2, InvFacts DEF Stop, Free, RunFits
  <2>2. run' = Idle /\ UNCHANGED <<ledger, audit, file, staged, snap, held>>
    BY <1>2 DEF Stop
  <2>3. InOneCurrency' /\ Advanced
    BY <2>2, InvFacts, StaysAdvanced DEF InOneCurrency
  <2> QED BY <2>1, <2>2, <2>3, InvFacts, IdleFits, Step
<1>3. ASSUME NEW c \in Callers, LoadConfig(c)
      PROVE  IInv'
  <2>1. /\ Loads /\ snap' = [snap EXCEPT ![c] = CurrencyOf(Loaded)]
        /\ UNCHANGED <<ledger, audit, file, staged, run, held, stops>>
    BY <1>3 DEF LoadConfig
  <2>2. ledger \in Ledger /\ Fits(file, ledger) /\ CurrencyOf(Loaded) \in Currencies
    BY <2>1, InvFacts, LoadedFits DEF Loads
  <2>3. snap' \in [Callers -> Currencies \cup {None}]
    BY <2>1, <2>2, InvFacts
  <2>4. RunFits' /\ InOneCurrency' /\ Advanced
    BY <2>1, InvFacts, StaysAdvanced DEF RunFits, InOneCurrency
  <2>5. run'.step = "goals" => run'.arg.kind = "goals" /\ run'.arg.event = audit.goalsHead
    BY <2>1, InvFacts DEF PlansAreOld
  <2>6. file' # None
    BY <2>1 DEF Loads
  <2> QED BY <2>1, <2>2, <2>3, <2>4, <2>5, <2>6, InvFacts, Step
<1>4. ASSUME NEW o \in Owners, NEW k, NEW v, Preview(o, k, v)
      PROVE  IInv'
  <2>1. file # None /\ UNCHANGED <<ledger, audit, file, staged, run, snap, stops>>
    BY <1>4 DEF Preview
  <2>2. ledger \in Ledger /\ Fits(file, ledger)
    BY <2>1, InvFacts
  <2>3. RunFits' /\ InOneCurrency' /\ Advanced
    BY <2>1, InvFacts, StaysAdvanced DEF RunFits, InOneCurrency
  <2>4. run'.step = "goals" => run'.arg.kind = "goals" /\ run'.arg.event = audit.goalsHead
    BY <2>1, InvFacts DEF PlansAreOld
  <2> QED BY <2>1, <2>2, <2>3, <2>4, InvFacts, Step
<1> QED BY <1>1, <1>2, <1>3, <1>4

\* A new currency of a company without activity.
LEMMA SetCurrencyStep ==
  ASSUME IInv, NEW o, NEW code \in Currencies, SetCurrency(o, code)
  PROVE  IInv'
<1> DEFINE l == WithCurrency(ledger, CurrencyOf(Loaded), code, "set")
           config == [Loaded EXCEPT !.currency = code, !.source = "set"]
<1>1. /\ Locked /\ ~Activity /\ Seal(l, audit) /\ file' = Loaded /\ run' = Run("publish", config, {})
      /\ UNCHANGED <<staged, snap, held, stops>>
  BY DEF SetCurrency
<1>2. /\ ledger \in Ledger /\ CurrencyOf(Loaded) \in Currencies /\ Loaded \in File /\ Fits(Loaded, ledger)
  BY <1>1, LockedFacts
<1>3. /\ l \in Ledger /\ l.currency = code /\ l.entries = ledger.entries /\ Accounts(l) = Accounts(ledger)
  BY <1>2, WithCurrencyType DEF Sources
<1>4. /\ config \in File /\ Same(Loaded, config) /\ Loaded.goals = config.goals /\ Named(config) = Named(Loaded)
  <2>1. config \in File
    BY <1>2 DEF File, Sources
  <2>2. Same(Loaded, config) /\ Loaded.goals = config.goals /\ Named(config) = Named(Loaded)
    BY <1>2 DEF File, Sources, Same, Named
  <2>3. QED
    BY <2>1, <2>2
<1>5. \A r \in Rows : ledger.entries[r] = None
  BY <1>1 DEF Activity, Posted
<1> HIDE DEF l, config
<1>6. ledger' = l /\ Advanced
  BY <1>1, InvFacts, SealAdvances
<1>7. Fits(config, l)
  BY <1>2, <1>3, <1>4, SettingsAssumption DEF Fits
<1> QED BY <1>1, <1>3, <1>4, <1>5, <1>6, <1>7, InvFacts, LockedFacts, SettingsAssumption, CommitThenPublish

\* An import books in the currency that its command line loaded, or in one that a
\* company without activity adopts.
LEMMA ResolvedFacts ==
  ASSUME IInv, Locked, NEW c \in Callers, NEW named \in Currencies \cup {None}, snap[c] # None,
         Resolved(c, named) # None
  PROVE  /\ Resolved(c, named) \in Currencies /\ Adopting(c, named) \in BOOLEAN
         /\ Adopting(c, named) => /\ \A r \in Rows : ledger.entries[r] = None
                                  /\ Resolved(c, named) # CurrencyOf(Loaded)
<1>1. snap[c] \in Currencies /\ CurrencyOf(Loaded) \in Currencies
  BY InvFacts, LockedFacts
<1> QED BY <1>1 DEF Resolved, Adopting, Activity, Posted

\* What a company adopts fits the ledger that adopted it.
LEMMA AdoptedFits ==
  ASSUME IInv, Locked, NEW l, NEW code \in Currencies, Accounts(ledger) \subseteq Accounts(l), l.currency = code
  PROVE  /\ Fits(Adopted(code), l) /\ Same(Loaded, Adopted(code)) /\ Loaded.goals = Adopted(code).goals
<1>1. Loaded \in File /\ Fits(Loaded, ledger)
  BY LockedFacts
<1>2. /\ Adopted(code) \in File /\ Same(Loaded, Adopted(code)) /\ Loaded.goals = Adopted(code).goals
      /\ Named(Adopted(code)) = Named(Loaded)
  <2>1. Adopted(code) \in File
    <3>1. code \in Currencies \cup {None} /\ "inferred" \in Sources
      BY DEF Sources
    <3>2. \A f \in File : [f EXCEPT !.currency = code] \in File
      BY ONLY <3>1 DEF File
    <3>3. \A f \in File : [f EXCEPT !.source = "inferred"] \in File
      BY ONLY <3>1 DEF File
    <3>4. Adopted(code) = [[Loaded EXCEPT !.currency = code] EXCEPT !.source = "inferred"]
      BY DEF Adopted
    <3>5. QED
      BY ONLY <1>1, <3>2, <3>3, <3>4
  <2>2. Same(Loaded, Adopted(code)) /\ Loaded.goals = Adopted(code).goals
    BY <1>1 DEF Adopted, File, Same
  <2>3. Named(Adopted(code)) = Named(Loaded)
    BY <1>1 DEF Adopted, File, Named
  <2>4. QED
    BY <2>1, <2>2, <2>3
<1> QED BY <1>1, <1>2, SettingsAssumption DEF Fits

\* A posted row is in the currency of the books, whether or not they adopt it now.
LEMMA PostStep ==
  ASSUME IInv, Locked, NEW r \in Rows, NEW code \in Currencies, NEW adopting \in BOOLEAN,
         adopting => \A q \in Rows : ledger.entries[q] = None,
         Post(r, code, adopting), file' = Loaded,
         staged' \subseteq Rows, snap' \in [Callers -> Currencies \cup {None}]
  PROVE  IInv'
<1> DEFINE previous == CurrencyOf(Loaded)
           l == IF adopting THEN WithCurrency(ledger, previous, code, "inferred") ELSE ledger
           missing == {n \in {AccountOf[r]} : l.accounts[n] = None}
           m == [l EXCEPT !.entries[r] = code, !.accounts = Opened(l.accounts, missing, code)]
<1>1. /\ code = BookCurrency(l, previous) /\ Seal(m, audit)
      /\ run' = IF adopting THEN Run("publish", Adopted(code), {}) ELSE Idle
  BY DEF Post
<1>2. /\ ledger \in Ledger /\ previous \in Currencies /\ previous = BookCurrency(ledger, Default)
      /\ Fits(Loaded, ledger)
  BY LockedFacts
<1>3. /\ l \in Ledger /\ l.entries = ledger.entries /\ Accounts(l) = Accounts(ledger)
      /\ l.currency = IF adopting THEN code ELSE ledger.currency
  <2>1. CASE adopting
    BY <1>2, <2>1, WithCurrencyType DEF Sources
  <2>2. CASE ~adopting
    BY <1>2, <2>2
  <2> QED BY <2>1, <2>2
<1>4. /\ m \in Ledger /\ m.currency = l.currency /\ Accounts(l) \subseteq Accounts(m)
      /\ m.entries[r] = code /\ \A q \in Rows : q # r => m.entries[q] = ledger.entries[q]
  <2> DEFINE opened == Opened(l.accounts, missing, code)
             posted == [l.entries EXCEPT ![r] = code]
  <2> HIDE DEF l, missing
  <2>1. l.accounts \in [Names -> Currencies \cup {None}] /\ l.entries \in [Rows -> Currencies \cup {None}]
    BY <1>3 DEF Ledger
  <2>2. /\ opened \in [Names -> Currencies \cup {None}]
        /\ \A n \in Names : l.accounts[n] # None => opened[n] # None
    BY <2>1, OpenedType, SettingsAssumption
  <2>3. posted \in [Rows -> Currencies \cup {None}] /\ posted[r] = code
        /\ \A q \in Rows : q # r => posted[q] = l.entries[q]
    BY <2>1
  <2>4. m = [l EXCEPT !.entries = posted, !.accounts = opened]
    BY <1>3 DEF Ledger
  <2> HIDE DEF opened, posted, m
  <2>5. /\ m \in Ledger /\ m.currency = l.currency /\ m.entries = posted /\ m.accounts = opened
    BY <1>3, <2>2, <2>3, <2>4 DEF Ledger
  <2> QED BY <1>3, <2>2, <2>3, <2>5 DEF Accounts
<1>5. InOneCurrency /\ code # None
  BY InvFacts, SettingsAssumption
<1> HIDE DEF m
<1>6. ledger' = m /\ Advanced
  BY <1>1, InvFacts, SealAdvances
<1>7. InOneCurrency'
  <2>1. CASE adopting
    BY <1>3, <1>4, <1>5, <1>6, <2>1 DEF InOneCurrency, BookCurrency
  <2>2. CASE ~adopting
    <3>1. code = previous /\ BookCurrency(m, Default) = previous
      BY <1>1, <1>2, <1>3, <1>4, <2>2 DEF BookCurrency
    <3>2. \A q \in Rows : m.entries[q] \in {None, previous}
      BY <1>2, <1>4, <1>5, <3>1, InvFacts DEF InOneCurrency
    <3> QED BY <1>6, <3>1, <3>2 DEF InOneCurrency
  <2> QED BY <2>1, <2>2
<1>8. /\ Fits(file', ledger') /\ Fits(Loaded, m)
  <2>1. m.currency = None => ledger.currency = None
    BY <1>3, <1>4, <1>5
  <2> QED BY <1>2, <1>3, <1>4, <1>6, <2>1, FitsGrows
<1>9. RunFits' /\ run'.step # "goals"
  <2>1. CASE adopting
    <3>1. m.currency = code /\ Accounts(ledger) \subseteq Accounts(m)
      BY <1>3, <1>4, <2>1
    <3>2. /\ Fits(Adopted(code), m) /\ Same(Loaded, Adopted(code)) /\ Loaded.goals = Adopted(code).goals
      BY <3>1, AdoptedFits
    <3> QED BY <1>1, <1>4, <1>6, <2>1, <3>2, PublishFits, SettingsAssumption
  <2>2. CASE ~adopting
    BY <1>1, <2>2, IdleFits
  <2> QED BY <2>1, <2>2
<1> QED BY <1>4, <1>6, <1>7, <1>8, <1>9, FitsIsFile, Step

\* Imports and confirmations.
LEMMA ImportSteps ==
  ASSUME IInv, NEW c \in Callers, NEW r \in Rows, NEW named \in Currencies \cup {None},
         ImportPosts(c, r, named) \/ ImportStages(c, r, named) \/ Confirm(c, r)
  PROVE  IInv'
<1>1. /\ Locked /\ snap[c] # None /\ file' = Loaded /\ snap' = [snap EXCEPT ![c] = None]
  BY DEF ImportPosts, ImportStages, Confirm
<1>2. snap' \in [Callers -> Currencies \cup {None}] /\ snap[c] \in Currencies
  BY <1>1, InvFacts
<1>3. CASE ImportPosts(c, r, named)
  <2>1. Resolved(c, named) # None /\ Post(r, Resolved(c, named), Adopting(c, named)) /\ staged' = staged
    BY <1>3 DEF ImportPosts
  <2>2. /\ Resolved(c, named) \in Currencies /\ Adopting(c, named) \in BOOLEAN
        /\ Adopting(c, named) => \A q \in Rows : ledger.entries[q] = None
    BY <1>1, <2>1, ResolvedFacts
  <2> QED BY <1>1, <1>2, <2>1, <2>2, InvFacts, PostStep
<1>4. CASE ImportStages(c, r, named)
  <2> DEFINE code == Resolved(c, named)
             l == WithCurrency(ledger, snap[c], code, "inferred")
  <2>1. code # None
    BY <1>4 DEF ImportStages
  <2>2. /\ code \in Currencies
        /\ Adopting(c, named) => \A q \in Rows : ledger.entries[q] = None
    BY <1>1, <2>1, ResolvedFacts
  <2>3. ledger \in Ledger /\ Fits(Loaded, ledger)
    BY <1>1, LockedFacts
  <2>4. CASE Adopting(c, named)
    <3>1. Seal(l, audit) /\ run' = Run("publish", Adopted(code), {r}) /\ UNCHANGED staged
      BY <1>4, <2>4 DEF ImportStages
    <3>2. l \in Ledger /\ l.currency = code /\ l.entries = ledger.entries /\ Accounts(l) = Accounts(ledger)
      BY <1>2, <2>2, <2>3, WithCurrencyType DEF Sources
    <3> HIDE DEF l, code
    <3>3. ledger' = l /\ Advanced
      BY <3>1, InvFacts, SealAdvances
    <3>4. /\ Fits(Adopted(code), l) /\ Same(Loaded, Adopted(code)) /\ Loaded.goals = Adopted(code).goals
      BY <1>1, <2>2, <3>2, AdoptedFits
    <3> QED BY <1>1, <1>2, <2>2, <2>4, <3>1, <3>2, <3>3, <3>4, InvFacts, SettingsAssumption, CommitThenPublish
  <2>5. CASE ~Adopting(c, named)
    <3>1. staged' = staged \cup {r} /\ UNCHANGED <<ledger, audit, run>>
      BY <1>4, <2>5 DEF ImportStages
    <3>3. RunFits' /\ run'.step # "goals"
      BY <1>1, <3>1, InvFacts, FreeFits DEF Locked
    <3>4. InOneCurrency' /\ Advanced
      BY <3>1, InvFacts, StaysAdvanced DEF InOneCurrency
    <3>5. file' # None
      BY <1>1, LockedFacts, FitsIsFile
    <3> QED BY <1>1, <1>2, <2>3, <3>1, <3>3, <3>4, <3>5, InvFacts, Step
  <2> QED BY <2>4, <2>5
<1>5. CASE Confirm(c, r)
  BY <1>1, <1>2, <1>5, InvFacts, PostStep DEF Confirm
<1> QED BY <1>3, <1>4, <1>5

\* A new account, in the currency that the command line loaded.
LEMMA AddAccountStep ==
  ASSUME IInv, NEW c \in Callers, NEW a \in OwnNames, AddAccount(c, a)
  PROVE  IInv'
<1> DEFINE l == [ledger EXCEPT !.accounts[a] = snap[c]]
           added == IF ledger.accounts[a] = None THEN audit.added \cup {a} ELSE audit.added
<1>1. /\ Free /\ snap[c] # None /\ Seal(l, [audit EXCEPT !.added = added])
      /\ file' = Loaded /\ snap' = [snap EXCEPT ![c] = None] /\ UNCHANGED <<staged, run, held, stops>>
  BY DEF AddAccount
<1>2. /\ snap[c] \in Currencies /\ ledger \in Ledger /\ Fits(file, ledger)
      /\ snap' \in [Callers -> Currencies \cup {None}]
  BY <1>1, InvFacts
<1>3. Fits(Loaded, ledger)
  BY <1>2, LoadedFits
<1>4. /\ l \in Ledger /\ l.entries = ledger.entries /\ l.currency = ledger.currency
      /\ Accounts(ledger) \subseteq Accounts(l)
  <2> DEFINE accounts == [ledger.accounts EXCEPT ![a] = snap[c]]
  <2>1. accounts \in [Names -> Currencies \cup {None}] /\ \A n \in Names : accounts[n] \in {snap[c], ledger.accounts[n]}
    BY <1>2 DEF Ledger
  <2>2. l = [ledger EXCEPT !.accounts = accounts]
    BY <1>2 DEF Ledger
  <2> HIDE DEF accounts, l
  <2>3. l \in Ledger /\ l.entries = ledger.entries /\ l.currency = ledger.currency /\ l.accounts = accounts
    BY <1>2, <2>1, <2>2 DEF Ledger
  <2> QED BY <1>1, <2>1, <2>3 DEF Accounts
<1>5. added \in SUBSET OwnNames
  BY InvFacts
<1> HIDE DEF l, added
<1>6. ledger' = l /\ Advanced
  BY <1>1, <1>5, InvFacts, SealAddedAdvances
<1>7. RunFits' /\ run'.step # "goals"
  BY <1>1, InvFacts, FreeFits
<1>8. InOneCurrency'
  BY <1>2, <1>4, <1>6, InvFacts, SameBooks
<1>9. Fits(file', ledger')
  BY <1>1, <1>3, <1>4, <1>6, FitsGrows
<1> QED BY <1>1, <1>2, <1>4, <1>6, <1>7, <1>8, <1>9, FitsIsFile, InvFacts, Step

\* A plan that covers the last event it could, once used, is old.
LEMMA PlanIsUsed ==
  ASSUME TypeOK, PlansAreOld, NEW plan, audit'.head = audit.head + 1,
         audit'.plans = audit.plans \cup {Used(plan)}, run'.step # "goals",
         \/ plan.kind = "remove" /\ plan.event = audit.head /\ audit'.goalsHead = audit.goalsHead
         \/ plan.kind = "goals" /\ plan.event = audit.goalsHead /\ audit'.goalsHead = audit.head + 1
  PROVE  PlansAreOld'
<1>1. audit.head \in Nat /\ audit.goalsHead \in Nat /\ audit.goalsHead <= audit.head
  BY SettingsAssumption DEF TypeOK, PlansAreOld
<1>2. Used(plan) = [event |-> audit.head + 1, plan |-> plan] /\ Used(plan).plan = plan
  BY DEF Used
<1>3. ASSUME NEW u \in audit.plans
      PROVE  /\ u = [event |-> u.event, plan |-> u.plan] /\ u.plan.event \in Nat
             /\ \/ u.plan.kind = "remove" /\ u.plan.event < audit.head
                \/ u.plan.kind = "goals" /\ u.plan.event < audit.goalsHead
  BY DEF PlansAreOld
<1>4. \A u \in audit.plans : u.plan # plan
  BY <1>1, <1>3
<1>5. PlanUsedOnce'
  BY <1>2, <1>4 DEF PlansAreOld, PlanUsedOnce
<1>6. ASSUME NEW u \in audit'.plans
      PROVE  /\ u = [event |-> u.event, plan |-> u.plan]
             /\ u.plan.event \in Nat
             /\ \/ u.plan.kind = "remove" /\ u.plan.event < audit'.head
                \/ u.plan.kind = "goals" /\ u.plan.event < audit'.goalsHead
  <2>1. CASE u \in audit.plans
    BY <1>1, <1>3, <2>1
  <2>2. CASE u = Used(plan)
    BY <1>1, <1>2, <2>2
  <2> QED BY <2>1, <2>2
<1> QED BY <1>1, <1>5, <1>6 DEF PlansAreOld

\* An owner takes an account out of the catalog that nothing names.
LEMMA RemoveAccountStep ==
  ASSUME IInv, NEW o \in Owners, NEW a \in OwnNames, RemoveAccount(o, a)
  PROVE  IInv'
<1> DEFINE l == [ledger EXCEPT !.accounts[a] = None]
           b == [audit EXCEPT !.added = audit.added \ {a}, !.plans = audit.plans \cup {Used(held[o])}]
<1>1. /\ Free /\ held[o] = Plan("remove", a) /\ a \in Catalog /\ a \notin Named(file) /\ Seal(l, b)
      /\ UNCHANGED <<file, staged, run, snap, held, stops>>
  BY DEF RemoveAccount, Previewed
<1>2. file # None => ledger \in Ledger /\ Fits(file, ledger)
  BY InvFacts
<1>3. ledger \in Ledger
  BY InvFacts DEF RemoveAccount
<1>4. /\ l \in Ledger /\ l.entries = ledger.entries /\ l.currency = ledger.currency
      /\ Accounts(ledger) \ {a} \subseteq Accounts(l)
  <2> DEFINE accounts == [ledger.accounts EXCEPT ![a] = None]
  <2>1. accounts \in [Names -> Currencies \cup {None}] /\ \A n \in Names \ {a} : accounts[n] = ledger.accounts[n]
    BY <1>3 DEF Ledger
  <2>2. l = [ledger EXCEPT !.accounts = accounts]
    BY <1>3 DEF Ledger
  <2> HIDE DEF accounts, l
  <2>3. l \in Ledger /\ l.entries = ledger.entries /\ l.currency = ledger.currency /\ l.accounts = accounts
    BY <1>3, <2>1, <2>2 DEF Ledger
  <2> QED BY <2>1, <2>3 DEF Accounts
<1>5. /\ audit' = [b EXCEPT !.head = audit.head + 1, !.sealed = l] /\ ledger' = l /\ audit.head < MaxEvents
  BY <1>1 DEF Seal
<1>6. /\ AuditShape' /\ audit'.head = audit.head + 1 /\ audit'.added \subseteq OwnNames
      /\ audit'.goalsHead = audit.goalsHead /\ audit'.plans = audit.plans \cup {Used(held[o])}
  BY <1>5, InvFacts DEF AuditShape
<1>7. held[o].kind = "remove" /\ held[o].event = audit.head
  BY <1>1 DEF Plan
<1> HIDE DEF l, b
<1>8. RunFits' /\ run'.step # "goals"
  BY <1>1, InvFacts, FreeFits
<1>9. PlansAreOld'
  BY <1>6, <1>7, <1>8, InvFacts, PlanIsUsed
<1>10. InOneCurrency'
  BY <1>3, <1>4, <1>5, InvFacts, SameBooks
<1>11. file' # None => Fits(file', ledger')
  BY <1>1, <1>2, <1>4, <1>5 DEF Fits
<1>12. audit'.head \in 0..MaxEvents
  BY <1>5, <1>6, SettingsAssumption, InvFacts DEF TypeOK
<1> QED BY <1>1, <1>4, <1>5, <1>6, <1>8, <1>9, <1>10, <1>11, <1>12, InvFacts, StepParts

\* Another starter chart of books without entries.
LEMMA StarterStep ==
  ASSUME IInv, NEW t \in DOMAIN Charts, ApplyStarterAccounts(t)
  PROVE  IInv'
<1> DEFINE chart == Charts[t] \cup (IF Loaded.basis = "accrual" THEN AccrualNames ELSE {})
           missing == chart \ Catalog
           removed == ((Charts[Loaded.business] \ chart) \cap Catalog) \ Named(Loaded)
           accounts == Opened(Opened(ledger.accounts, removed, None), missing, CurrencyOf(Loaded))
           l == [ledger EXCEPT !.business = t, !.accounts = accounts]
           config == [Loaded EXCEPT !.business = t]
<1>1. /\ Locked /\ Posted(ledger) = {} /\ file' = Loaded
      /\ (IF l # ledger THEN Seal(l, audit) ELSE UNCHANGED <<ledger, audit>>)
      /\ run' = (IF Loaded.business # t THEN Run("publish", config, {}) ELSE Idle)
      /\ UNCHANGED <<staged, snap, held, stops>>
  BY DEF ApplyStarterAccounts
<1>2. /\ ledger \in Ledger /\ CurrencyOf(Loaded) \in Currencies /\ Loaded \in File /\ Fits(Loaded, ledger)
  BY <1>1, LockedFacts
<1>3. /\ accounts \in [Names -> Currencies \cup {None}]
      /\ \A n \in Names : n \notin missing \cup removed => accounts[n] = ledger.accounts[n]
  <2> HIDE DEF missing, removed
  <2> QED BY <1>2 DEF Opened, Ledger
<1>4. \A n \in Named(Loaded) : n \in Accounts(ledger) /\ n \notin missing \cup removed
  BY <1>2 DEF Fits, Accounts, Catalog
<1> HIDE DEF accounts
<1>5. /\ l \in Ledger /\ l.entries = ledger.entries /\ l.currency = ledger.currency /\ l.accounts = accounts
  BY <1>2, <1>3 DEF Ledger
<1>6. Fits(Loaded, l)
  <2> HIDE DEF missing, removed
  <2> QED BY <1>2, <1>3, <1>4, <1>5 DEF Fits, Accounts
<1>7. /\ config \in File /\ Same(Loaded, config) /\ Loaded.goals = config.goals
      /\ Named(config) = Named(Loaded) /\ config.currency = Loaded.currency
  <2>1. config \in File
    BY <1>2 DEF File
  <2>2. Same(Loaded, config) /\ Loaded.goals = config.goals
    BY <1>2 DEF File, Same
  <2>3. Named(config) = Named(Loaded) /\ config.currency = Loaded.currency
    BY <1>2 DEF File, Named
  <2>4. QED
    BY <2>1, <2>2, <2>3
<1>8. Fits(config, l)
  BY <1>6, <1>7 DEF Fits
<1> HIDE DEF l, config
<1>9. ledger' = l /\ Advanced
  BY <1>1, InvFacts, SealAdvances, StaysAdvanced
<1>10. RunFits' /\ run'.step # "goals"
  <2>1. CASE run' = Idle
    BY <2>1, IdleFits
  <2>2. CASE run' = Run("publish", config, {})
    BY <1>1, <1>5, <1>7, <1>8, <1>9, <2>2, InvFacts, PublishFits
  <2> QED BY <1>1, <2>1, <2>2
<1>11. InOneCurrency'
  BY <1>2, <1>5, <1>9, InvFacts, SameBooks
<1>12. Fits(file', ledger') /\ file' # None
  BY <1>1, <1>6, <1>9, FitsIsFile
<1> QED BY <1>1, <1>5, <1>9, <1>10, <1>11, <1>12, InvFacts, Step

\* Books without entries are set up on a basis.
LEMMA CommitBasisStep ==
  ASSUME IInv, ledger \in Ledger, file # None, NEW basis \in Bases, CommitBasis(basis),
         file' \in {file, Loaded}, UNCHANGED <<staged, snap>>
  PROVE  IInv'
<1> DEFINE names == IF basis = "accrual" THEN AccrualNames ELSE {}
           accounts == Opened(ledger.accounts, names, Default)
           schema == IF basis = "accrual" THEN 2 ELSE ledger.schema
           capability == IF basis = "accrual" THEN 1 ELSE 0
           l == [ledger EXCEPT !.basis = basis, !.schema = schema, !.accounts = accounts]
           config == [Loaded EXCEPT !.basis = basis, !.capability = capability]
<1>1. Seal(l, audit) /\ run' = Run("publish", config, {})
  BY DEF CommitBasis
<1>2. Fits(Loaded, ledger) /\ Loaded \in File
  BY InvFacts, LoadedFits DEF Fits
<1>3. /\ accounts \in [Names -> Currencies \cup {None}]
      /\ \A n \in Names : ledger.accounts[n] # None => accounts[n] # None
  BY SettingsAssumption, OpenedType DEF Ledger, Default
<1>4. schema \in {1, 2} /\ capability \in {0, 1}
  BY DEF Ledger
<1> HIDE DEF accounts, schema, capability
<1>5. /\ l \in Ledger /\ l.entries = ledger.entries /\ l.currency = ledger.currency /\ l.accounts = accounts
  BY <1>3, <1>4 DEF Ledger
<1>6. /\ config \in File /\ Same(Loaded, config) /\ Loaded.goals = config.goals
      /\ Named(config) = Named(Loaded) /\ config.currency = Loaded.currency
  <2>1. config \in File
    BY <1>2, <1>4 DEF File
  <2>2. Same(Loaded, config) /\ Loaded.goals = config.goals
    BY <1>2, <1>4 DEF File, Same
  <2>3. Named(config) = Named(Loaded) /\ config.currency = Loaded.currency
    BY <1>2, <1>4 DEF File, Named
  <2>4. QED
    BY <2>1, <2>2, <2>3
<1>7. Accounts(ledger) \subseteq Accounts(l)
  BY <1>3, <1>5 DEF Accounts
<1>8. Fits(config, l)
  BY <1>2, <1>5, <1>6, <1>7 DEF Fits
<1> HIDE DEF l, config
<1>9. ledger' = l /\ Advanced
  BY <1>1, InvFacts, SealAdvances
<1> QED BY <1>1, <1>5, <1>6, <1>7, <1>8, <1>9, InvFacts, CommitThenPublish

\* Accrual tracking starts.
LEMMA CommitEnableStep ==
  ASSUME IInv, ledger \in Ledger, file # None, NEW day \in Days, CommitEnable(day),
         file' \in {file, Loaded}, UNCHANGED <<staged, snap>>
  PROVE  IInv'
<1> DEFINE accounts == Opened(ledger.accounts, AccrualNames \ Catalog, CurrencyOf(Loaded))
           receipts == ledger.receipts \cup {day}
           l == [ledger EXCEPT !.schema = 2, !.tracking = day, !.receipts = receipts, !.accounts = accounts]
<1>1. Seal(l, audit) /\ run' = Run("publish", Tracked(day), {})
  BY DEF CommitEnable
<1>2. Fits(Loaded, ledger) /\ Loaded \in File /\ CurrencyOf(Loaded) \in Currencies
  BY InvFacts, LoadedFits DEF Fits
<1>3. /\ accounts \in [Names -> Currencies \cup {None}]
      /\ \A n \in Names : ledger.accounts[n] # None => accounts[n] # None
  BY <1>2, SettingsAssumption, OpenedType DEF Ledger
<1>4. receipts \in SUBSET Days
  BY DEF Ledger
<1> HIDE DEF accounts, receipts
<1>5. /\ l \in Ledger /\ l.entries = ledger.entries /\ l.currency = ledger.currency /\ l.accounts = accounts
  BY <1>3, <1>4 DEF Ledger
<1>6. /\ Tracked(day) \in File /\ Same(Loaded, Tracked(day)) /\ Loaded.goals = Tracked(day).goals
      /\ Named(Tracked(day)) = Named(Loaded) /\ Tracked(day).currency = Loaded.currency
  <2>1. Tracked(day) \in File
    BY <1>2 DEF Tracked, File
  <2>2. Same(Loaded, Tracked(day)) /\ Loaded.goals = Tracked(day).goals
    BY <1>2 DEF Tracked, File, Same
  <2>3. Named(Tracked(day)) = Named(Loaded) /\ Tracked(day).currency = Loaded.currency
    BY <1>2 DEF Tracked, File, Named
  <2>4. QED
    BY <2>1, <2>2, <2>3
<1>7. Accounts(ledger) \subseteq Accounts(l)
  BY <1>3, <1>5 DEF Accounts
<1>8. Fits(Tracked(day), l)
  BY <1>2, <1>5, <1>6, <1>7 DEF Fits
<1> HIDE DEF l
<1>9. ledger' = l /\ Advanced
  BY <1>1, InvFacts, SealAdvances
<1> QED BY <1>1, <1>5, <1>6, <1>7, <1>8, <1>9, InvFacts, CommitThenPublish

\* The schema of the books goes up first, in a transaction of its own.
LEMMA UpgradeStep ==
  ASSUME IInv, Locked, Seal([ledger EXCEPT !.schema = 2], audit), file' = Loaded, UNCHANGED <<staged, snap>>,
         NEW arg,
         \/ run' = Run("basis", None, arg) /\ arg \in Bases
         \/ run' = Run("enable", None, arg) /\ arg \in Days
  PROVE  IInv'
<1> DEFINE l == [ledger EXCEPT !.schema = 2]
<1>1. /\ ledger \in Ledger /\ Fits(Loaded, ledger)
  BY LockedFacts
<1>2. /\ l \in Ledger /\ l.entries = ledger.entries /\ l.currency = ledger.currency
      /\ l.accounts = ledger.accounts
  BY <1>1 DEF Ledger
<1> HIDE DEF l
<1>3. ledger' = l /\ Advanced
  BY InvFacts, SealAdvances DEF l
<1>4. Fits(file', ledger') /\ file' # None
  BY <1>1, <1>2, <1>3, FitsGrows, FitsIsFile DEF Accounts
<1>5. RunFits' /\ run'.step # "goals"
  <2>1. /\ run'.step \in {"basis", "enable"} /\ run'.arg = arg /\ run' = Run(run'.step, run'.config, run'.arg)
        /\ run'.step = "basis" => arg \in Bases
        /\ run'.step = "enable" => arg \in Days
    BY DEF Run
  <2> QED BY <1>2, <1>3, <1>4, <2>1, InvFacts DEF RunFits, Steps, Annual
<1>6. InOneCurrency'
  BY <1>1, <1>2, <1>3, InvFacts, SameBooks
<1> QED BY <1>2, <1>3, <1>4, <1>5, <1>6, InvFacts, Step

\* The basis, the view and accrual tracking.
LEMMA BasisSteps ==
  ASSUME IInv,
         \/ \E b \in Bases : ConfigureBasis(b)
         \/ FinishBasis \/ FinishEnable
         \/ \E o \in Owners, b \in Bases : SetView(o, b)
         \/ \E o \in Owners, d \in Days : EnableAccrual(o, d) \/ RepeatEnable(o, d)
  PROVE  IInv'
<1>1. ASSUME NEW b \in Bases, ConfigureBasis(b)
      PROVE  IInv'
  <2>1. Locked /\ file' = Loaded /\ UNCHANGED <<staged, snap>>
    BY <1>1 DEF ConfigureBasis
  <2>2. CASE Seal([ledger EXCEPT !.schema = 2], audit) /\ run' = Run("basis", None, b)
    BY <2>1, <2>2, UpgradeStep
  <2>3. CASE CommitBasis(b)
    BY <2>1, <2>3, LockedFacts, CommitBasisStep
  <2> QED BY <1>1, <2>2, <2>3 DEF ConfigureBasis
<1>2. CASE FinishBasis
  <2>1. /\ run.step = "basis" /\ CommitBasis(run.arg) /\ UNCHANGED <<file, staged, snap, held, stops>>
    BY <1>2 DEF FinishBasis
  <2>2. run.arg \in Bases /\ file # None /\ ledger \in Ledger
    BY <2>1, InvFacts DEF RunFits
  <2> QED BY <2>1, <2>2, CommitBasisStep
<1>3. CASE FinishEnable
  <2>1. /\ run.step = "enable" /\ CommitEnable(run.arg) /\ UNCHANGED <<file, staged, snap, held, stops>>
    BY <1>3 DEF FinishEnable
  <2>2. run.arg \in Days /\ file # None /\ ledger \in Ledger
    BY <2>1, InvFacts DEF RunFits
  <2> QED BY <2>1, <2>2, CommitEnableStep
<1>4. ASSUME NEW o \in Owners, NEW b \in Bases, SetView(o, b)
      PROVE  IInv'
  <2> DEFINE l == [ledger EXCEPT !.basis = b]
             config == [Loaded EXCEPT !.basis = b]
  <2>1. /\ Locked /\ Seal(l, audit) /\ file' = Loaded /\ run' = Run("publish", config, {})
        /\ UNCHANGED <<staged, snap, held, stops>>
    BY <1>4 DEF SetView
  <2>2. ledger \in Ledger /\ file # None /\ Fits(Loaded, ledger) /\ Loaded \in File
    BY <2>1, LockedFacts
  <2>3. /\ l \in Ledger /\ l.entries = ledger.entries /\ l.currency = ledger.currency
        /\ l.accounts = ledger.accounts
    BY <2>2 DEF Ledger
  <2>4. /\ config \in File /\ Same(Loaded, config) /\ Loaded.goals = config.goals
        /\ Named(config) = Named(Loaded) /\ config.currency = Loaded.currency
    <3>1. config \in File
      BY <2>2 DEF File
    <3>2. Same(Loaded, config) /\ Loaded.goals = config.goals
      BY <2>2 DEF File, Same
    <3>3. Named(config) = Named(Loaded) /\ config.currency = Loaded.currency
      BY <2>2 DEF File, Named
    <3>4. QED
      BY <3>1, <3>2, <3>3
  <2>5. Accounts(ledger) \subseteq Accounts(l) /\ Fits(config, l)
    BY <2>2, <2>3, <2>4 DEF Fits, Accounts
  <2> HIDE DEF l, config
  <2>6. ledger' = l /\ Advanced
    BY <2>1, InvFacts, SealAdvances
  <2> QED BY <2>1, <2>2, <2>3, <2>4, <2>5, <2>6, InvFacts, CommitThenPublish
<1>5. ASSUME NEW o \in Owners, NEW d \in Days, EnableAccrual(o, d)
      PROVE  IInv'
  <2>1. Locked /\ file' = Loaded /\ UNCHANGED <<staged, snap>>
    BY <1>5 DEF EnableAccrual
  <2>2. CASE Seal([ledger EXCEPT !.schema = 2], audit) /\ run' = Run("enable", None, d)
    BY <2>1, <2>2, UpgradeStep
  <2>3. CASE CommitEnable(d)
    BY <2>1, <2>3, LockedFacts, CommitEnableStep
  <2> QED BY <1>5, <2>2, <2>3 DEF EnableAccrual
<1>6. ASSUME NEW o \in Owners, NEW d \in Days, RepeatEnable(o, d)
      PROVE  IInv'
  <2>1. /\ Locked /\ file' = Tracked(d) /\ UNCHANGED <<ledger, audit, staged, run, snap>>
    BY <1>6 DEF RepeatEnable
  <2>2. ledger \in Ledger /\ Loaded \in File /\ Fits(Loaded, ledger)
    BY <2>1, LockedFacts
  <2>3. /\ Tracked(d) \in File /\ Named(Tracked(d)) = Named(Loaded) /\ Tracked(d).currency = Loaded.currency
    <3>1. Tracked(d) \in File
      BY <2>2 DEF Tracked, File
    <3>2. Named(Tracked(d)) = Named(Loaded) /\ Tracked(d).currency = Loaded.currency
      BY <2>2 DEF Tracked, File, Named
    <3>3. QED
      BY <3>1, <3>2
  <2> QED BY <2>1, <2>2, <2>3, FileStep DEF Fits, Locked
<1> QED BY <1>1, <1>2, <1>3, <1>4, <1>5, <1>6

\* Settings that replace the file before their event commits.
LEMMA SettingSteps ==
  ASSUME IInv,
         \/ \E o \in Owners, v \in Values : SetFiscalYear(o, v) \/ SetTaxMethod(o, v) \/ SetTaxProfile(o, v)
         \/ CommitSetting
  PROVE  IInv'
<1>1. ASSUME NEW o \in Owners, NEW v \in Values, NEW k \in Annual, ReplaceFile(o, k, v)
      PROVE  IInv'
  <2>1. /\ Locked /\ file' = [Loaded EXCEPT ![k] = v] /\ run' = Run(k, None, v)
        /\ UNCHANGED <<ledger, audit, staged, snap, held, stops>>
    BY <1>1 DEF ReplaceFile
  <2>2. ledger \in Ledger /\ ledger # None /\ Loaded \in File /\ Fits(Loaded, ledger)
    BY <2>1, LockedFacts
  <2>3. file' \in File /\ Named(file') = Named(Loaded) /\ file'.currency = Loaded.currency
    BY <2>1, <2>2 DEF File, Named, Annual
  <2>4. Fits(file', ledger') /\ file' # None
    BY <2>1, <2>2, <2>3, InvFacts DEF Fits
  <2>5. RunFits' /\ run'.step # "goals"
    BY <2>1, <2>2, <2>4 DEF RunFits, Run, Steps, Annual
  <2>6. InOneCurrency' /\ Advanced
    BY <2>1, InvFacts, StaysAdvanced DEF InOneCurrency
  <2> QED BY <2>1, <2>2, <2>4, <2>5, <2>6, InvFacts, Step
<1>2. CASE CommitSetting
  <2>1. /\ run.step \in Annual /\ Seal(ledger, audit) /\ run' = Idle
        /\ UNCHANGED <<file, staged, snap, held, stops>>
    BY <1>2 DEF CommitSetting
  <2>2. ledger \in Ledger /\ Fits(file, ledger) /\ file # None
    BY <2>1, InvFacts DEF RunFits
  <2>3. ledger' = ledger /\ Advanced
    BY <2>1, InvFacts, SealAdvances
  <2>4. InOneCurrency'
    BY <2>3, InvFacts DEF InOneCurrency
  <2> QED BY <2>1, <2>2, <2>3, <2>4, InvFacts, IdleFits, Step
<1> QED BY <1>1, <1>2 DEF SetFiscalYear, SetTaxMethod, SetTaxProfile, Annual

\* The event of the goals is sealed with the plan that led to it.
LEMMA RecordGoalsFacts ==
  ASSUME IInv, ledger \in Ledger, NEW plan, RecordGoals(plan), plan.kind = "goals",
         plan.event = audit.goalsHead, run'.step # "goals"
  PROVE  /\ ledger' = ledger /\ AuditShape' /\ audit'.head \in 0..MaxEvents
         /\ audit'.added \subseteq OwnNames /\ PlansAreOld' /\ InOneCurrency'
<1>1. /\ ledger' = ledger /\ audit.head < MaxEvents
      /\ audit' = [audit EXCEPT !.goals = plan.to, !.goalsHead = audit.head + 1,
                                !.plans = audit.plans \cup {Used(plan)}, !.head = audit.head + 1, !.sealed = ledger]
  BY InvFacts DEF RecordGoals, Seal, AuditShape
<1>2. /\ AuditShape' /\ audit'.head = audit.head + 1 /\ audit'.added = audit.added
      /\ audit'.goalsHead = audit.head + 1 /\ audit'.plans = audit.plans \cup {Used(plan)}
  BY <1>1, InvFacts DEF AuditShape
<1>3. PlansAreOld'
  BY <1>2, InvFacts, PlanIsUsed
<1>4. audit'.head \in 0..MaxEvents /\ audit'.added \subseteq OwnNames
  BY <1>1, <1>2, InvFacts, SettingsAssumption DEF TypeOK
<1>5. InOneCurrency'
  BY <1>1, InvFacts DEF InOneCurrency
<1> QED BY <1>1, <1>2, <1>3, <1>4, <1>5

\* The reporting goals.
LEMMA GoalsSteps ==
  ASSUME IInv, (\E o \in Owners, v \in Values : SetGoals(o, v)) \/ CommitGoals \/ GoalsFail
  PROVE  IInv'
<1>1. ASSUME NEW o \in Owners, NEW v \in Values, SetGoals(o, v)
      PROVE  IInv'
  <2>1. /\ Locked /\ held[o] = Plan("goals", v) /\ UNCHANGED <<staged, snap>>
    BY <1>1 DEF SetGoals, Previewed
  <2>2. /\ ledger \in Ledger /\ ledger # None /\ Loaded \in File /\ Fits(Loaded, ledger)
        /\ Fits(file, ledger) /\ file # None /\ Same(file, Loaded)
    BY <2>1, LockedFacts
  <2>3. held[o].kind = "goals" /\ held[o].event = audit.goalsHead
    BY <2>1 DEF Plan
  <2>4. CASE Loaded.goals # v
    <3>1. /\ file' = [Loaded EXCEPT !.goals = v] /\ run' = Run("goals", file, held[o])
          /\ UNCHANGED <<ledger, audit>>
      BY <1>1, <2>4 DEF SetGoals
    <3>2. file' \in File /\ Named(file') = Named(Loaded) /\ file'.currency = Loaded.currency /\ Same(Loaded, file')
      BY <2>2, <3>1 DEF File, Named, Same
    <3>3. Fits(file', ledger') /\ file' # None
      BY <2>2, <3>1, <3>2, InvFacts DEF Fits
    <3>4. Same(file', file)
      BY <2>2, <3>2 DEF Same
    <3>5. RunFits' /\ run'.step = "goals" /\ run'.arg = held[o]
      BY <2>2, <3>1, <3>3, <3>4 DEF RunFits, Run, Steps, Annual
    <3>6. InOneCurrency' /\ Advanced
      BY <3>1, InvFacts, StaysAdvanced DEF InOneCurrency
    <3> QED BY <2>1, <2>2, <2>3, <3>1, <3>3, <3>5, <3>6, InvFacts, Step
  <2>5. CASE Loaded.goals = v
    <3>1. RecordGoals(held[o]) /\ UNCHANGED <<file, run>>
      BY <1>1, <2>5 DEF SetGoals
    <3>2. RunFits' /\ run'.step # "goals"
      BY <2>1, <3>1, InvFacts, FreeFits DEF Locked
    <3> QED BY <2>1, <2>2, <2>3, <3>1, <3>2, RecordGoalsFacts, InvFacts, StepParts
  <2> QED BY <2>4, <2>5
<1>2. CASE CommitGoals
  <2>1. /\ run.step = "goals" /\ RecordGoals(run.arg) /\ run' = Idle /\ UNCHANGED <<file, staged, snap, held, stops>>
    BY <1>2 DEF CommitGoals
  <2>2. ledger \in Ledger /\ file # None /\ Fits(file, ledger)
    BY <2>1, InvFacts DEF RunFits
  <2>3. run.arg.kind = "goals" /\ run.arg.event = audit.goalsHead
    BY <2>1, InvFacts DEF PlansAreOld
  <2>4. RunFits' /\ run'.step # "goals"
    BY <2>1, IdleFits
  <2> QED BY <2>1, <2>2, <2>3, <2>4, RecordGoalsFacts, InvFacts, StepParts
<1>3. CASE GoalsFail
  <2>1. /\ run.step = "goals" /\ file' = run.config /\ run' = Idle /\ UNCHANGED <<ledger, audit, staged, snap, held>>
    BY <1>3 DEF GoalsFail
  <2>2. ledger \in Ledger /\ Fits(run.config, ledger)
    BY <2>1, InvFacts DEF RunFits
  <2>3. InOneCurrency' /\ Advanced
    BY <2>1, InvFacts, StaysAdvanced DEF InOneCurrency
  <2> QED BY <2>1, <2>2, <2>3, InvFacts, FitsIsFile, IdleFits, Step
<1> QED BY <1>1, <1>2, <1>3

\* What only entity.json holds.
LEMMA FactSteps ==
  ASSUME IInv,
         \/ \E a \in Mapped : MapBankAccount(a) \/ RecordRelated(a)
         \/ \E n \in Notes : RecordFact(n)
         \/ ApproveRelated
  PROVE  IInv'
<1>1. /\ Locked /\ UNCHANGED <<ledger, audit, staged, run, snap>>
  BY DEF MapBankAccount, RecordRelated, RecordFact, ApproveRelated
<1>2. ledger \in Ledger /\ Loaded \in File /\ Fits(Loaded, ledger) /\ Same(file, Loaded)
  BY <1>1, LockedFacts
<1>3. ASSUME NEW a \in Mapped, MapBankAccount(a) \/ RecordRelated(a)
      PROVE  file' \in File /\ Named(file') \subseteq Named(Loaded) \cup {a} /\ file'.currency = Loaded.currency /\ a \in Catalog
  <2>1. a \in Names /\ a \in Catalog
    BY <1>3 DEF MapBankAccount, RecordRelated, Catalog
  <2>2. CASE MapBankAccount(a)
    BY <1>2, <2>1, <2>2 DEF MapBankAccount, File, Named
  <2>3. CASE RecordRelated(a)
    BY <1>2, <2>1, <2>3 DEF RecordRelated, File, Named
  <2> QED BY <1>3, <2>1, <2>2, <2>3
<1>4. ASSUME (\E n \in Notes : RecordFact(n)) \/ ApproveRelated
      PROVE  file' \in File /\ Named(file') = Named(Loaded) /\ file'.currency = Loaded.currency
  <2>1. CASE ApproveRelated
    BY <1>2, <2>1 DEF ApproveRelated, File, Named
  <2>2. ASSUME NEW n \in Notes, RecordFact(n)
        PROVE  file' \in File /\ Named(file') = Named(Loaded) /\ file'.currency = Loaded.currency
    <3>1. file' = [Loaded EXCEPT !.notes = Loaded.notes \cup {n}]
      BY <1>2, <2>2 DEF RecordFact, File
    <3>2. Loaded.notes \cup {n} \in SUBSET Notes
      BY <1>2 DEF File
    <3> QED BY <1>2, <3>1, <3>2 DEF File, Named
  <2> QED BY <1>4, <2>1, <2>2
<1>5. Fits(file', ledger)
  BY <1>2, <1>3, <1>4 DEF Fits, Accounts, Catalog
<1> QED BY <1>1, <1>2, <1>5, FileStep DEF Locked

-----------------------------------------------------------------------------
(* The theorems *)

\* The invariant holds at first.
LEMMA InitInv == Init => IInv
<1> SUFFICES ASSUME Init PROVE IInv
  OBVIOUS
<1>1. audit = [head |-> 0, sealed |-> None, goals |-> 0, goalsHead |-> 0, added |-> {}, plans |-> {}]
  BY DEF Init
<1>2. AuditShape /\ audit.head = 0 /\ audit.added = {} /\ audit.plans = {} /\ audit.goalsHead = 0
  BY <1>1 DEF AuditShape
<1>3. TypeOK /\ SnapsOfBooks
  BY <1>2, SettingsAssumption DEF Init, TypeOK, SnapsOfBooks
<1>4. run.step = "idle" /\ RunFits
  BY DEF Init, Idle, Run, RunFits, Steps, Annual
<1>5. PlansAreOld
  BY <1>2, <1>4 DEF PlansAreOld, PlanUsedOnce
<1> QED BY <1>2, <1>3, <1>4, <1>5 DEF Init, IInv, InOneCurrency

\* Every step keeps it.
LEMMA NextInv == IInv /\ [Next]_vars => IInv'
<1> SUFFICES ASSUME IInv, [Next]_vars PROVE IInv'
  OBVIOUS
<1>1. CASE UNCHANGED vars
  BY <1>1 DEF vars, IInv, TypeOK, SnapsOfBooks, RunFits, InOneCurrency, AuditShape, PlansAreOld, PlanUsedOnce
<1>2. CASE Next
  BY <1>2, InitSteps, SharedSteps, SetCurrencyStep, ImportSteps, AddAccountStep, RemoveAccountStep,
     StarterStep, BasisSteps, SettingSteps, GoalsSteps, FactSteps DEF Next
<1> QED BY <1>1, <1>2

\* The invariant of a company's two places.
THEOREM Invariance == Spec => []IInv
BY InitInv, NextInv, PTL DEF Spec

\* The company is in its types: a ledger without a file only while it is being made.
THEOREM TypeCorrect == Spec => []TypeOK
<1>1. IInv => TypeOK
  BY DEF IInv
<1> QED BY <1>1, Invariance, PTL

\* One company, one currency: whatever stops between the two stores, and whatever a
\* command line loaded before it waited for the lock, every entry is in the currency
\* that the next command loads (policy.py's resolution under the lock).
THEOREM OneCurrency == Spec => []EntriesInOneCurrency
<1>1. IInv => EntriesInOneCurrency
  <2> SUFFICES ASSUME IInv, Loads PROVE \A r \in Posted(ledger) : ledger.entries[r] = CurrencyOf(Loaded)
    BY DEF EntriesInOneCurrency
  <2>1. ledger \in Ledger /\ ledger # None /\ Fits(file, ledger)
    BY InvFacts DEF Loads
  <2>2. CurrencyOf(Loaded) = BookCurrency(ledger, Default)
    BY <2>1, LoadedFits
  <2> QED BY <2>1, <2>2, InvFacts DEF InOneCurrency, Posted
<1> QED BY <1>1, Invariance, PTL

\* An account that entity.json names is in the catalog, although account-remove and
\* the starter accounts read the one store and change the other.
THEOREM NamesInCatalog == Spec => []NamedAccountsExist
<1>1. IInv => NamedAccountsExist
  BY DEF IInv, Fits, NamedAccountsExist, Accounts, Catalog
<1> QED BY <1>1, Invariance, PTL

\* No plan is used for two events of the goals or of the catalog, even when the
\* company is back in the state that was previewed.
THEOREM UsedOnce == Spec => []PlanUsedOnce
<1>1. IInv => PlanUsedOnce
  BY DEF IInv, PlansAreOld
<1> QED BY <1>1, Invariance, PTL

\* What a step may do to entity.json.
KeepsOthers ==
  /\ file.notes \subseteq file'.notes
  /\ file'.mapped # file.mapped => Free /\ file'.mapped # None
  /\ file'.approved # file.approved => Free /\ file'.related # None
  /\ \A k \in Annual : file'[k] # file[k] => run'.step = k
  /\ file'.goals # file.goals => "goals" \in {run.step, run'.step}

\* A step that writes the file back, repaired at most, keeps everything.
LEMMA SameKeeps ==
  ASSUME Same(file, file'), file'.goals # file.goals => "goals" \in {run.step, run'.step}
  PROVE  KeepsOthers
BY DEF Same, KeepsOthers, Annual

\* Every step keeps what others recorded.
LEMMA NextKeeps ==
  ASSUME IInv, [Next]_vars, file # None
  PROVE  KeepsOthers
<1> DEFINE stays == file' = file \/ file' = Loaded
<1>1. ledger \in Ledger /\ Fits(file, ledger) /\ file \in File /\ None \notin File
  BY InvFacts
<1>2. /\ Same(file, Loaded) /\ Loaded.goals = file.goals /\ Fits(Loaded, ledger) /\ Loaded \in File
  BY <1>1, LoadedFits DEF Fits
<1>3. ASSUME stays
      PROVE  KeepsOthers
  BY <1>2, <1>3, SameKeeps DEF Same
<1>4. CASE UNCHANGED vars
  BY <1>3, <1>4 DEF vars
<1>5. CASE \E b \in Bases, t \in DOMAIN Charts : InitLedger(b, t) \/ InitAgain(b, t)
  BY <1>3, <1>5 DEF InitLedger, InitAgain
<1>6. CASE InitUpgrade \/ Stop
  BY <1>3, <1>6 DEF InitUpgrade, Stop
<1>7. CASE Publish
  <2>1. Same(file, file') /\ file'.goals = file.goals
    BY <1>7, InvFacts DEF Publish, RunFits
  <2> QED BY <2>1, SameKeeps
<1>8. CASE \/ \E c \in Callers : LoadConfig(c)
           \/ \E o \in Owners, k \in Kinds : \E v \in Choices(k) : Preview(o, k, v)
  BY <1>3, <1>8 DEF LoadConfig, Preview
<1>9. CASE \/ \E o \in Owners, k \in Currencies : SetCurrency(o, k)
           \/ \E c \in Callers, r \in Rows, k \in Currencies \cup {None} : ImportPosts(c, r, k)
           \/ \E c \in Callers, r \in Rows, k \in Currencies \cup {None} : ImportStages(c, r, k)
           \/ \E c \in Callers, r \in Rows : Confirm(c, r)
  BY <1>3, <1>9 DEF SetCurrency, ImportPosts, ImportStages, Confirm
<1>10. CASE \/ \E c \in Callers, a \in OwnNames : AddAccount(c, a)
            \/ \E o \in Owners, a \in OwnNames : RemoveAccount(o, a)
            \/ \E t \in DOMAIN Charts : ApplyStarterAccounts(t)
  BY <1>3, <1>10 DEF AddAccount, RemoveAccount, ApplyStarterAccounts
<1>11. CASE \/ \E b \in Bases : ConfigureBasis(b)
            \/ FinishBasis \/ FinishEnable
            \/ \E o \in Owners, b \in Bases : SetView(o, b)
            \/ \E o \in Owners, d \in Days : EnableAccrual(o, d)
            \/ CommitSetting \/ CommitGoals
  BY <1>3, <1>11 DEF ConfigureBasis, FinishBasis, FinishEnable, SetView, EnableAccrual, CommitSetting, CommitGoals
<1>12. ASSUME NEW o \in Owners, NEW d \in Days, RepeatEnable(o, d)
       PROVE  KeepsOthers
  <2>1. file' = [Loaded EXCEPT !.capability = 1, !.tracking = d]
    BY <1>12 DEF RepeatEnable, Tracked
  <2>2. Same(Loaded, file') /\ file'.goals = Loaded.goals
    BY <1>2, <2>1 DEF File, Same
  <2> QED BY <1>2, <2>2, SameKeeps DEF Same
<1>13. ASSUME NEW o \in Owners, NEW v \in Values, NEW k \in Annual, ReplaceFile(o, k, v)
       PROVE  KeepsOthers
  <2>1. file' = [Loaded EXCEPT ![k] = v] /\ run'.step = k
    BY <1>13 DEF ReplaceFile, Run
  <2>2. /\ file'.notes = Loaded.notes /\ file'.mapped = Loaded.mapped /\ file'.approved = Loaded.approved
        /\ file'.goals = Loaded.goals
    BY <1>2, <2>1 DEF File, Annual
  <2>3. \A i \in Annual : file'[i] # Loaded[i] => i = k
    BY <1>2, <2>1 DEF File, Annual
  <2>4. \A i \in Annual : Loaded[i] = file[i]
    BY <1>2 DEF Same, Annual
  <2> QED BY <1>2, <2>1, <2>2, <2>3, <2>4 DEF KeepsOthers, Same
<1>14. ASSUME NEW o \in Owners, NEW v \in Values, SetGoals(o, v)
       PROVE  KeepsOthers
  <2>1. CASE UNCHANGED file
    BY <1>3, <2>1
  <2>2. CASE file' = [Loaded EXCEPT !.goals = v] /\ run' = Run("goals", file, held[o])
    <3>1. Same(Loaded, file') /\ run'.step = "goals"
      BY <1>2, <2>2 DEF File, Same, Run
    <3> QED BY <1>2, <3>1, SameKeeps DEF Same
  <2> QED BY <1>14, <2>1, <2>2 DEF SetGoals
<1>15. CASE GoalsFail
  <2>1. run.step = "goals" /\ Same(file, file')
    BY <1>15, InvFacts DEF GoalsFail, RunFits
  <2> QED BY <2>1, SameKeeps
<1>16. ASSUME NEW a \in Mapped, MapBankAccount(a) \/ RecordRelated(a)
       PROVE  KeepsOthers
  <2>1. Free /\ a # None
    BY <1>16, SettingsAssumption DEF MapBankAccount, RecordRelated, Locked, Catalog
  <2>2. CASE file' = [Loaded EXCEPT !.mapped = a]
    BY <1>2, <2>1, <2>2 DEF KeepsOthers, File, Same, Annual
  <2>3. CASE file' = [Loaded EXCEPT !.related = a, !.approved = FALSE]
    BY <1>2, <2>1, <2>3 DEF KeepsOthers, File, Same, Annual
  <2> QED BY <1>16, <2>2, <2>3 DEF MapBankAccount, RecordRelated
<1>17. ASSUME NEW n \in Notes, RecordFact(n)
       PROVE  KeepsOthers
  <2>1. file' = [Loaded EXCEPT !.notes = Loaded.notes \cup {n}]
    BY <1>2, <1>17 DEF RecordFact, File
  <2> QED BY <1>2, <2>1 DEF KeepsOthers, File, Same, Annual
<1>18. CASE ApproveRelated
  <2>1. Free /\ file.related # None /\ file' = [Loaded EXCEPT !.approved = TRUE]
    BY <1>18 DEF ApproveRelated, Locked
  <2> QED BY <1>2, <2>1 DEF KeepsOthers, File, Same, Annual
<1> HIDE DEF stays
<1> QED BY <1>4, <1>5, <1>6, <1>7, <1>8, <1>9, <1>10, <1>11, <1>12, <1>13, <1>14, <1>15, <1>16, <1>17, <1>18
        DEF Next, SetFiscalYear, SetTaxMethod, SetTaxProfile, Annual

\* entity.json is rewritten as a whole by every command, and yet none takes back what
\* another recorded there: facts stay, a bank account stays mapped, and the goals and
\* the annual settings change only by their own commands (entity.replace).
THEOREM SettingsOfOthersKept == Spec => OthersSettingsKept
<1>1. IInv /\ [Next]_vars =>
        [file # None =>
           /\ file.notes \subseteq file'.notes
           /\ file'.mapped # file.mapped => Free /\ file'.mapped # None
           /\ file'.approved # file.approved => Free /\ file'.related # None
           /\ \A k \in Annual : file'[k] # file[k] => run'.step = k
           /\ file'.goals # file.goals => "goals" \in {run.step, run'.step}]_vars
  BY NextKeeps DEF KeepsOthers
<1> QED BY <1>1, Invariance, PTL DEF Spec, OthersSettingsKept

--------------------------------------------------------------------------------
(* HOSTS UNDER A STANDING POLICY *)

(* TYPES *)

Decisions == [captured: UNION {[G -> Versions] : G \in Questions}, category: Categories]
Entries == [row: HostRows \cup {Missing}, version: Versions, category: Categories \cup {Missing},
            amount: {AmountOf[v] : v \in Versions}, by: Executions \cup {Missing}, of: Nat]

\* A command as it was given, and how far its writer came.
Importing ==
  [action: {"import"}, on: HostRows, evidence: Versions, item: {Missing}, category: {Missing},
   digest: Nat, phase: {"begun"}]
Proposing ==
  [action: {"categorize"}, on: HostRows, evidence: Versions, item: {Missing}, category: Categories,
   digest: Nat, phase: {"begun"}]
Confirming ==
  [action: {"categorize"}, on: HostRows, evidence: Versions, item: Proposals, category: {Missing},
   digest: Nat, phase: {"begun", "posted"}]
Correcting ==
  [action: {"correct"}, on: Nat, evidence: {Missing}, item: {Missing}, category: Categories,
   digest: Nat, phase: {"begun"}]
Adjusting ==
  [action: {"adjust"}, on: {Missing}, evidence: Versions, item: {Missing}, category: {Missing},
   digest: Nat, phase: {"begun", "batch"}]
Reconciling ==
  [action: {"reconcile"}, on: ReportKeys, evidence: Figures, item: {Missing}, category: {Missing},
   digest: Nat, phase: {"begun", "recovered", "staging", "staged", "audited", "published"}]
Posting == Importing \cup Proposing \cup Confirming \cup Correcting \cup Adjusting

PostingTypeOK ==
  /\ waiting \in [HostRows -> Versions \cup {Missing}]
  /\ items \in [HostRows -> Proposals \cup {Missing}]
  /\ answers \in [HostRows -> Decisions \cup {Missing}]
  /\ prepBooks \in Seq(Entries)
ReportTypeOK ==
  /\ report \in [ReportKeys -> ReportRecords \cup {Missing}]
  /\ stage \in ReportStages \cup {Missing} /\ audits \subseteq ReportStages
  /\ saves \in Nat
CommandsTypeOK == cmds \in [Executions -> Posting \cup Reconciling \cup {Missing}]

(* INVARIANTS *)

\* One writer holds the entity lock.
Holds(e) == cmds[e] # Missing /\ cmds[e].phase # "begun"
OneWriter == \A e, f \in Executions : Holds(e) /\ Holds(f) => e = f

\* Every audit event is of an entry of the ledger, a correction is of one, and what is posted
\* from an item has the item.
Corresponds ==
  /\ \A q \in prepReceipts : q.at \in Nat /\ q.at <= Len(prepBooks)
  /\ \A e \in Executions : cmds[e] # Missing =>
       /\ cmds[e].action = "correct" => cmds[e].on \in Index
       /\ cmds[e].phase = "posted" => items[cmds[e].on] # Missing

\* When the record of a stage was made.
At(t) == t.report[t.key].at
WellStaged(t) == t.report[t.key] # Missing /\ At(t) <= saves
\* A stage replaces one record with a newer one, or has done so.
Follows(t) ==
  \/ report = t.report
  \/ /\ \A k \in ReportKeys \ {t.key} : report[k] = t.report[k]
     /\ report[t.key] # Missing => report[t.key].at <= At(t)

ReportOK ==
  /\ \A k \in ReportKeys : report[k] # Missing => report[k].at <= saves
  /\ \A a \in audits : a.manifest /\ WellStaged(a)
  /\ stage # Missing => WellStaged(stage) /\ Follows(stage)
  /\ \A a, b \in audits : At(a) = At(b) => a = b
  /\ stage # Missing => \A a \in audits : At(a) = At(stage) => a = stage

\* What an execution has left to do to the stage.
Progress(e) ==
  /\ cmds[e].phase = "recovered" => stage = Missing
  /\ cmds[e].phase = "staging" => stage # Missing /\ ~stage.manifest
  /\ cmds[e].phase = "staged" => stage # Missing /\ stage.manifest
  /\ cmds[e].phase = "audited" => stage # Missing /\ stage \in audits
  /\ cmds[e].phase = "published" => stage # Missing /\ report = stage.report
InProgress == \A e \in Executions : cmds[e] # Missing => Progress(e)

PrepInv ==
  /\ PostingTypeOK /\ ReportTypeOK /\ CommandsTypeOK
  /\ OneWriter /\ Corresponds /\ ReportOK /\ InProgress
------------------------------------------------------------------------------
(* Commands *)

\* What the action, the item and the phase say of a command.
LEMMA CommandKinds ==
  ASSUME CommandsTypeOK, NEW e \in Executions, cmds[e] # Missing
  PROVE  /\ cmds[e].digest \in Nat
         /\ cmds[e].action = "import" => cmds[e] \in Importing
         /\ cmds[e].action = "categorize" /\ cmds[e].item = Missing => cmds[e] \in Proposing
         /\ cmds[e].action = "categorize" /\ cmds[e].item # Missing => cmds[e] \in Confirming
         /\ cmds[e].action = "correct" => cmds[e] \in Correcting
         /\ cmds[e].action = "adjust" => cmds[e] \in Adjusting
         /\ cmds[e].action = "reconcile" => cmds[e] \in Reconciling
         /\ cmds[e].phase = "posted" => cmds[e] \in Confirming
         /\ cmds[e].phase = "batch" => cmds[e] \in Adjusting
         /\ cmds[e].phase \in {"recovered", "staging", "staged", "audited", "published"} => cmds[e] \in Reconciling
<1> PICK c : c = cmds[e]
  OBVIOUS
<1>1. c \in Posting \cup Reconciling
  BY DEF CommandsTypeOK
<1>2. CASE c \in Importing
  BY <1>2 DEF Importing
<1>3. CASE c \in Proposing
  BY <1>3 DEF Proposing
<1>4. CASE c \in Confirming
  BY <1>4, PrepAssumption DEF Confirming
<1>5. CASE c \in Correcting
  BY <1>5 DEF Correcting
<1>6. CASE c \in Adjusting
  BY <1>6 DEF Adjusting
<1>7. CASE c \in Reconciling
  BY <1>7 DEF Reconciling
<1> QED BY <1>1, <1>2, <1>3, <1>4, <1>5, <1>6, <1>7 DEF Posting

\* An execution that holds the lock goes on, or one takes the lock when it is free.
LEMMA WriterStays ==
  ASSUME CommandsTypeOK, OneWriter, NEW e \in Executions, NEW c, cmds' = [cmds EXCEPT ![e] = c],
         c # Missing /\ c.phase # "begun" => Holds(e) \/ ~EntityLocked
  PROVE  OneWriter'
<1>1. \A f \in Executions : cmds'[f] = IF f = e THEN c ELSE cmds[f]
  BY DEF CommandsTypeOK
<1>2. ~EntityLocked => \A f \in Executions : ~Holds(f)
  BY DEF EntityLocked, Holds
<1> QED BY <1>1, <1>2 DEF OneWriter, Holds

\* A step that leaves the report alone.
LEMMA ReportStays ==
  ASSUME ReportTypeOK, ReportOK, UNCHANGED reporting
  PROVE  ReportTypeOK' /\ ReportOK'
BY DEF ReportTypeOK, ReportOK, reporting, WellStaged, Follows, At

LEMMA PeopleElsewhere ==
  ASSUME PrepInv, UNCHANGED <<reporting, cmds>>
  PROVE  /\ CommandsTypeOK' /\ OneWriter' /\ InProgress'
         /\ ReportTypeOK' /\ ReportOK'
<1>1. CommandsTypeOK' /\ OneWriter'
  BY DEF PrepInv, CommandsTypeOK, OneWriter, Holds
<1>2. InProgress'
  BY DEF PrepInv, InProgress, Progress, reporting
<1> QED BY <1>1, <1>2, ReportStays DEF PrepInv

LEMMA HostElsewhere ==
  ASSUME PrepInv, UNCHANGED reporting, NEW e \in Executions, NEW c \in Posting \cup Reconciling \cup {Missing},
         cmds' = [cmds EXCEPT ![e] = c], c # Missing => c.phase \in {"begun", "posted", "batch"},
         c # Missing /\ c.phase # "begun" => Holds(e) \/ ~EntityLocked
  PROVE  /\ CommandsTypeOK' /\ OneWriter' /\ InProgress'
         /\ ReportTypeOK' /\ ReportOK'
<1>1. CommandsTypeOK'
  BY DEF PrepInv, CommandsTypeOK
<1>2. OneWriter'
  BY WriterStays DEF PrepInv
<1>3. \A f \in Executions : cmds'[f] = IF f = e THEN c ELSE cmds[f]
  BY DEF PrepInv, CommandsTypeOK
<1>4. InProgress'
  BY <1>3 DEF PrepInv, InProgress, Progress, reporting
<1> QED BY <1>1, <1>2, <1>4, ReportStays DEF PrepInv

------------------------------------------------------------------------------
(* Postings and items *)

\* Nothing is posted, or one entry, that new audit events name.
Grows ==
  \/ prepBooks' = prepBooks /\ prepReceipts' = prepReceipts
  \/ \E x \in Entries : /\ prepBooks' = Append(prepBooks, x)
                        /\ \A q \in prepReceipts' : q \in prepReceipts \/ q.at = Digest + 1
KeepsItems == \A r \in HostRows : items[r] # Missing => items'[r] # Missing

LEMMA GrowsFacts ==
  ASSUME PostingTypeOK, Grows
  PROVE  /\ prepBooks' \in Seq(Entries) /\ Len(prepBooks) \in Nat /\ Len(prepBooks) <= Len(prepBooks')
         /\ Index \subseteq Index'
<1>1. prepBooks \in Seq(Entries)
  BY DEF PostingTypeOK
<1>2. CASE prepBooks' = prepBooks
  BY <1>1, <1>2, LenProperties DEF Index
<1>3. CASE \E x \in Entries : prepBooks' = Append(prepBooks, x)
  <2> PICK x \in Entries : prepBooks' = Append(prepBooks, x)
    BY <1>3
  <2> QED BY <1>1, AppendProperties, LenProperties DEF Index
<1> QED BY <1>2, <1>3 DEF Grows

LEMMA NamedOnce ==
  ASSUME PostingTypeOK, Corresponds, Grows
  PROVE  \A q \in prepReceipts' : q.at \in Nat /\ q.at <= Len(prepBooks')
<1>1. prepBooks \in Seq(Entries) /\ Len(prepBooks) \in Nat
  BY LenProperties DEF PostingTypeOK
<1>2. CASE prepBooks' = prepBooks /\ prepReceipts' = prepReceipts
  BY <1>2 DEF Corresponds
<1>3. CASE \E x \in Entries : /\ prepBooks' = Append(prepBooks, x)
                              /\ \A q \in prepReceipts' : q \in prepReceipts \/ q.at = Digest + 1
  <2> PICK x \in Entries : /\ prepBooks' = Append(prepBooks, x)
                           /\ \A q \in prepReceipts' : q \in prepReceipts \/ q.at = Digest + 1
    BY <1>3
  <2>1. Len(prepBooks') = Len(prepBooks) + 1
    BY <1>1, AppendProperties
  <2> QED BY <1>1, <2>1 DEF Corresponds, Digest
<1> QED BY <1>2, <1>3 DEF Grows

LEMMA PeopleCorrespond ==
  ASSUME PrepInv, Grows, KeepsItems, UNCHANGED cmds
  PROVE  Corresponds'
<1>1. \A e \in Executions : cmds[e] # Missing /\ cmds[e].phase = "posted" => cmds[e].on \in HostRows
  BY CommandKinds DEF PrepInv, Confirming
<1> QED BY <1>1, GrowsFacts, NamedOnce DEF PrepInv, Corresponds, KeepsItems

LEMMA HostCorresponds ==
  ASSUME PrepInv, Grows, KeepsItems, NEW e \in Executions, NEW c, cmds' = [cmds EXCEPT ![e] = c],
         c # Missing => /\ c.action = "correct" => c.on \in Index
                        /\ c.phase = "posted" => c.on \in HostRows /\ items[c.on] # Missing
  PROVE  Corresponds'
<1>1. \A f \in Executions : cmds[f] # Missing /\ cmds[f].phase = "posted" => cmds[f].on \in HostRows
  BY CommandKinds DEF PrepInv, Confirming
<1>2. \A f \in Executions : cmds'[f] = IF f = e THEN c ELSE cmds[f]
  BY DEF PrepInv, CommandsTypeOK
<1> QED BY <1>1, <1>2, GrowsFacts, NamedOnce DEF PrepInv, Corresponds, KeepsItems

\* An entry of a document.
LEMMA EntryOf ==
  ASSUME NEW row \in HostRows \cup {Missing}, NEW v \in Versions, NEW category \in Categories \cup {Missing},
         NEW by \in Executions \cup {Missing}, NEW of \in Nat
  PROVE  Entry(row, v, category, AmountOf[v], by, of) \in Entries
BY DEF Entry, Entries

LEMMA PeopleStep ==
  ASSUME PrepInv, PostingTypeOK', Grows, KeepsItems, UNCHANGED <<reporting, cmds>>
  PROVE  PrepInv'
BY PeopleElsewhere, PeopleCorrespond DEF PrepInv

LEMMA HostStep ==
  ASSUME PrepInv, PostingTypeOK', Grows, KeepsItems, UNCHANGED reporting, NEW e \in Executions,
         NEW c \in Posting \cup Reconciling \cup {Missing}, cmds' = [cmds EXCEPT ![e] = c],
         c # Missing => /\ c.phase \in {"begun", "posted", "batch"}
                        /\ c.phase # "begun" => Holds(e) \/ ~EntityLocked
                        /\ c.action = "correct" => c.on \in Index
                        /\ c.phase = "posted" => c.on \in HostRows /\ items[c.on] # Missing
  PROVE  PrepInv'
<1>1. /\ CommandsTypeOK' /\ OneWriter' /\ InProgress'
      /\ ReportTypeOK' /\ ReportOK'
  BY HostElsewhere
<1>2. Corresponds'
  BY HostCorresponds
<1> QED BY <1>1, <1>2 DEF PrepInv

------------------------------------------------------------------------------
(* The steps of people *)

LEMMA ProposalOf ==
  ASSUME PostingTypeOK, NEW r \in HostRows, NEW v \in Versions, NEW category \in Categories
  PROVE  Proposal(r, v, category) \in Proposals
<1>1. CASE items[r] = Missing
  <2>1. (items[r] # Missing /\ items[r].human) = FALSE
    BY <1>1
  <2> QED BY <2>1 DEF Proposal, Proposals
<1>2. CASE items[r] # Missing
  <2>1. items[r].human \in BOOLEAN
    BY <1>2 DEF PostingTypeOK, Proposals
  <2>2. (items[r] # Missing /\ items[r].human) \in BOOLEAN
    OBVIOUS
  <2> QED BY <2>2 DEF Proposal, Proposals
<1> QED BY <1>1, <1>2

LEMMA RestageStep ==
  ASSUME PrepInv, NEW r \in HostRows, NEW v \in Versions, Restage(r, v)
  PROVE  PrepInv'
<1>1. PostingTypeOK'
  BY DEF PrepInv, PostingTypeOK, Restage
<1>2. Grows /\ KeepsItems
  BY DEF Restage, Grows, KeepsItems
<1> QED BY <1>1, <1>2, PeopleStep DEF Restage

LEMMA PersonProposesStep ==
  ASSUME PrepInv, NEW r \in HostRows, NEW category \in Categories, PersonProposes(r, category)
  PROVE  PrepInv'
<1>1. PICK i \in Proposals : items' = [items EXCEPT ![r] = i]
  <2>1. waiting[r] \in Versions
    BY DEF PrepInv, PostingTypeOK, PersonProposes
  <2> QED BY <2>1, ProposalOf DEF PrepInv, PersonProposes
<1>2. PostingTypeOK'
  BY <1>1 DEF PrepInv, PostingTypeOK, PersonProposes
<1>3. Grows /\ KeepsItems
  BY <1>1, PrepAssumption DEF PrepInv, PostingTypeOK, PersonProposes, Grows, KeepsItems
<1> QED BY <1>2, <1>3, PeopleStep DEF PersonProposes

LEMMA ScanAmountsStep ==
  ASSUME PrepInv, ScanAmounts
  PROVE  PrepInv'
<1>1. \A r \in HostRows : items[r] # Missing =>
        [items[r] EXCEPT !.status = "requires-reproposal", !.human = TRUE] \in Proposals
  BY DEF PrepInv, PostingTypeOK, Proposals
<1>2. \A r \in HostRows : /\ items'[r] \in Proposals \cup {Missing}
                          /\ items[r] # Missing => items'[r] \in Proposals
  BY <1>1 DEF PrepInv, PostingTypeOK, ScanAmounts, Stale
<1>3. PostingTypeOK'
  BY <1>2 DEF PrepInv, PostingTypeOK, ScanAmounts
<1>4. Grows /\ KeepsItems
  BY <1>2, PrepAssumption DEF ScanAmounts, Grows, KeepsItems
<1> QED BY <1>3, <1>4, PeopleStep DEF ScanAmounts

\* The item of a row is done and the row leaves review.
LEMMA Finished ==
  ASSUME PostingTypeOK, NEW r \in HostRows, items[r] # Missing,
         waiting' = [waiting EXCEPT ![r] = Missing], items' = [items EXCEPT ![r].status = "confirmed"]
  PROVE  /\ waiting' \in [HostRows -> Versions \cup {Missing}]
         /\ items' \in [HostRows -> Proposals \cup {Missing}] /\ KeepsItems
<1>1. PICK i : i = [items[r] EXCEPT !.status = "confirmed"]
  OBVIOUS
<1>2. i \in Proposals
  BY <1>1 DEF PostingTypeOK, Proposals
<1>3. items' = [items EXCEPT ![r] = i]
  BY <1>1 DEF PostingTypeOK
<1> QED BY <1>2, <1>3, PrepAssumption DEF PostingTypeOK, KeepsItems

LEMMA PersonConfirmsStep ==
  ASSUME PrepInv, NEW r \in HostRows, PersonConfirms(r)
  PROVE  PrepInv'
<1>1. items[r] \in Proposals /\ waiting[r] \in Versions /\ items[r].category \in Categories
  BY DEF PrepInv, PostingTypeOK, PersonConfirms, Owned, Proposals
<1>2. PICK x \in Entries : prepBooks' = Append(prepBooks, x)
  BY <1>1, EntryOf DEF PersonConfirms
<1>3. /\ waiting' \in [HostRows -> Versions \cup {Missing}]
      /\ items' \in [HostRows -> Proposals \cup {Missing}] /\ KeepsItems
  BY <1>1, PrepAssumption, Finished DEF PrepInv, PersonConfirms
<1>4. Grows
  BY <1>2 DEF PersonConfirms, Grows
<1>5. PostingTypeOK'
  BY <1>3, <1>4, GrowsFacts DEF PrepInv, PostingTypeOK, PersonConfirms
<1> QED BY <1>3, <1>4, <1>5, PeopleStep DEF PersonConfirms

LEMMA PersonCorrectsStep ==
  ASSUME PrepInv, NEW n \in Index, NEW category \in Categories, NEW v \in Versions,
         PersonCorrects(n, category, v)
  PROVE  PrepInv'
<1>1. n \in Nat
  BY LenProperties DEF PrepInv, PostingTypeOK, Index
<1>2. PICK x \in Entries : prepBooks' = Append(prepBooks, x)
  BY <1>1, EntryOf DEF PersonCorrects
<1>3. Grows /\ KeepsItems
  BY <1>2 DEF PersonCorrects, posting, Grows, KeepsItems
<1>4. PostingTypeOK'
  BY <1>3, GrowsFacts DEF PrepInv, PostingTypeOK, PersonCorrects, posting
<1> QED BY <1>3, <1>4, PeopleStep DEF PersonCorrects

LEMMA UnlockedPostingStep ==
  ASSUME PrepInv, NEW v \in Versions, UnlockedPosting(v)
  PROVE  PrepInv'
<1>2. PICK x \in Entries : prepBooks' = Append(prepBooks, x)
  BY EntryOf DEF UnlockedPosting
<1>3. Grows /\ KeepsItems
  BY <1>2 DEF UnlockedPosting, posting, Grows, KeepsItems
<1>4. PostingTypeOK'
  BY <1>3, GrowsFacts DEF PrepInv, PostingTypeOK, UnlockedPosting, posting
<1> QED BY <1>3, <1>4, PeopleStep DEF UnlockedPosting

LEMMA AnswerStep ==
  ASSUME PrepInv, NEW G \in Questions, NEW category \in Categories, Answer(G, category)
  PROVE  PrepInv'
<1>1. G \subseteq HostRows
  BY PrepAssumption
<1>2. PICK shown : shown = [x \in G |-> waiting[x]]
  OBVIOUS
<1>3. shown \in [G -> Versions]
  BY <1>1, <1>2 DEF PrepInv, PostingTypeOK, Answer
<1>4. PICK a : a = [captured |-> shown, category |-> category]
  OBVIOUS
<1>5. shown \in UNION {[H -> Versions] : H \in Questions}
  BY <1>3
<1>6. a \in Decisions
  BY <1>4, <1>5 DEF Decisions
<1>7. answers' = [r \in HostRows |-> IF r \in G THEN a ELSE answers[r]]
  BY <1>2, <1>4 DEF Answer
<1>8. PostingTypeOK'
  BY <1>6, <1>7 DEF PrepInv, PostingTypeOK, Answer
<1>9. Grows /\ KeepsItems
  BY DEF Answer, Grows, KeepsItems
<1> QED BY <1>8, <1>9, PeopleStep DEF Answer

LEMMA ExpireStep ==
  ASSUME PrepInv, NEW e \in Executions, Expire(e)
  PROVE  PrepInv'
<1>1. PostingTypeOK' /\ Grows /\ KeepsItems
  BY DEF PrepInv, PostingTypeOK, Expire, posting, Grows, KeepsItems
<1> QED BY <1>1, PeopleStep DEF Expire

------------------------------------------------------------------------------
(* A command begins or ends *)

LEMMA BeginsStep ==
  ASSUME PrepInv, NEW e \in Executions, NEW c \in Posting \cup Reconciling, Begins(e, c),
         c.phase = "begun", c.action = "correct" => c.on \in Index
  PROVE  PrepInv'
<1>1. PostingTypeOK' /\ Grows /\ KeepsItems
  BY DEF PrepInv, PostingTypeOK, Begins, posting, Grows, KeepsItems
<1> QED BY <1>1, HostStep DEF Begins

LEMMA DoneStep ==
  ASSUME PrepInv, NEW e \in Executions, Done(e), UNCHANGED <<posting, prepBooks, reporting>>
  PROVE  PrepInv'
<1>1. PostingTypeOK' /\ Grows /\ KeepsItems
  BY DEF PrepInv, PostingTypeOK, posting, Grows, KeepsItems
<1> QED BY <1>1, HostStep DEF Done

LEMMA HostBeginsStep ==
  ASSUME PrepInv, NEW e \in Executions, HostBegins(e)
  PROVE  PrepInv'
<1>d. Digest \in Nat
  BY LenProperties DEF PrepInv, PostingTypeOK, Digest
<1>1. CASE \E r \in HostRows, v \in Versions : HostImports(e, r, v)
  <2> PICK r \in HostRows, v \in Versions : HostImports(e, r, v)
    BY <1>1
  <2> PICK c : c = Command("import", r, v, Missing, Missing)
    OBVIOUS
  <2>1. c \in Importing /\ c.phase = "begun" /\ c.action = "import"
    BY <1>d DEF Command, Importing
  <2> QED BY <2>1, BeginsStep DEF HostImports, Posting
<1>2. ASSUME NEW r \in HostRows, NEW v \in Versions, NEW category \in Categories,
             Begins(e, Command("categorize", r, v, Missing, category))
      PROVE  PrepInv'
  <2> PICK c : c = Command("categorize", r, v, Missing, category)
    OBVIOUS
  <2>1. c \in Proposing /\ c.phase = "begun" /\ c.action = "categorize"
    BY <1>d DEF Command, Proposing
  <2> QED BY <1>2, <2>1, BeginsStep DEF Posting
<1>3. CASE \E r \in HostRows, v \in Versions, category \in Categories : HostProposes(e, r, v, category)
  BY <1>2, <1>3 DEF HostProposes
<1>4. CASE \E r \in HostRows : RoutineProposes(e, r)
  <2> PICK r \in HostRows : RoutineProposes(e, r)
    BY <1>4
  <2>1. waiting[r] \in Versions
    BY DEF RoutineProposes, PrepInv, PostingTypeOK
  <2>2. answers[r] # Missing => answers[r].category \in Categories
    BY DEF PrepInv, PostingTypeOK, Decisions
  <2>3. RuleFor[r] \in Categories \cup {Missing}
    BY PrepAssumption
  <2>4. Planned(r) \in Categories
    BY <2>2, <2>3 DEF RoutineProposes, Planned
  <2> QED BY <1>2, <2>1, <2>4 DEF RoutineProposes, HostProposes
<1>5. CASE \E r \in HostRows, v \in Versions : HostConfirms(e, r, v)
  <2> PICK r \in HostRows, v \in Versions : HostConfirms(e, r, v)
    BY <1>5
  <2> PICK c : c = Command("categorize", r, v, items[r], Missing)
    OBVIOUS
  <2>0. items[r] \in Proposals
    BY DEF HostConfirms, PrepInv, PostingTypeOK
  <2>1. c \in Confirming /\ c.phase = "begun" /\ c.action = "categorize"
    BY <1>d, <2>0 DEF Command, Confirming
  <2> QED BY <2>1, BeginsStep DEF HostConfirms, Posting
<1>6. CASE \E n \in Index, category \in Categories : HostCorrects(e, n, category)
  <2> PICK n \in Index, category \in Categories : HostCorrects(e, n, category)
    BY <1>6
  <2> PICK c : c = Command("correct", n, Missing, Missing, category)
    OBVIOUS
  <2>0. n \in Nat
    BY LenProperties DEF PrepInv, PostingTypeOK, Index
  <2>1. c \in Correcting /\ c.phase = "begun" /\ c.on = n
    BY <1>d, <2>0 DEF Command, Correcting
  <2> QED BY <2>1, BeginsStep DEF HostCorrects, Posting
<1>7. CASE \E v \in Versions : HostAdjusts(e, v)
  <2> PICK v \in Versions : HostAdjusts(e, v)
    BY <1>7
  <2> PICK c : c = Command("adjust", Missing, v, Missing, Missing)
    OBVIOUS
  <2>1. c \in Adjusting /\ c.phase = "begun" /\ c.action = "adjust"
    BY <1>d DEF Command, Adjusting
  <2> QED BY <2>1, BeginsStep DEF HostAdjusts, Posting
<1>8. CASE \E k \in ReportKeys, f \in Figures : HostReconciles(e, k, f)
  <2> PICK k \in ReportKeys, f \in Figures : HostReconciles(e, k, f)
    BY <1>8
  <2> PICK c : c = Command("reconcile", k, f, Missing, Missing)
    OBVIOUS
  <2>1. c \in Reconciling /\ c.phase = "begun" /\ c.action = "reconcile"
    BY <1>d DEF Command, Reconciling
  <2> QED BY <2>1, BeginsStep DEF HostReconciles
<1> QED BY <1>1, <1>3, <1>4, <1>5, <1>6, <1>7, <1>8 DEF HostBegins
------------------------------------------------------------------------------
(* The postings of hosts *)

LEMMA CommitImportStep ==
  ASSUME PrepInv, NEW e \in Executions, CommitImport(e)
  PROVE  PrepInv'
<1>1. PICK r, v : r = cmds[e].on /\ v = cmds[e].evidence
  OBVIOUS
<1>2. r \in HostRows /\ v \in Versions
  BY <1>1, CommandKinds DEF PrepInv, CommitImport, Writes, Importing
<1>3. PostingTypeOK' /\ Grows /\ KeepsItems
  <2>1. CASE UNCHANGED <<posting, prepBooks>>
    BY <2>1 DEF PrepInv, PostingTypeOK, posting, Grows, KeepsItems
  <2>2. CASE HostImportStages(e, r, v)
    BY <1>2, <2>2 DEF PrepInv, PostingTypeOK, HostImportStages, Grows, KeepsItems
  <2>3. CASE HostImportPosts(e, r, v)
    <3>1. RuleFor[r] \in Categories
      BY <1>2, <2>3, PrepAssumption DEF HostImportPosts
    <3>2. PICK x \in Entries : prepBooks' = Append(prepBooks, x)
      BY <1>2, <2>3, <3>1, EntryOf DEF HostImportPosts
    <3>3. \A q \in prepReceipts' : q \in prepReceipts \/ q.at = Digest + 1
      BY <2>3 DEF HostImportPosts, Receipt
    <3>4. Grows /\ KeepsItems
      BY <2>3, <3>2, <3>3 DEF HostImportPosts, Grows, KeepsItems
    <3> QED BY <2>3, <3>4, GrowsFacts DEF PrepInv, PostingTypeOK, HostImportPosts
  <2> QED BY <1>1, <2>1, <2>2, <2>3 DEF CommitImport
<1> QED BY <1>3, HostStep DEF CommitImport, Done

LEMMA CommitProposalStep ==
  ASSUME PrepInv, NEW e \in Executions, CommitProposal(e)
  PROVE  PrepInv'
<1>1. cmds[e] \in Proposing
  BY CommandKinds DEF PrepInv, CommitProposal, Writes
<1>2. PICK r : r = cmds[e].on
  OBVIOUS
<1>3. r \in HostRows /\ waiting[r] \in Versions /\ cmds[e].category \in Categories
  BY <1>1, <1>2 DEF CommitProposal, Reads, Proposing
<1>4. PICK i \in Proposals : items' = [items EXCEPT ![r] = i]
  BY <1>2, <1>3, ProposalOf DEF PrepInv, CommitProposal
<1>5. UNCHANGED <<waiting, answers, prepReceipts, prepBooks>>
  BY DEF CommitProposal
<1>6. PostingTypeOK' /\ Grows /\ KeepsItems
  BY <1>3, <1>4, <1>5, PrepAssumption DEF PrepInv, PostingTypeOK, Grows, KeepsItems
<1> QED BY <1>6, HostStep DEF CommitProposal, Done

LEMMA CommitConfirmStep ==
  ASSUME PrepInv, NEW e \in Executions, CommitConfirm(e)
  PROVE  PrepInv'
<1>1. cmds[e] \in Confirming
  BY CommandKinds DEF PrepInv, CommitConfirm, Writes
<1>2. PICK r : r = cmds[e].on
  OBVIOUS
<1>3. /\ r \in HostRows /\ waiting[r] \in Versions
      /\ items[r] # Missing /\ items[r].category \in Categories
  BY <1>1, <1>2 DEF PrepInv, PostingTypeOK, CommitConfirm, Reads, Confirmable, Owned, Confirming, Proposals
<1>4. PICK x \in Entries : prepBooks' = Append(prepBooks, x)
  BY <1>2, <1>3, EntryOf DEF CommitConfirm
<1>5. \A q \in prepReceipts' : q \in prepReceipts \/ q.at = Digest + 1
  BY DEF CommitConfirm, Receipt
<1>6. Grows /\ KeepsItems
  BY <1>4, <1>5 DEF CommitConfirm, Grows, KeepsItems
<1>7. PostingTypeOK'
  BY <1>6, GrowsFacts DEF PrepInv, PostingTypeOK, CommitConfirm
<1>8. PICK c : c = [cmds[e] EXCEPT !.phase = "posted"]
  OBVIOUS
<1>9. c \in Confirming /\ c.phase = "posted" /\ c.on = r /\ c.action = "categorize"
  BY <1>1, <1>2, <1>8 DEF Confirming
<1>10. cmds' = [cmds EXCEPT ![e] = c] /\ ~EntityLocked
  BY <1>8 DEF CommitConfirm, Writes
<1> QED BY <1>3, <1>6, <1>7, <1>9, <1>10, HostStep DEF CommitConfirm, Posting

LEMMA FinishItemStep ==
  ASSUME PrepInv, NEW e \in Executions, NEW r \in HostRows, items[r] # Missing, FinishItem(e, r)
  PROVE  PrepInv'
<1>1. /\ waiting' \in [HostRows -> Versions \cup {Missing}]
      /\ items' \in [HostRows -> Proposals \cup {Missing}] /\ KeepsItems
  BY Finished DEF PrepInv, FinishItem
<1>2. PostingTypeOK' /\ Grows
  BY <1>1 DEF PrepInv, PostingTypeOK, FinishItem, Grows
<1> QED BY <1>1, <1>2, HostStep DEF FinishItem, Done

LEMMA FinishConfirmStep ==
  ASSUME PrepInv, NEW e \in Executions, FinishConfirm(e)
  PROVE  PrepInv'
<1>1. cmds[e] \in Confirming /\ items[cmds[e].on] # Missing
  BY CommandKinds DEF PrepInv, Corresponds, FinishConfirm
<1> QED BY <1>1, FinishItemStep DEF FinishConfirm, Confirming

LEMMA RecoverConfirmStep ==
  ASSUME PrepInv, NEW e \in Executions, RecoverConfirm(e)
  PROVE  PrepInv'
<1>1. cmds[e] \in Confirming /\ items[cmds[e].on] # Missing
  BY CommandKinds DEF PrepInv, RecoverConfirm, Writes, Confirmable, Owned
<1> QED BY <1>1, FinishItemStep DEF RecoverConfirm, Confirming

LEMMA CommitCorrectionStep ==
  ASSUME PrepInv, NEW e \in Executions, CommitCorrection(e)
  PROVE  PrepInv'
<1>1. cmds[e] \in Correcting /\ cmds[e].on \in Index
  BY CommandKinds DEF PrepInv, Corresponds, CommitCorrection, Writes
<1>2. PICK n : n = cmds[e].on
  OBVIOUS
<1>3. n \in Nat /\ prepBooks[n] \in Entries
  BY <1>1, <1>2, ElementOfSeq, LenProperties DEF PrepInv, PostingTypeOK, Index
<1>4. PICK v \in Versions : prepBooks[n].amount = AmountOf[v]
  BY <1>3 DEF Entries
<1>5. PICK x : x = Entry(Missing, prepBooks[n].version, cmds[e].category, prepBooks[n].amount, e, n)
  OBVIOUS
<1>6. x \in Entries /\ prepBooks' = Append(prepBooks, x)
  BY <1>1, <1>2, <1>3, <1>4, <1>5 DEF CommitCorrection, Entry, Entries, Correcting
<1>7. \A q \in prepReceipts' : q \in prepReceipts \/ q.at = Digest + 1
  BY DEF CommitCorrection, Receipt
<1>8. Grows /\ KeepsItems
  BY <1>6, <1>7 DEF CommitCorrection, Grows, KeepsItems
<1>9. PostingTypeOK'
  BY <1>8, GrowsFacts DEF PrepInv, PostingTypeOK, CommitCorrection
<1> QED BY <1>8, <1>9, HostStep DEF CommitCorrection, Done

LEMMA CommitAdjustmentStep ==
  ASSUME PrepInv, NEW e \in Executions, CommitAdjustment(e)
  PROVE  PrepInv'
<1>1. cmds[e] \in Adjusting
  BY CommandKinds DEF PrepInv, CommitAdjustment, Writes
<1>2. PICK x \in Entries : prepBooks' = Append(prepBooks, x)
  BY <1>1, EntryOf DEF CommitAdjustment, Adjusting
<1>3. \A q \in prepReceipts' : q \in prepReceipts \/ q.at = Digest + 1
  BY DEF CommitAdjustment, Receipt
<1>4. Grows /\ KeepsItems
  BY <1>2, <1>3 DEF CommitAdjustment, Grows, KeepsItems
<1>5. PostingTypeOK'
  BY <1>4, GrowsFacts DEF PrepInv, PostingTypeOK, CommitAdjustment
<1>6. CASE Done(e)
  BY <1>4, <1>5, <1>6, HostStep DEF CommitAdjustment, Done
<1>7. CASE cmds' = [cmds EXCEPT ![e].phase = "batch", ![e].digest = Digest + 1]
  <2>1. PICK c : c = [cmds[e] EXCEPT !.phase = "batch", !.digest = Digest + 1]
    OBVIOUS
  <2>2. Digest \in Nat
    BY LenProperties DEF PrepInv, PostingTypeOK, Digest
  <2>3. c \in Adjusting /\ c.phase = "batch" /\ c.action = "adjust"
    <3>1. PICK b : b = [cmds[e] EXCEPT !.phase = "batch"]
      OBVIOUS
    <3>2. b \in Adjusting /\ b.phase = "batch" /\ b.action = "adjust"
      BY <1>1, <3>1 DEF Adjusting
    <3>3. PICK d \in Nat : d = Digest + 1
      BY <2>2
    <3>4. c = [b EXCEPT !.digest = d]
      BY <2>1, <3>1, <3>3
    <3> QED BY <2>2, <3>2, <3>3, <3>4 DEF Adjusting
  <2>4. cmds' = [cmds EXCEPT ![e] = c]
    BY <1>7, <2>1 DEF PrepInv, CommandsTypeOK
  <2>5. Holds(e) \/ ~EntityLocked
    BY DEF CommitAdjustment, Writes, Holds
  <2> QED BY <1>4, <1>5, <2>3, <2>4, <2>5, HostStep DEF CommitAdjustment, Posting
<1> QED BY <1>6, <1>7 DEF CommitAdjustment
------------------------------------------------------------------------------
(* Reconciliations *)

\* What the report would be with the stage published.
LEMMA StageFacts ==
  ASSUME ReportTypeOK, ReportOK, stage # Missing
  PROVE  /\ stage \in ReportStages /\ stage.key \in ReportKeys
         /\ stage.report \in [ReportKeys -> ReportRecords \cup {Missing}]
         /\ stage.report[stage.key] \in ReportRecords /\ At(stage) \in Nat /\ At(stage) <= saves
         /\ \A k \in ReportKeys : stage.report[k] # Missing => stage.report[k].at <= saves
         /\ \A k \in ReportKeys : report[k] # Missing =>
              stage.report[k] # Missing /\ stage.report[k].at >= report[k].at
         /\ \A k \in ReportKeys : stage.report[k] # report[k] => k = stage.key
<1>1. /\ stage \in ReportStages /\ stage.key \in ReportKeys
      /\ stage.report \in [ReportKeys -> ReportRecords \cup {Missing}]
  BY DEF ReportTypeOK, ReportStages
<1>2. stage.report[stage.key] \in ReportRecords /\ At(stage) <= saves
  BY <1>1 DEF ReportOK, WellStaged
<1>3. At(stage) \in Nat
  BY <1>2 DEF At, ReportRecords
<1>4. \A k \in ReportKeys : report[k] # Missing => report[k].at \in Nat /\ report[k].at <= saves
  BY DEF ReportTypeOK, ReportOK, ReportRecords
<1>5. stage.report[stage.key].at = At(stage) /\ stage.report[stage.key] # Missing
  BY <1>2, PrepAssumption DEF At
<1>6. CASE report = stage.report
  BY <1>1, <1>2, <1>3, <1>4, <1>5, <1>6
<1>7. CASE /\ \A k \in ReportKeys \ {stage.key} : report[k] = stage.report[k]
           /\ report[stage.key] # Missing => report[stage.key].at <= At(stage)
  BY <1>1, <1>2, <1>3, <1>4, <1>5, <1>7
<1> QED BY <1>6, <1>7 DEF ReportOK, Follows

\* Nobody else is at work when the holder of the lock, or one who takes it, goes on.
LEMMA WriterStep ==
  ASSUME PrepInv, NEW e \in Executions, NEW c \in Reconciling \cup {Missing},
         cmds' = [cmds EXCEPT ![e] = c], Holds(e) \/ ~EntityLocked,
         UNCHANGED <<posting, prepBooks>>, ReportTypeOK', ReportOK', (c # Missing => Progress(e)')
  PROVE  PrepInv'
<1>1. PostingTypeOK' /\ Grows /\ KeepsItems
  BY DEF PrepInv, PostingTypeOK, posting, Grows, KeepsItems
<1>2. CommandsTypeOK' /\ OneWriter'
  BY WriterStays DEF PrepInv, CommandsTypeOK
<1>3. c # Missing => c.action # "correct" /\ c.phase # "posted"
  BY DEF Reconciling
<1>4. Corresponds'
  BY <1>1, <1>3, HostCorresponds
<1>5. \A f \in Executions : cmds'[f] = IF f = e THEN c ELSE cmds[f]
  BY DEF PrepInv, CommandsTypeOK
<1>6. \A f \in Executions : f # e /\ cmds[f] # Missing => cmds[f].phase = "begun"
  BY DEF PrepInv, OneWriter, EntityLocked, Holds
<1>7. InProgress'
  <2> SUFFICES ASSUME NEW f \in Executions, cmds'[f] # Missing
               PROVE  Progress(f)'
    BY DEF InProgress
  <2>1. CASE f = e
    BY <1>5, <2>1
  <2>2. CASE f # e
    BY <1>5, <1>6, <2>2 DEF Progress
  <2> QED BY <2>1, <2>2
<1> QED BY <1>1, <1>2, <1>4, <1>7 DEF PrepInv

LEMMA FreeStep ==
  ASSUME PrepInv, ~EntityLocked, UNCHANGED <<posting, prepBooks, cmds>>, ReportTypeOK', ReportOK'
  PROVE  PrepInv'
<1>1. PostingTypeOK' /\ Grows /\ KeepsItems
  BY DEF PrepInv, PostingTypeOK, posting, Grows, KeepsItems
<1>2. CommandsTypeOK' /\ OneWriter'
  BY DEF PrepInv, CommandsTypeOK, OneWriter, Holds
<1>3. Corresponds'
  BY <1>1, PeopleCorrespond
<1>4. InProgress'
  BY DEF PrepInv, InProgress, Progress, EntityLocked
<1> QED BY <1>1, <1>2, <1>3, <1>4 DEF PrepInv

LEMMA RecordOf ==
  ASSUME PostingTypeOK, ReportTypeOK, NEW k \in ReportKeys, NEW figure \in Figures,
         NEW by \in Executions \cup {Missing}
  PROVE  /\ ReportRecord(k, figure, by) \in ReportRecords
         /\ ReportRecord(k, figure, by).at = saves + 1 /\ ReportRecord(k, figure, by).by = by
<1>1. Digest \in Nat /\ saves + 1 \in Nat
  BY LenProperties DEF PostingTypeOK, ReportTypeOK, Digest
<1>2. Status(figure) \in {"source-inconsistent", "clean", "open", "resolved"}
  BY DEF Status
<1> QED BY <1>1, <1>2 DEF ReportRecord, ReportRecords

\* A record that is made now is newer than all there are.
LEMMA SavedLast ==
  ASSUME ReportTypeOK, ReportOK, stage = Missing, NEW k \in ReportKeys, NEW rec \in ReportRecords,
         rec.at = saves + 1, report' = [report EXCEPT ![k] = rec], saves' = saves + 1,
         UNCHANGED <<stage, audits>>
  PROVE  ReportTypeOK' /\ ReportOK'
<1>1. ReportTypeOK'
  BY DEF ReportTypeOK
<1>2. \A j \in ReportKeys : report'[j] # Missing => report'[j].at <= saves'
  BY DEF ReportTypeOK, ReportOK, ReportRecords
<1>3. \A a \in audits : At(a) \in Nat /\ At(a) <= saves /\ a.manifest /\ a.report[a.key] # Missing
  BY DEF ReportTypeOK, ReportOK, WellStaged, At, ReportStages, ReportRecords
<1>4. \A a \in audits' : a.manifest /\ WellStaged(a)'
  BY <1>3 DEF ReportTypeOK, WellStaged, At
<1> QED BY <1>1, <1>2, <1>4 DEF ReportOK, At

LEMMA PersonSavesStep ==
  ASSUME PrepInv, NEW k \in ReportKeys, NEW rec \in ReportRecords, rec.at = saves + 1, PersonSaves(rec, k)
  PROVE  PrepInv'
<1>1. ReportTypeOK' /\ ReportOK'
  BY SavedLast DEF PrepInv, PersonSaves, SavesRecovered
<1> QED BY <1>1, FreeStep DEF PersonSaves

LEMMA AnswersResolved ==
  ASSUME PrepInv, NEW k \in ReportKeys, PersonResolves(k)
  PROVE  \E rec \in ReportRecords : rec.at = saves + 1 /\ rec.status = "resolved" /\ PersonSaves(rec, k)
<1>1. report[k] \in ReportRecords /\ saves + 1 \in Nat
  BY DEF PrepInv, ReportTypeOK, PersonResolves
<1>2. PICK rec : rec = [report[k] EXCEPT !.status = "resolved", !.at = saves + 1]
  OBVIOUS
<1>3. PICK half : half = [report[k] EXCEPT !.status = "resolved"]
  OBVIOUS
<1>4. half \in ReportRecords /\ half.status = "resolved"
  BY <1>1, <1>3 DEF ReportRecords
<1>5. rec = [half EXCEPT !.at = saves + 1]
  BY <1>2, <1>3
<1>6. rec \in ReportRecords /\ rec.at = saves + 1 /\ rec.status = "resolved"
  BY <1>1, <1>4, <1>5 DEF ReportRecords
<1> QED BY <1>2, <1>6 DEF PersonResolves

\* What is left of a reconciliation is finished or dropped.
LEMMA RecoverKeeps ==
  ASSUME ReportTypeOK, ReportOK, Recover
  PROVE  ReportTypeOK' /\ ReportOK'
<1>1. /\ report' \in [ReportKeys -> ReportRecords \cup {Missing}]
      /\ \A k \in ReportKeys : report'[k] # Missing => report'[k].at <= saves
  <2>1. CASE stage # Missing /\ report' = stage.report
    BY <2>1, StageFacts
  <2>2. CASE report' = report
    BY <2>2 DEF ReportTypeOK, ReportOK
  <2> QED BY <2>1, <2>2 DEF Recover, Recovered
<1>2. stage' = Missing /\ UNCHANGED <<audits, saves>>
  BY DEF Recover
<1> QED BY <1>1, <1>2 DEF ReportTypeOK, ReportOK, WellStaged, At

LEMMA PersonRecoversStep ==
  ASSUME PrepInv, PersonRecovers
  PROVE  PrepInv'
BY RecoverKeeps, FreeStep DEF PrepInv, PersonRecovers

\* A reconciliation of an execution that goes on.
LEMMA Onward ==
  ASSUME PrepInv, NEW e \in Executions, cmds[e] \in Reconciling,
         NEW phase \in {"recovered", "staging", "staged", "audited", "published"},
         cmds' = [cmds EXCEPT ![e].phase = phase]
  PROVE  \E c \in Reconciling : /\ cmds' = [cmds EXCEPT ![e] = c] /\ c.phase = phase
                                /\ cmds'[e].phase = phase
<1>1. PICK c : c = [cmds[e] EXCEPT !.phase = phase]
  OBVIOUS
<1>2. c \in Reconciling /\ c.phase = phase
  BY <1>1 DEF Reconciling
<1>3. cmds' = [cmds EXCEPT ![e] = c]
  BY <1>1 DEF PrepInv, CommandsTypeOK
<1>4. cmds'[e] = c
  BY <1>3 DEF PrepInv, CommandsTypeOK
<1> QED BY <1>2, <1>3, <1>4

LEMMA HostRecoversStep ==
  ASSUME PrepInv, NEW e \in Executions, HostRecovers(e)
  PROVE  PrepInv'
<1>1. cmds[e] \in Reconciling /\ ~EntityLocked
  BY CommandKinds DEF PrepInv, HostRecovers, Writes
<1>2. PICK c \in Reconciling : cmds' = [cmds EXCEPT ![e] = c] /\ cmds'[e].phase = "recovered"
  BY <1>1, Onward DEF HostRecovers
<1>3. ReportTypeOK' /\ ReportOK'
  BY RecoverKeeps DEF PrepInv, HostRecovers
<1>4. Progress(e)'
  BY <1>2 DEF Progress, HostRecovers, Recover
<1> QED BY <1>1, <1>2, <1>3, <1>4, WriterStep DEF HostRecovers

LEMMA StageReportStep ==
  ASSUME PrepInv, NEW e \in Executions, StageReport(e)
  PROVE  PrepInv'
<1>1. cmds[e] \in Reconciling /\ Holds(e) /\ stage = Missing
  BY CommandKinds DEF PrepInv, InProgress, Progress, StageReport, In, Holds
<1>2. PICK k, figure, digest : k = cmds[e].on /\ figure = cmds[e].evidence /\ digest = cmds[e].digest
  OBVIOUS
<1>3. k \in ReportKeys /\ figure \in Figures /\ digest \in Nat
  BY <1>1, <1>2 DEF Reconciling
<1>4. PICK rec : rec = ReportRecord(k, figure, e)
  OBVIOUS
<1>5. rec \in ReportRecords /\ rec.at = saves + 1
  BY <1>3, <1>4, RecordOf DEF PrepInv
<1>6. PICK new : new = [report EXCEPT ![k] = rec]
  OBVIOUS
<1>7. /\ new \in [ReportKeys -> ReportRecords \cup {Missing}] /\ new[k] = rec
      /\ \A j \in ReportKeys \ {k} : new[j] = report[j]
  BY <1>3, <1>5, <1>6 DEF PrepInv, ReportTypeOK
<1>8. stage' = [exec |-> e, key |-> k, figure |-> figure, digest |-> digest, manifest |-> FALSE, report |-> new]
  BY <1>2, <1>4, <1>6 DEF StageReport, Staged
<1>9. /\ stage' \in ReportStages /\ stage' # Missing /\ stage'.key = k /\ stage'.report = new
      /\ ~stage'.manifest
  <2>1. stage'.key = k /\ stage'.report = new /\ ~stage'.manifest
    BY <1>8
  <2>2. stage' \in ReportStages
    BY <1>3, <1>7, <1>8 DEF ReportStages
  <2> QED BY <2>1, <2>2, PrepAssumption
<1>10. UNCHANGED <<report, audits>> /\ saves' = saves + 1 /\ saves \in Nat
  BY DEF StageReport, PrepInv, ReportTypeOK
<1>11. ReportTypeOK'
  BY <1>9, <1>10 DEF PrepInv, ReportTypeOK
<1>12. ReportOK'
  <2>1. \A j \in ReportKeys : report[j] # Missing => report[j].at \in Nat /\ report[j].at <= saves
    BY DEF PrepInv, ReportTypeOK, ReportOK, ReportRecords
  <2>2. \A a \in audits : At(a) \in Nat /\ At(a) <= saves /\ a.manifest /\ a.report[a.key] # Missing
    BY DEF PrepInv, ReportTypeOK, ReportOK, WellStaged, At, ReportStages, ReportRecords
  <2>3. \A a : At(a)' = At(a)
    BY DEF At
  <2>4. At(stage') = saves + 1
    BY <1>5, <1>7, <1>9 DEF At
  <2>5. WellStaged(stage)'
    BY <1>5, <1>7, <1>9, <1>10, PrepAssumption DEF WellStaged, At
  <2>6. Follows(stage)'
    BY <1>5, <1>7, <1>9, <1>10, <2>1, <1>3 DEF Follows, At
  <2>7. \A a \in audits' : a.manifest /\ WellStaged(a)'
    BY <1>10, <2>2 DEF WellStaged, At
  <2>8. \A a \in audits' : At(a)' # At(stage)'
    BY <1>10, <2>2, <2>4 DEF At
  <2>9. \A a, b \in audits' : At(a)' = At(b)' => a = b
    BY <1>10 DEF PrepInv, ReportOK, At
  <2>10. \A j \in ReportKeys : report'[j] # Missing => report'[j].at <= saves'
    BY <1>10, <2>1
  <2> QED BY <2>5, <2>6, <2>7, <2>8, <2>9, <2>10 DEF ReportOK
<1>13. PICK c \in Reconciling : cmds' = [cmds EXCEPT ![e] = c] /\ cmds'[e].phase = "staging"
  BY <1>1, Onward DEF StageReport, To
<1>14. Progress(e)'
  BY <1>9, <1>13 DEF Progress
<1> QED BY <1>1, <1>11, <1>12, <1>13, <1>14, WriterStep DEF StageReport, To

LEMMA StageManifestStep ==
  ASSUME PrepInv, NEW e \in Executions, StageManifest(e)
  PROVE  PrepInv'
<1>1. cmds[e] \in Reconciling /\ Holds(e) /\ stage # Missing /\ ~stage.manifest
  BY CommandKinds DEF PrepInv, InProgress, Progress, StageManifest, In, Holds
<1>2. stage \in ReportStages
  BY <1>1 DEF PrepInv, ReportTypeOK
<1>3. stage' = [stage EXCEPT !.manifest = TRUE] /\ UNCHANGED <<report, audits, saves>>
  BY DEF StageManifest
<1>4. /\ stage' \in ReportStages /\ stage' # Missing /\ stage'.manifest
      /\ stage'.key = stage.key /\ stage'.report = stage.report
  BY <1>2, <1>3, PrepAssumption DEF ReportStages
<1>5. \A a \in audits : At(a) # At(stage)
  BY <1>1 DEF PrepInv, ReportOK
<1>6. ReportTypeOK'
  BY <1>3, <1>4 DEF PrepInv, ReportTypeOK
<1>7. ReportOK'
  <2>1. WellStaged(stage)' /\ Follows(stage)'
    BY <1>1, <1>3, <1>4 DEF PrepInv, ReportOK, WellStaged, Follows, At
  <2>2. \A a \in audits' : At(a)' # At(stage)'
    BY <1>3, <1>4, <1>5 DEF At
  <2> QED BY <1>3, <2>1, <2>2 DEF PrepInv, ReportOK, WellStaged, At
<1>8. PICK c \in Reconciling : cmds' = [cmds EXCEPT ![e] = c] /\ cmds'[e].phase = "staged"
  BY <1>1, Onward DEF StageManifest, To
<1>9. Progress(e)'
  BY <1>4, <1>8 DEF Progress
<1> QED BY <1>1, <1>6, <1>7, <1>8, <1>9, WriterStep DEF StageManifest, To

LEMMA AuditStep ==
  ASSUME PrepInv, NEW e \in Executions, Audit(e)
  PROVE  PrepInv'
<1>1. cmds[e] \in Reconciling /\ Holds(e) /\ stage # Missing /\ stage.manifest
  BY CommandKinds DEF PrepInv, InProgress, Progress, Audit, In, Holds
<1>2. audits' = audits \cup {stage} /\ UNCHANGED <<report, stage, saves>>
  BY DEF Audit
<1>3. ReportTypeOK'
  BY <1>1, <1>2 DEF PrepInv, ReportTypeOK
<1>4. ReportOK'
  <2>1. \A a, b \in audits' : At(a) = At(b) => a = b
    BY <1>1, <1>2 DEF PrepInv, ReportOK
  <2>2. \A a \in audits' : At(a) = At(stage) => a = stage
    BY <1>1, <1>2 DEF PrepInv, ReportOK
  <2> QED BY <1>1, <1>2, <2>1, <2>2 DEF PrepInv, ReportOK, WellStaged, Follows, At
<1>5. PICK c \in Reconciling : cmds' = [cmds EXCEPT ![e] = c] /\ cmds'[e].phase = "audited"
  BY <1>1, Onward DEF Audit, To
<1>6. Progress(e)'
  BY <1>1, <1>2, <1>5 DEF Progress
<1> QED BY <1>1, <1>3, <1>4, <1>5, <1>6, WriterStep DEF Audit, To

LEMMA PublishReportStep ==
  ASSUME PrepInv, NEW e \in Executions, PublishReport(e)
  PROVE  PrepInv'
<1>1. cmds[e] \in Reconciling /\ Holds(e) /\ stage # Missing /\ stage \in audits
  BY CommandKinds DEF PrepInv, InProgress, Progress, PublishReport, In, Holds
<1>2. report' = stage.report /\ UNCHANGED <<stage, audits, saves>>
  BY DEF PublishReport
<1>3. ReportTypeOK'
  BY <1>1, <1>2, StageFacts DEF PrepInv, ReportTypeOK
<1>4. ReportOK'
  BY <1>1, <1>2, StageFacts DEF PrepInv, ReportOK, WellStaged, Follows, At
<1>5. PICK c \in Reconciling : cmds' = [cmds EXCEPT ![e] = c] /\ cmds'[e].phase = "published"
  BY <1>1, Onward DEF PublishReport, To
<1>6. Progress(e)'
  BY <1>1, <1>2, <1>5 DEF Progress
<1> QED BY <1>1, <1>3, <1>4, <1>5, <1>6, WriterStep DEF PublishReport, To

LEMMA RemoveStageStep ==
  ASSUME PrepInv, NEW e \in Executions, RemoveStage(e)
  PROVE  PrepInv'
<1>1. Holds(e)
  BY DEF RemoveStage, In, Holds
<1>2. stage' = Missing /\ UNCHANGED <<report, audits, saves>>
  BY DEF RemoveStage
<1>3. ReportTypeOK' /\ ReportOK'
  BY <1>2 DEF PrepInv, ReportTypeOK, ReportOK, WellStaged, At
<1> QED BY <1>1, <1>3, WriterStep DEF RemoveStage, Done
------------------------------------------------------------------------------
(* The invariant *)

LEMMA PrepInitInv == PrepInit => PrepInv
<1> SUFFICES ASSUME PrepInit PROVE PrepInv
  OBVIOUS
<1>1. PostingTypeOK /\ ReportTypeOK /\ CommandsTypeOK
  BY EmptySeq DEF PrepInit, PostingTypeOK, ReportTypeOK, CommandsTypeOK
<1>2. \A e \in Executions : cmds[e] = Missing
  BY DEF PrepInit
<1>3. OneWriter /\ Corresponds /\ InProgress
  BY <1>2 DEF PrepInit, OneWriter, Holds, Corresponds, InProgress
<1>4. ReportOK
  BY DEF PrepInit, ReportOK
<1> QED BY <1>1, <1>3, <1>4 DEF PrepInv

LEMMA PeopleKeepInv ==
  ASSUME PrepInv, PeopleNext
  PROVE  PrepInv'
<1>1. CASE \E k \in ReportKeys : PersonResolves(k)
  BY <1>1, AnswersResolved, PersonSavesStep
<1>2. CASE \E k \in ReportKeys, f \in Figures : PersonReconciles(k, f)
  BY <1>2, RecordOf, PersonSavesStep DEF PersonReconciles, PrepInv
<1>3. CASE \E r \in HostRows : \/ \E v \in Versions : Restage(r, v)
                               \/ \E c \in Categories : PersonProposes(r, c)
                               \/ PersonConfirms(r)
  BY <1>3, RestageStep, PersonProposesStep, PersonConfirmsStep
<1>4. CASE \/ ScanAmounts
           \/ \E n \in Index, c \in Categories, v \in Versions : PersonCorrects(n, c, v)
           \/ \E v \in Versions : UnlockedPosting(v)
           \/ \E G \in Questions, c \in Categories : Answer(G, c)
           \/ PersonRecovers
  BY <1>4, ScanAmountsStep, PersonCorrectsStep, UnlockedPostingStep, AnswerStep, PersonRecoversStep
<1> QED BY <1>1, <1>2, <1>3, <1>4 DEF PeopleNext

LEMMA HostsKeepInv ==
  ASSUME PrepInv, NEW e \in Executions,
         HostBegins(e) \/ HostWrites(e) \/ Denied(e) \/ Expire(e) \/ Halt(e)
  PROVE  PrepInv'
<1>1. CASE Denied(e) \/ Halt(e) \/ Repeat(e)
  BY <1>1, DoneStep DEF Denied, Halt, Repeat
<1>2. CASE \/ CommitImport(e) \/ CommitProposal(e) \/ CommitConfirm(e) \/ FinishConfirm(e) \/ RecoverConfirm(e)
           \/ CommitCorrection(e) \/ CommitAdjustment(e)
  BY <1>2, CommitImportStep, CommitProposalStep, CommitConfirmStep, FinishConfirmStep, RecoverConfirmStep,
     CommitCorrectionStep, CommitAdjustmentStep
<1>3. CASE \/ HostRecovers(e) \/ StageReport(e) \/ StageManifest(e) \/ Audit(e)
           \/ PublishReport(e) \/ RemoveStage(e)
  BY <1>3, HostRecoversStep, StageReportStep, StageManifestStep, AuditStep, PublishReportStep, RemoveStageStep
<1> QED BY <1>1, <1>2, <1>3, HostBeginsStep, ExpireStep DEF HostWrites

LEMMA SameStep ==
  ASSUME PrepInv, UNCHANGED prepVars
  PROVE  PrepInv'
<1>1. PostingTypeOK' /\ Grows /\ KeepsItems
  BY DEF PrepInv, PostingTypeOK, prepVars, posting, Grows, KeepsItems
<1> QED BY <1>1, PeopleStep DEF prepVars

LEMMA InvStep == PrepInv /\ [PrepNext]_prepVars => PrepInv'
BY PeopleKeepInv, HostsKeepInv, SameStep DEF PrepNext

\* The types of the files and commands of a company with hosts, that one writer at a time
\* holds its lock, that audit events and corrections are of entries there are, and that an
\* unfinished reconciliation replaces one record with a newer one or has done so
\* (preparation_runtime.commit_preparation_reconciliation).
THEOREM PrepInvariance == PrepSpec => []PrepInv
BY PrepInitInv, InvStep, PTL DEF PrepSpec

------------------------------------------------------------------------------
(* What hosts post *)

LEMMA Appended ==
  ASSUME PostingTypeOK, NEW x \in Entries, prepBooks' = Append(prepBooks, x)
  PROVE  /\ Digest \in Nat /\ Len(prepBooks) = Digest
         /\ Len(prepBooks') = Digest + 1 /\ prepBooks'[Len(prepBooks')] = x
BY AppendProperties, LenProperties DEF PostingTypeOK, Digest

\* What is not posted by a host says nothing of one.
LEMMA NobodyPosts ==
  ASSUME PostingTypeOK, prepBooks' = prepBooks
  PROVE  PostedAsVerified
BY LenProperties DEF PostingTypeOK, PostedAsVerified

LEMMA PersonPosts ==
  ASSUME PostingTypeOK, NEW x \in Entries, prepBooks' = Append(prepBooks, x), x.by = Missing
  PROVE  PostedAsVerified
BY Appended, PrepAssumption DEF PostedAsVerified

LEMMA NamedByOne ==
  ASSUME PostingTypeOK, Corresponds, NEW x \in Entries, prepBooks' = Append(prepBooks, x),
         NEW q, q.at = Digest + 1, prepReceipts' = prepReceipts \cup {q}
  PROVE  Cardinality({p \in prepReceipts' : p.at = Len(prepBooks')}) = 1
<1>1. {p \in prepReceipts' : p.at = Len(prepBooks')} = {q}
  BY Appended DEF Corresponds
<1> QED BY <1>1, FS_Singleton

\* A host posts an entry that is not a correction.
LEMMA HostPosts ==
  ASSUME PostingTypeOK, Corresponds, NEW e \in Executions, NEW x \in Entries,
         prepBooks' = Append(prepBooks, x), x.by = e, x.amount <= Ceiling, e \in live, LedgerUnchanged(e),
         NEW q, q.at = Digest + 1, prepReceipts' = prepReceipts \cup {q},
         cmds[e].action \in {"import", "categorize"} => x.version = cmds[e].evidence /\ ~InBooks(x.row),
         cmds[e].item # Missing => x.category = cmds[e].item.category /\ ~cmds[e].item.human,
         x.of # 0 => \A k \in Lineage(x.of) : InPolicy(k)
  PROVE  PostedAsVerified
<1>1. /\ Digest \in Nat /\ Len(prepBooks) = Digest
      /\ Len(prepBooks') = Digest + 1 /\ prepBooks'[Len(prepBooks')] = x
  BY Appended
<1>2. Cardinality({p \in prepReceipts' : p.at = Len(prepBooks')}) = 1
  BY NamedByOne
<1> SUFFICES ASSUME NEW f \in Executions, prepBooks'[Len(prepBooks')].by = f
             PROVE  LET new == prepBooks'[Len(prepBooks')]
                        c == cmds[f]
                    IN /\ f \in live /\ Len(prepBooks') = c.digest + 1
                       /\ new.amount <= Ceiling
                       /\ c.action \in {"import", "categorize"} => new.version = c.evidence /\ ~InBooks(new.row)
                       /\ c.item # Missing => new.category = c.item.category /\ ~c.item.human
                       /\ new.of # 0 => \A k \in Lineage(new.of) : InPolicy(k)
                       /\ Cardinality({p \in prepReceipts' : p.at = Len(prepBooks')}) = 1
  BY DEF PostedAsVerified
<1>3. f = e
  BY <1>1
<1> QED BY <1>1, <1>2, <1>3 DEF LedgerUnchanged

LEMMA ImportAsVerified ==
  ASSUME PrepInv, NEW e \in Executions, CommitImport(e)
  PROVE  PostedAsVerified
<1>1. cmds[e] \in Importing
  BY CommandKinds DEF PrepInv, CommitImport, Writes
<1>2. PICK r, v : r = cmds[e].on /\ v = cmds[e].evidence
  OBVIOUS
<1>3. r \in HostRows /\ v \in Versions /\ cmds[e].item = Missing
  BY <1>1, <1>2 DEF Importing
<1>4. CASE ~InBooks(r) /\ HostImportPosts(e, r, v)
  <2>1. RuleFor[r] \in Categories
    BY <1>3, <1>4, PrepAssumption DEF HostImportPosts
  <2>2. PICK x : x = Entry(r, v, RuleFor[r], AmountOf[v], e, 0)
    OBVIOUS
  <2>3. x \in Entries
    BY <1>3, <2>1, <2>2, EntryOf
  <2>4. x.row = r /\ x.version = v /\ x.amount = AmountOf[v] /\ x.by = e /\ x.of = 0
    BY <2>2 DEF Entry
  <2>5. PICK q : q = Receipt(e, "import", r, Missing)
    OBVIOUS
  <2>6. /\ prepBooks' = Append(prepBooks, x) /\ prepReceipts' = prepReceipts \cup {q} /\ q.at = Digest + 1
        /\ x.amount <= Ceiling /\ e \in live /\ LedgerUnchanged(e)
    BY <1>4, <2>2, <2>4, <2>5 DEF HostImportPosts, Small, Authorized, Receipt
  <2> QED BY <1>2, <1>3, <1>4, <2>3, <2>4, <2>6, HostPosts DEF PrepInv
<1>5. CASE prepBooks' = prepBooks
  BY <1>5, NobodyPosts DEF PrepInv
<1> QED BY <1>2, <1>4, <1>5 DEF CommitImport, HostImportStages

LEMMA ConfirmAsVerified ==
  ASSUME PrepInv, NEW e \in Executions, CommitConfirm(e)
  PROVE  PostedAsVerified
<1>1. cmds[e] \in Confirming
  BY CommandKinds DEF PrepInv, CommitConfirm, Writes
<1>2. PICK r : r = cmds[e].on
  OBVIOUS
<1>3. /\ r \in HostRows /\ waiting[r] \in Versions /\ waiting[r] = cmds[e].evidence
      /\ items[r] \in Proposals /\ items[r].category \in Categories
      /\ items[r].evidence = cmds[e].evidence /\ cmds[e].item = items[r]
  BY <1>1, <1>2 DEF PrepInv, PostingTypeOK, CommitConfirm, Reads, ItemUnchanged, Confirmable, Owned, Confirming, Proposals
<1>4. PICK x : x = Entry(r, waiting[r], items[r].category, AmountOf[waiting[r]], e, 0)
  OBVIOUS
<1>5. x \in Entries
  BY <1>3, <1>4, EntryOf
<1>6. /\ x.row = r /\ x.version = waiting[r] /\ x.category = items[r].category
      /\ x.amount = AmountOf[waiting[r]] /\ x.by = e /\ x.of = 0
  BY <1>4 DEF Entry
<1>7. PICK q : q = Receipt(e, "confirm", r, items[r])
  OBVIOUS
<1>8. /\ prepBooks' = Append(prepBooks, x) /\ prepReceipts' = prepReceipts \cup {q} /\ q.at = Digest + 1
      /\ e \in live /\ LedgerUnchanged(e) /\ ~InBooks(r) /\ ~items[r].human
  BY <1>2, <1>4, <1>7 DEF CommitConfirm, Authorized, Receipt
<1>9. x.amount <= Ceiling
  BY <1>2, <1>3, <1>6 DEF CommitConfirm, Confirmable, Small
<1> QED BY <1>3, <1>5, <1>6, <1>8, <1>9, HostPosts DEF PrepInv

\* The entry is among what is held against the policy.
LEMMA LineageHolds ==
  ASSUME NEW n \in Index
  PROVE  n \in Lineage(n)
BY DEF Lineage

LEMMA CorrectionAsVerified ==
  ASSUME PrepInv, NEW e \in Executions, CommitCorrection(e)
  PROVE  PostedAsVerified
<1>1. cmds[e] \in Correcting /\ cmds[e].on \in Index
  BY CommandKinds DEF PrepInv, Corresponds, CommitCorrection, Writes
<1>2. PICK n : n = cmds[e].on
  OBVIOUS
<1>3. n \in Nat /\ prepBooks[n] \in Entries /\ cmds[e].action = "correct" /\ cmds[e].item = Missing
  BY <1>1, <1>2, ElementOfSeq, LenProperties DEF PrepInv, PostingTypeOK, Index, Correcting
<1>4. PICK v \in Versions : prepBooks[n].amount = AmountOf[v]
  BY <1>3 DEF Entries
<1>5. PICK x : x = Entry(Missing, prepBooks[n].version, cmds[e].category, prepBooks[n].amount, e, n)
  OBVIOUS
<1>6. x \in Entries /\ x.amount = prepBooks[n].amount /\ x.by = e /\ x.of = n
  BY <1>1, <1>2, <1>3, <1>4, <1>5 DEF Entry, Entries, Correcting
<1>7. PICK q : q = Receipt(e, "correct", Missing, Missing)
  OBVIOUS
<1>8. /\ prepBooks' = Append(prepBooks, x) /\ prepReceipts' = prepReceipts \cup {q} /\ q.at = Digest + 1
      /\ e \in live /\ LedgerUnchanged(e)
  BY <1>2, <1>5, <1>7 DEF CommitCorrection, Authorized, Receipt
<1>9. \A k \in Lineage(n) : InPolicy(k)
  <2> SUFFICES ASSUME NEW k \in Lineage(n)
               PROVE  InPolicy(k)
    OBVIOUS
  <2>1. /\ Small(prepBooks[k].amount)
        /\ Authorized(e, "correct", {PeriodOf[prepBooks[j].version] : j \in Lineage(n)}, SourcesOf(Lineage(n)),
                      Lineage(n), FALSE)
    BY <1>2 DEF CommitCorrection, Bound
  <2>2. PeriodOf[prepBooks[k].version] \in FirstPeriod..LastPeriod /\ k \notin HeldEntries
    BY <2>1 DEF Authorized
  <2>3. prepBooks[k].row # Missing => prepBooks[k].row \in SourcesOf(Lineage(n))
    BY DEF SourcesOf
  <2>4. prepBooks[k].row \notin Held
    BY <2>1, <2>3, PrepAssumption DEF Authorized
  <2> QED BY <2>1, <2>2, <2>4 DEF InPolicy, Small
<1>10. x.amount <= Ceiling
  BY <1>1, <1>2, <1>6, <1>9, LineageHolds DEF InPolicy
<1> QED BY <1>3, <1>6, <1>8, <1>9, <1>10, HostPosts DEF PrepInv

LEMMA AdjustmentAsVerified ==
  ASSUME PrepInv, NEW e \in Executions, CommitAdjustment(e)
  PROVE  PostedAsVerified
<1>1. cmds[e] \in Adjusting
  BY CommandKinds DEF PrepInv, CommitAdjustment, Writes
<1>2. PICK v : v = cmds[e].evidence
  OBVIOUS
<1>3. v \in Versions /\ cmds[e].action = "adjust" /\ cmds[e].item = Missing
  BY <1>1, <1>2 DEF Adjusting
<1>4. PICK x : x = Entry(Missing, v, Missing, AmountOf[v], e, 0)
  OBVIOUS
<1>5. x \in Entries
  BY <1>3, <1>4, EntryOf
<1>6. x.amount = AmountOf[v] /\ x.by = e /\ x.of = 0
  BY <1>4 DEF Entry
<1>7. PICK q : q = Receipt(e, "adjust", Missing, Missing)
  OBVIOUS
<1>8. /\ prepBooks' = Append(prepBooks, x) /\ prepReceipts' = prepReceipts \cup {q} /\ q.at = Digest + 1
      /\ x.amount <= Ceiling /\ e \in live /\ LedgerUnchanged(e)
  BY <1>2, <1>4, <1>6, <1>7 DEF CommitAdjustment, Small, Authorized, Receipt
<1> QED BY <1>3, <1>5, <1>6, <1>8, HostPosts DEF PrepInv

------------------------------------------------------------------------------
(* What becomes of the report *)

LEMMA ReportUntouched ==
  ASSUME ReportTypeOK, report' = report
  PROVE  NeverOlder
BY DEF ReportTypeOK, ReportRecords, NeverOlder

LEMMA PersonsRecordIsNewer ==
  ASSUME PrepInv, NEW k \in ReportKeys, NEW rec \in ReportRecords, rec.at = saves + 1, PersonSaves(rec, k),
         rec.by = Missing \/ rec.status = "resolved"
  PROVE  NeverOlder
<1>1. \A j \in ReportKeys : report[j] # Missing => report[j].at \in Nat /\ report[j].at <= saves
  BY DEF PrepInv, ReportTypeOK, ReportOK, ReportRecords
<1>2. \A j \in ReportKeys : report'[j] = IF j = k THEN rec ELSE report[j]
  BY DEF PrepInv, ReportTypeOK, PersonSaves
<1>3. saves \in Nat /\ rec # Missing
  BY PrepAssumption DEF PrepInv, ReportTypeOK
<1> QED BY <1>1, <1>2, <1>3 DEF NeverOlder

\* The record a stage replaces is made of one audited stage.
LEMMA AuditedOnce ==
  ASSUME PrepInv, stage # Missing, stage \in audits, report' = stage.report
  PROVE  NeverOlder
<1> SUFFICES ASSUME NEW k \in ReportKeys, report'[k] # report[k]
             PROVE  Cardinality({a \in audits : a.key = k /\ a.report[k] = report'[k]}) = 1
  BY StageFacts DEF PrepInv, NeverOlder
<1>1. k = stage.key
  BY StageFacts DEF PrepInv
<1>2. \A a \in audits : At(a) = At(stage) => a = stage
  BY DEF PrepInv, ReportOK
<1>3. {a \in audits : a.key = k /\ a.report[k] = report'[k]} = {stage}
  BY <1>1, <1>2 DEF At
<1> QED BY <1>3, FS_Singleton

LEMMA RecoveryIsNewer ==
  ASSUME PrepInv, Recover
  PROVE  NeverOlder
<1>1. CASE report' = report
  BY <1>1, ReportUntouched DEF PrepInv
<1>2. CASE stage # Missing /\ stage \in audits /\ report' = stage.report
  BY <1>2, AuditedOnce
<1> QED BY <1>1, <1>2 DEF Recover, Recovered, StageAudited

------------------------------------------------------------------------------
(* Hosts act as verified *)

LEMMA PeopleVerified ==
  ASSUME PrepInv, PeopleNext
  PROVE  PostedAsVerified /\ NeverOlder
<1>1. ASSUME NEW r \in HostRows, PersonConfirms(r)
      PROVE  PostedAsVerified /\ NeverOlder
  <2>1. items[r] \in Proposals /\ waiting[r] \in Versions /\ items[r].category \in Categories
    BY <1>1 DEF PrepInv, PostingTypeOK, PersonConfirms, Owned, Proposals
  <2>2. PICK x : x = Entry(r, waiting[r], items[r].category, AmountOf[waiting[r]], Missing, 0)
    OBVIOUS
  <2>3. x \in Entries /\ x.by = Missing
    BY <2>1, <2>2, EntryOf DEF Entry
  <2> QED BY <1>1, <2>2, <2>3, PersonPosts, ReportUntouched DEF PrepInv, PersonConfirms, reporting
<1>2. ASSUME NEW n \in Index, NEW category \in Categories, NEW v \in Versions, PersonCorrects(n, category, v)
      PROVE  PostedAsVerified /\ NeverOlder
  <2>1. n \in Nat
    BY LenProperties DEF PrepInv, PostingTypeOK, Index
  <2>2. PICK x : x = Entry(Missing, v, category, AmountOf[v], Missing, n)
    OBVIOUS
  <2>3. x \in Entries /\ x.by = Missing
    BY <2>1, <2>2, EntryOf DEF Entry
  <2> QED BY <1>2, <2>2, <2>3, PersonPosts, ReportUntouched DEF PrepInv, PersonCorrects, reporting
<1>3. ASSUME NEW v \in Versions, UnlockedPosting(v)
      PROVE  PostedAsVerified /\ NeverOlder
  <2>2. PICK x : x = Entry(Missing, v, Missing, AmountOf[v], Missing, 0)
    OBVIOUS
  <2>3. x \in Entries /\ x.by = Missing
    BY <2>2, EntryOf DEF Entry
  <2> QED BY <1>3, <2>2, <2>3, PersonPosts, ReportUntouched DEF PrepInv, UnlockedPosting, reporting
<1>4. ASSUME \/ \E r \in HostRows : \/ \E v \in Versions : Restage(r, v)
                                    \/ \E c \in Categories : PersonProposes(r, c)
             \/ ScanAmounts
             \/ \E G \in Questions, c \in Categories : Answer(G, c)
      PROVE  PostedAsVerified /\ NeverOlder
  BY <1>4, NobodyPosts, ReportUntouched DEF PrepInv, Restage, PersonProposes, ScanAmounts, Answer, reporting
<1>5. ASSUME NEW k \in ReportKeys, PersonResolves(k)
      PROVE  PostedAsVerified /\ NeverOlder
  <2>1. PICK rec \in ReportRecords : rec.at = saves + 1 /\ rec.status = "resolved" /\ PersonSaves(rec, k)
    BY <1>5, AnswersResolved
  <2> QED BY <2>1, PersonsRecordIsNewer, NobodyPosts DEF PrepInv, PersonSaves
<1>6. ASSUME NEW k \in ReportKeys, NEW f \in Figures, PersonReconciles(k, f)
      PROVE  PostedAsVerified /\ NeverOlder
  <2>1. PICK rec : rec = ReportRecord(k, f, Missing)
    OBVIOUS
  <2>2. rec \in ReportRecords /\ rec.at = saves + 1 /\ rec.by = Missing
    BY <2>1, RecordOf DEF PrepInv
  <2>3. PersonSaves(rec, k)
    BY <1>6, <2>1 DEF PersonReconciles
  <2> QED BY <2>2, <2>3, PersonsRecordIsNewer, NobodyPosts DEF PrepInv, PersonSaves
<1>7. ASSUME PersonRecovers
      PROVE  PostedAsVerified /\ NeverOlder
  BY <1>7, RecoveryIsNewer, NobodyPosts DEF PrepInv, PersonRecovers
<1> QED BY <1>1, <1>2, <1>3, <1>4, <1>5, <1>6, <1>7 DEF PeopleNext

LEMMA HostsVerified ==
  ASSUME PrepInv, NEW e \in Executions,
         HostBegins(e) \/ HostWrites(e) \/ Denied(e) \/ Expire(e) \/ Halt(e)
  PROVE  PostedAsVerified /\ NeverOlder
<1>1. CASE HostBegins(e)
  <2>1. UNCHANGED <<prepBooks, report>>
    BY <1>1 DEF HostBegins, HostImports, HostProposes, RoutineProposes, HostConfirms, HostCorrects, HostAdjusts,
       HostReconciles, Begins, reporting
  <2> QED BY <2>1, NobodyPosts, ReportUntouched DEF PrepInv
<1>2. CASE Denied(e) \/ Expire(e) \/ Halt(e) \/ Repeat(e)
  BY <1>2, NobodyPosts, ReportUntouched DEF PrepInv, Denied, Expire, Halt, Repeat, reporting
<1>3. CASE CommitImport(e)
  BY <1>3, ImportAsVerified, ReportUntouched DEF PrepInv, CommitImport, reporting
<1>4. CASE CommitConfirm(e)
  BY <1>4, ConfirmAsVerified, ReportUntouched DEF PrepInv, CommitConfirm, reporting
<1>5. CASE CommitCorrection(e)
  BY <1>5, CorrectionAsVerified, ReportUntouched DEF PrepInv, CommitCorrection, reporting
<1>6. CASE CommitAdjustment(e)
  BY <1>6, AdjustmentAsVerified, ReportUntouched DEF PrepInv, CommitAdjustment, reporting
<1>7. CASE CommitProposal(e) \/ FinishConfirm(e) \/ RecoverConfirm(e)
  BY <1>7, NobodyPosts, ReportUntouched
  DEF PrepInv, CommitProposal, FinishConfirm, RecoverConfirm, FinishItem, reporting
<1>8. CASE StageReport(e) \/ StageManifest(e) \/ Audit(e) \/ RemoveStage(e)
  BY <1>8, NobodyPosts, ReportUntouched DEF PrepInv, StageReport, StageManifest, Audit, RemoveStage, To
<1>9. CASE HostRecovers(e)
  BY <1>9, RecoveryIsNewer, NobodyPosts DEF PrepInv, HostRecovers
<1>10. CASE PublishReport(e)
  <2>1. stage # Missing /\ stage \in audits
    BY <1>10 DEF PrepInv, InProgress, Progress, PublishReport, In
  <2> QED BY <1>10, <2>1, AuditedOnce, NobodyPosts DEF PrepInv, PublishReport, To
<1> QED BY <1>1, <1>2, <1>3, <1>4, <1>5, <1>6, <1>7, <1>8, <1>9, <1>10 DEF HostWrites

LEMMA StepVerified ==
  PrepInv /\ [PrepNext]_prepVars => [PostedAsVerified /\ NeverOlder]_<<prepBooks, report>>
BY PeopleVerified, HostsVerified DEF PrepNext, prepVars, reporting

\* What a host posts is the document and the item it verified, inside its policy, directly
\* and through the entries a correction stands for, and the audit log names it once; and the
\* reconciliation report never goes back, whatever stops and is recovered
\* (preparation_runtime.record_preparation, recover_preparation_reconciliations).
THEOREM ActsAsVerified == PrepSpec => HostActsAsVerified
BY PrepInvariance, StepVerified, PTL DEF PrepSpec, HostActsAsVerified
================================================================================
