--------------------------- MODULE CompanySettings ---------------------------
(* One company is kept in two places: ledger.sqlite, whose every commit ends in *)
(* a seal over its content, and entity.json, which a command replaces as a      *)
(* whole.  No transaction spans the two, so each command that changes both has  *)
(* an order: the currency, the basis and accrual tracking commit the ledger     *)
(* first and then replace the file; the fiscal year, the tax settings and the   *)
(* reporting goals replace the file inside the ledger transaction, just before  *)
(* its commit.  A stop in between leaves one of the two ahead: the currency is  *)
(* repaired from the ledger, a basis that differs refuses to load, tracking is  *)
(* finished by repeating the command, and the rest stays as it is.              *)
(*                                                                              *)
(* Commands run one at a time under the entity lock, but a command line loads   *)
(* the company before it waits for the lock (snap), and an owner previews before *)
(* applying (held).  The plan hash of a preview covers the content of the ledger *)
(* and the configuration it read, so a plan is modelled by both.                *)
EXTENDS Integers, FiniteSets

CONSTANTS Callers,      \* command lines that load the company ahead of the lock
          Currencies,   \* supported currencies, "USD" among them
          Days,         \* days accrual tracking may start on
          Charts,       \* for each business type, the accounts of its starter chart
          AccrualNames, \* the starter accounts accrual books add
          OwnNames,     \* accounts an owner may add with account-add
          Rows,         \* bank rows
          AccountOf,    \* the bank account of each row
          Values,       \* the values of the fiscal year and of the reporting goals
          Mapped,       \* accounts an owner names in entity.json
          Notes,        \* "coverage" and "onboarded": facts only entity.json records
          Kinds,        \* the kinds of the plans that owners preview
          Owners,       \* who previews and applies
          MaxEvents,    \* sealed ledger transactions after the company's first one
          MaxStops,
          None

VARIABLES ledger,  \* the content of ledger.sqlite
          audit,   \* its audit events, reduced to what the commands read
          file,    \* entity.json
          staged,  \* rows waiting for review
          run,     \* the command that holds the lock
          snap,    \* the currency each waiting command line loaded
          held,    \* the preview in each owner's hands
          stops
vars == <<ledger, audit, file, staged, run, snap, held, stops>>

\* The accounts there may be, by name.
Names == UNION {Charts[b] : b \in DOMAIN Charts} \cup AccrualNames \cup OwnNames
         \cup {AccountOf[r] : r \in Rows}
Annual == {"fiscal", "method", "profile"}
Bases == {"cash", "accrual"}
Sources == {"default", "inferred", "set"}

\* What the two places hold of a company.
Ledger ==
  [basis: Bases, schema: {1, 2}, currency: Currencies \cup {None}, source: Sources,
   tracking: Days \cup {0}, business: DOMAIN Charts, receipts: SUBSET Days,
   entries: [Rows -> Currencies \cup {None}], accounts: [Names -> Currencies \cup {None}]]
File ==
  [basis: Bases, capability: {0, 1}, currency: Currencies \cup {None}, source: Sources,
   tracking: Days \cup {0}, business: DOMAIN Charts, fiscal: Values \cup {0}, method: Values \cup {0},
   profile: Values \cup {0}, goals: Values \cup {0}, notes: SUBSET Notes,
   mapped: Names \cup {None}, related: Names \cup {None}, approved: BOOLEAN]

ASSUME SettingsAssumption ==
  /\ "USD" \in Currencies
  /\ None \notin Currencies \cup Names /\ None \notin Ledger /\ None \notin File
  /\ MaxEvents \in Nat /\ MaxStops \in Nat

Idle == [step |-> "idle", config |-> None, arg |-> {}]
Run(step, config, arg) == [step |-> step, config |-> config, arg |-> arg]
Free == run.step = "idle"
--------------------------------------------------------------------------------
(* READING THE COMPANY *)

Default == "USD"
CurrencyOf(f) == IF f.currency = None THEN Default ELSE f.currency

\* A ledger that records a currency is the one entity.json is repaired from.
Repaired(f) ==
  IF ledger.currency = None THEN f
  ELSE [f EXCEPT !.currency = ledger.currency, !.source = ledger.source]

Loads == file # None /\ ledger # None /\ file.basis = ledger.basis
Loaded == Repaired(file)

\* Taking the lock finishes an entity.json that a stop left behind the ledger.
Locked == Free /\ Loads

\* The accounts that entity.json names, which an account command may not remove.
Named(f) == {f.mapped, f.related} \ {None}
Catalog == {n \in Names : ledger.accounts[n] # None}
InUse(a) == \E r \in Rows : ledger.entries[r] # None /\ AccountOf[r] = a

Posted(l) == {r \in Rows : l.entries[r] # None}
Integrity == audit.head = 0 \/ audit.sealed = ledger
Activity == Posted(ledger) # {} \/ staged # {}
BookCurrency(l, previous) == IF l.currency = None THEN previous ELSE l.currency

Seal(l, a) ==
  /\ audit.head < MaxEvents
  /\ ledger' = l
  /\ audit' = [a EXCEPT !.head = @ + 1, !.sealed = l]

Opened(accounts, names, currency) ==
  [n \in Names |-> IF n \in names THEN currency ELSE accounts[n]]

\* MUTANTS: a plan of the goals that does not cover the last event; a preview of a
\* removal that ignores entity.json; an import that keeps the command line's view.
PlanWithoutEvent(kind, to) ==
  [kind |-> kind, to |-> to, content |-> ledger,
   config |-> IF kind = "remove" THEN file ELSE Loaded, event |-> 0]


\* What a preview shows is a function of what its plan hash covers.
Plan(kind, to) ==
  [kind |-> kind, to |-> to, content |-> ledger,
   config |-> IF kind = "remove" THEN file ELSE Loaded,
   event |-> CASE kind = "remove" -> audit.head [] kind = "goals" -> audit.goalsHead [] OTHER -> 0]

Previewed(o, kind, to) == held[o] = Plan(kind, to)
\* The event of an apply carries the plan hash.
Used(plan) == [event |-> audit.head + 1, plan |-> plan]
--------------------------------------------------------------------------------
(* A NEW COMPANY *)

NewFile(basis, business) ==
  [basis |-> basis, capability |-> IF basis = "accrual" THEN 1 ELSE 0,
   currency |-> None, source |-> "default", tracking |-> 0, business |-> business,
   fiscal |-> 0, method |-> 0, profile |-> 0, goals |-> 0, notes |-> {}, mapped |-> None, related |-> None,
   approved |-> FALSE]

NewLedger(basis, business) ==
  [basis |-> basis, schema |-> 1, currency |-> None, source |-> "default", tracking |-> 0,
   business |-> business, receipts |-> {}, entries |-> [r \in Rows |-> None],
   accounts |-> Opened([n \in Names |-> None],
                       Charts[business] \cup (IF basis = "accrual" THEN AccrualNames ELSE {}), Default)]

Init ==
  /\ ledger = None /\ file = None /\ staged = {} /\ run = Idle /\ stops = 0
  /\ held = [o \in Owners |-> None]
  /\ audit = [head |-> 0, sealed |-> None, goals |-> 0, goalsHead |-> 0, added |-> {}, plans |-> {}]
  /\ snap = [c \in Callers |-> None]

\* The ledger is created and filled as one; a stop between the two is left out.
InitLedger(basis, business) ==
  /\ Free /\ ledger = None
  /\ ledger' = NewLedger(basis, business)
  /\ run' = Run(IF basis = "accrual" THEN "init" ELSE "publish", NewFile(basis, business), {})
  /\ UNCHANGED <<audit, file, staged, snap, held, stops>>

InitUpgrade ==
  /\ run.step = "init"
  /\ Seal([ledger EXCEPT !.schema = 2], audit)
  /\ run' = [run EXCEPT !.step = "publish"]
  /\ UNCHANGED <<file, staged, snap, held, stops>>

\* MUTANT: the file may come before the ledger.
InitFileFirst(basis, business) ==
  /\ Free /\ file = None
  /\ file' = NewFile(basis, business)
  /\ UNCHANGED <<ledger, audit, staged, run, snap, held, stops>>

\* The ledger that a stopped init left behind is taken as it is.
InitAgain(basis, business) ==
  /\ Free /\ ledger # None /\ file = None
  /\ file' = NewFile(basis, business)
  /\ UNCHANGED <<ledger, audit, staged, run, snap, held, stops>>
--------------------------------------------------------------------------------
(* STEPS THAT COMMANDS SHARE *)

LoadConfig(c) ==
  /\ Loads /\ snap[c] = None
  /\ snap' = [snap EXCEPT ![c] = CurrencyOf(Loaded)]
  /\ UNCHANGED <<ledger, audit, file, staged, run, held, stops>>

Preview(o, kind, to) ==
  /\ file # None /\ (Loads \/ kind = "remove")
  /\ kind = "enable" => Loaded.tracking \in {0, to}
  /\ held' = [held EXCEPT ![o] = Plan(kind, to)]
  /\ UNCHANGED <<ledger, audit, file, staged, run, snap, stops>>

\* The second half of a command that commits the ledger first.
Publish ==
  /\ run.step = "publish"
  /\ file' = run.config
  /\ staged' = staged \cup run.arg
  /\ run' = Idle
  /\ UNCHANGED <<ledger, audit, snap, held, stops>>

\* A killed process: an open transaction rolls back, files stay as they are.
Stop ==
  /\ ~Free /\ stops < MaxStops
  /\ run' = Idle /\ stops' = stops + 1
  /\ UNCHANGED <<ledger, audit, file, staged, snap, held>>
--------------------------------------------------------------------------------
(* THE CURRENCY *)

\* The ledger half of a currency change.
WithCurrency(l, previous, code, source) ==
  [l EXCEPT !.currency = code, !.source = source,
            !.accounts = [n \in Names |-> IF @[n] = previous THEN code ELSE @[n]]]

SetCurrency(o, code) ==
  /\ Locked /\ Previewed(o, "currency", code) /\ ~Activity
  /\ <<CurrencyOf(Loaded), Loaded.source>> # <<code, "set">>
  /\ Seal(WithCurrency(ledger, CurrencyOf(Loaded), code, "set"), audit)
  /\ file' = Loaded
  /\ run' = Run("publish", [Loaded EXCEPT !.currency = code, !.source = "set"], {})
  /\ UNCHANGED <<staged, snap, held, stops>>

ResolvedEarly(c, named) ==
  IF named \in {None, snap[c]} THEN snap[c]
  ELSE IF Loaded.source = "set" \/ Activity THEN None ELSE named


\* The currency an import books in; None refuses it.  A row that names no
\* currency is booked in the one the command line loaded.
Resolved(c, named) ==
  IF named \in {None, snap[c]} THEN snap[c]
  ELSE IF named = CurrencyOf(Loaded) THEN named
  ELSE IF Loaded.source = "set" \/ Activity THEN None ELSE named
Adopting(c, named) == Resolved(c, named) \notin {snap[c], CurrencyOf(Loaded)}
Adopted(code) == [Loaded EXCEPT !.currency = code, !.source = "inferred"]

PostUnchecked(r, code, adopting) ==
  LET previous == CurrencyOf(Loaded)
      l == IF adopting THEN WithCurrency(ledger, previous, code, "inferred") ELSE ledger
  IN /\ Seal([l EXCEPT !.entries[r] = code], audit)
     /\ run' = IF adopting THEN Run("publish", Adopted(code), {}) ELSE Idle


\* Entries go in with the adoption, or not at all when their currency is foreign.
Post(r, code, adopting) ==
  LET previous == CurrencyOf(Loaded)
      l == IF adopting THEN WithCurrency(ledger, previous, code, "inferred") ELSE ledger
      missing == {n \in {AccountOf[r]} : l.accounts[n] = None}
  IN /\ code = BookCurrency(l, previous)
     /\ Seal([l EXCEPT !.entries[r] = code, !.accounts = Opened(@, missing, code)], audit)
     /\ run' = IF adopting THEN Run("publish", Adopted(code), {}) ELSE Idle

ImportPosts(c, r, named) ==
  /\ Locked /\ snap[c] # None /\ ledger.entries[r] = None /\ r \notin staged
  /\ Resolved(c, named) # None
  /\ Post(r, Resolved(c, named), Adopting(c, named))
  /\ file' = Loaded /\ snap' = [snap EXCEPT ![c] = None]
  /\ UNCHANGED <<staged, held, stops>>

\* A row for review adopts first, from the currency the command line loaded.
ImportStages(c, r, named) ==
  /\ Locked /\ snap[c] # None /\ ledger.entries[r] = None /\ r \notin staged
  /\ Resolved(c, named) # None
  /\ file' = Loaded /\ snap' = [snap EXCEPT ![c] = None]
  /\ IF Adopting(c, named)
     THEN LET code == Resolved(c, named)
          IN /\ Seal(WithCurrency(ledger, snap[c], code, "inferred"), audit)
             /\ run' = Run("publish", Adopted(code), {r})
             /\ UNCHANGED staged
     ELSE staged' = staged \cup {r} /\ UNCHANGED <<ledger, audit, run>>
  /\ UNCHANGED <<held, stops>>

Confirm(c, r) ==
  /\ Locked /\ snap[c] # None /\ r \in staged
  /\ Post(r, snap[c], FALSE)
  /\ file' = Loaded /\ staged' = staged \ {r} /\ snap' = [snap EXCEPT ![c] = None]
  /\ UNCHANGED <<held, stops>>
--------------------------------------------------------------------------------
(* THE ACCOUNT CATALOG *)

AddAccount(c, a) ==
  LET code == snap[c]
      conflict == \E r \in Posted(ledger) : AccountOf[r] = a /\ ledger.entries[r] # code
  IN /\ Free /\ code # None /\ Integrity
     /\ ledger.accounts[a] # code /\ ~(ledger.accounts[a] # None /\ conflict)
     /\ Seal([ledger EXCEPT !.accounts[a] = code],
             [audit EXCEPT !.added = IF ledger.accounts[a] = None THEN @ \cup {a} ELSE @])
     /\ file' = Loaded /\ snap' = [snap EXCEPT ![c] = None]
     /\ UNCHANGED <<staged, run, held, stops>>

RemoveNamed(o, a) ==
  /\ Free /\ held[o] # None /\ held[o].kind = "remove" /\ held[o].to = a
  /\ held[o].content = ledger /\ Integrity
  /\ a \in Catalog /\ a \in audit.added /\ ~InUse(a) /\ a \notin Named(held[o].config)
  /\ Seal([ledger EXCEPT !.accounts[a] = None], [audit EXCEPT !.added = @ \ {a}])
  /\ UNCHANGED <<file, staged, run, snap, held, stops>>


\* Takes the lock without the repair, so entity.json is compared and left as it is.
RemoveAccount(o, a) ==
  /\ Free /\ Previewed(o, "remove", a) /\ Integrity
  /\ a \in Catalog /\ a \in audit.added /\ ~InUse(a) /\ a \notin Named(file)
  /\ Seal([ledger EXCEPT !.accounts[a] = None],
          [audit EXCEPT !.added = @ \ {a}, !.plans = @ \cup {Used(held[o])}])
  /\ UNCHANGED <<file, staged, run, snap, held, stops>>

ApplyStarterAccounts(business) ==
  LET chart == Charts[business] \cup (IF Loaded.basis = "accrual" THEN AccrualNames ELSE {})
      missing == chart \ Catalog
      removed == ((Charts[Loaded.business] \ chart) \cap Catalog) \ Named(Loaded)
      l == [ledger EXCEPT !.business = business,
                          !.accounts = Opened(Opened(@, removed, None), missing, CurrencyOf(Loaded))]
  IN /\ Locked /\ Integrity /\ Posted(ledger) = {}
     /\ IF l # ledger THEN Seal(l, audit) ELSE UNCHANGED <<ledger, audit>>
     /\ file' = Loaded
     /\ run' = IF Loaded.business # business
               THEN Run("publish", [Loaded EXCEPT !.business = business], {}) ELSE Idle
     /\ UNCHANGED <<staged, snap, held, stops>>
--------------------------------------------------------------------------------
(* BASIS, VIEW AND ACCRUAL TRACKING: the ledger first, the file second *)

\* The accrual starter accounts open in dollars, whatever the company's currency.
CommitBasis(basis) ==
  /\ Seal([ledger EXCEPT !.basis = basis,
                         !.schema = IF basis = "accrual" THEN 2 ELSE @,
                         !.accounts = Opened(@, IF basis = "accrual" THEN AccrualNames ELSE {}, Default)],
          audit)
  /\ run' = Run("publish", [Loaded EXCEPT !.basis = basis,
                                          !.capability = IF basis = "accrual" THEN 1 ELSE 0], {})

ConfigureBasis(basis) ==
  /\ Locked /\ Integrity /\ Posted(ledger) = {} /\ ledger.receipts = {}
  /\ IF basis = "accrual" /\ ledger.schema = 1
     THEN Seal([ledger EXCEPT !.schema = 2], audit) /\ run' = Run("basis", None, basis)
     ELSE CommitBasis(basis)
  /\ file' = Loaded
  /\ UNCHANGED <<staged, snap, held, stops>>

FinishBasis ==
  /\ run.step = "basis"
  /\ CommitBasis(run.arg)
  /\ UNCHANGED <<file, staged, snap, held, stops>>

SetView(o, view) ==
  /\ Locked /\ Previewed(o, "view", view) /\ Integrity
  /\ view # Loaded.basis
  /\ view = "accrual" => Loaded.capability = 1 /\ ledger.schema = 2
  /\ Seal([ledger EXCEPT !.basis = view], audit)
  /\ file' = Loaded
  /\ run' = Run("publish", [Loaded EXCEPT !.basis = view], {})
  /\ UNCHANGED <<staged, snap, held, stops>>

Tracked(day) == [Loaded EXCEPT !.capability = 1, !.tracking = day]

CommitEnable(day) ==
  LET missing == AccrualNames \ Catalog
  IN /\ Seal([ledger EXCEPT !.schema = 2, !.tracking = day, !.receipts = @ \cup {day},
                            !.accounts = Opened(@, missing, CurrencyOf(Loaded))], audit)
     /\ run' = Run("publish", Tracked(day), {})

\* Whether tracking is on is read from entity.json; existing accrual accounts in
\* another currency refuse.
EnableAccrual(o, day) ==
  /\ Locked /\ Previewed(o, "enable", day) /\ Integrity
  /\ day \notin ledger.receipts
  /\ Loaded.tracking = 0 /\ Loaded.capability = 0 /\ Loaded.basis = "cash"
  /\ \A n \in AccrualNames : ledger.accounts[n] \in {None, CurrencyOf(Loaded)}
  /\ file' = Loaded
  /\ IF ledger.schema = 1
     THEN Seal([ledger EXCEPT !.schema = 2], audit) /\ run' = Run("enable", None, day)
     ELSE CommitEnable(day)
  /\ UNCHANGED <<staged, snap, held, stops>>

FinishEnable ==
  /\ run.step = "enable"
  /\ CommitEnable(run.arg)
  /\ UNCHANGED <<file, staged, snap, held, stops>>

\* The receipt answers a repeat, which finishes the file a stop left behind.
RepeatEnable(o, day) ==
  /\ Locked /\ held[o] # None /\ held[o].kind = "enable" /\ held[o].to = day
  /\ day \in ledger.receipts
  /\ file' = Tracked(day) /\ file' # file
  /\ UNCHANGED <<ledger, audit, staged, run, snap, held, stops>>
--------------------------------------------------------------------------------
(* SETTINGS REPLACED INSIDE THE LEDGER TRANSACTION, before it commits *)

ReplaceFile(o, kind, v) ==
  /\ Locked /\ Previewed(o, kind, v) /\ Integrity
  /\ Loaded[kind] # v
  /\ file' = [Loaded EXCEPT ![kind] = v]
  /\ run' = Run(kind, None, v)
  /\ UNCHANGED <<ledger, audit, staged, snap, held, stops>>

SetFiscalYear(o, v) == ReplaceFile(o, "fiscal", v)
SetTaxMethod(o, v) == ReplaceFile(o, "method", v)
SetTaxProfile(o, v) == ReplaceFile(o, "profile", v)

\* Each event is sealed with the ledger as it is; none of them is in the content.
CommitSetting ==
  /\ run.step \in Annual
  /\ Seal(ledger, audit) /\ run' = Idle
  /\ UNCHANGED <<file, staged, snap, held, stops>>

RecordGoals(plan) ==
  Seal(ledger, [audit EXCEPT !.goals = plan.to, !.goalsHead = audit.head + 1,
                             !.plans = @ \cup {Used(plan)}])

\* A value that the file holds and no event records is confirmed by a fresh plan.
SetGoals(o, v) ==
  /\ Locked /\ Previewed(o, "goals", v) /\ Integrity
  /\ IF Loaded.goals # v
     THEN /\ file' = [Loaded EXCEPT !.goals = v]
          /\ run' = Run("goals", file, held[o])
          /\ UNCHANGED <<ledger, audit>>
     ELSE /\ audit.goals # v
          /\ RecordGoals(held[o])
          /\ UNCHANGED <<file, run>>
  /\ UNCHANGED <<staged, snap, held, stops>>

CommitGoalsStale ==
  /\ run.step = "goals"
  /\ RecordGoals(run.arg) /\ run' = Idle /\ file' = run.config
  /\ UNCHANGED <<staged, snap, held, stops>>


CommitGoals ==
  /\ run.step = "goals"
  /\ RecordGoals(run.arg) /\ run' = Idle
  /\ UNCHANGED <<file, staged, snap, held, stops>>

\* A commit that fails leaves no event, so the original bytes are put back.
GoalsFail ==
  /\ run.step = "goals" /\ stops < MaxStops
  /\ file' = run.config /\ run' = Idle /\ stops' = stops + 1
  /\ UNCHANGED <<ledger, audit, staged, snap, held>>
--------------------------------------------------------------------------------
(* SETTINGS THAT ONLY ENTITY.JSON HOLDS *)

MapBankAccount(a) ==
  /\ Locked /\ a \in Catalog /\ file.mapped # a
  /\ file' = [Loaded EXCEPT !.mapped = a]
  /\ UNCHANGED <<ledger, audit, staged, run, snap, held, stops>>

RecordFactAlone(n) ==
  /\ Locked /\ n \notin file.notes
  /\ file' = [Loaded EXCEPT !.notes = {n}, !.mapped = None]
  /\ UNCHANGED <<ledger, audit, staged, run, snap, held, stops>>


\* Coverage joins what is recorded, and the first record of onboarding stays.
RecordFact(n) ==
  /\ Locked /\ n \notin file.notes
  /\ file' = [Loaded EXCEPT !.notes = @ \cup {n}]
  /\ UNCHANGED <<ledger, audit, staged, run, snap, held, stops>>

\* Recording a policy again takes back the owner's approval of it.
RecordRelated(a) ==
  /\ Locked /\ a \in Catalog
  /\ file' = [Loaded EXCEPT !.related = a, !.approved = FALSE]
  /\ file' # file
  /\ UNCHANGED <<ledger, audit, staged, run, snap, held, stops>>

ApproveRelated ==
  /\ Locked /\ file.related # None /\ ~file.approved
  /\ file' = [Loaded EXCEPT !.approved = TRUE]
  /\ UNCHANGED <<ledger, audit, staged, run, snap, held, stops>>
--------------------------------------------------------------------------------
Choices(kind) ==
  CASE kind = "currency" -> Currencies [] kind = "view" -> Bases [] kind = "enable" -> Days
    [] kind \in Annual \cup {"goals"} -> Values [] kind = "remove" -> OwnNames

Next ==
  \/ \E b \in Bases, t \in DOMAIN Charts : InitLedger(b, t) \/ InitAgain(b, t)
  \/ InitUpgrade \/ Publish \/ Stop
  \/ \E c \in Callers : LoadConfig(c)
  \/ \E o \in Owners, k \in Kinds : \E v \in Choices(k) : Preview(o, k, v)
  \/ \E o \in Owners, k \in Currencies : SetCurrency(o, k)
  \/ \E c \in Callers, r \in Rows, k \in Currencies \cup {None} : ImportPosts(c, r, k)
  \/ \E c \in Callers, r \in Rows, k \in Currencies \cup {None} : ImportStages(c, r, k)
  \/ \E c \in Callers, r \in Rows : Confirm(c, r)
  \/ \E c \in Callers, a \in OwnNames : AddAccount(c, a)
  \/ \E o \in Owners, a \in OwnNames : RemoveAccount(o, a)
  \/ \E t \in DOMAIN Charts : ApplyStarterAccounts(t)
  \/ \E b \in Bases : ConfigureBasis(b)
  \/ FinishBasis \/ FinishEnable
  \/ \E o \in Owners, b \in Bases : SetView(o, b)
  \/ \E o \in Owners, d \in Days : EnableAccrual(o, d) \/ RepeatEnable(o, d)
  \/ \E o \in Owners, v \in Values : SetFiscalYear(o, v) \/ SetTaxMethod(o, v) \/ SetTaxProfile(o, v)
  \/ CommitSetting
  \/ \E o \in Owners, v \in Values : SetGoals(o, v)
  \/ CommitGoals \/ GoalsFail
  \/ \E a \in Mapped : MapBankAccount(a) \/ RecordRelated(a)
  \/ \E n \in Notes : RecordFact(n)
  \/ ApproveRelated

Spec == Init /\ [][Next]_vars
--------------------------------------------------------------------------------
(* PROPERTIES *)

\* The company is in its types: a ledger without a file only while init is under way.
TypeOK ==
  /\ ledger = None => file = None
  /\ ledger # None => ledger \in Ledger
  /\ file # None => file \in File
  /\ audit.head \in 0..MaxEvents /\ audit.added \subseteq OwnNames
  /\ staged \subseteq Rows /\ snap \in [Callers -> Currencies \cup {None}]

\* One company, one currency: every entry is in the currency that a command loads,
\* although adoption writes two stores and command lines load before the lock.
EntriesInOneCurrency ==
  Loads => \A r \in Posted(ledger) : ledger.entries[r] = CurrencyOf(Loaded)

\* An account that entity.json names is in the catalog: account-remove and the
\* starter accounts read the one store and change the other.
NamedAccountsExist == file # None => Named(file) \subseteq Catalog

\* entity.json is rewritten as a whole, and yet no command takes back what another
\* recorded there: facts stay, and each setting changes only by its own command.
OthersSettingsKept ==
  [][file # None =>
       /\ file.notes \subseteq file'.notes
       /\ file'.mapped # file.mapped => Free /\ file'.mapped # None
       /\ file'.approved # file.approved => Free /\ file'.related # None
       /\ \A k \in Annual : file'[k] # file[k] => run'.step = k
       /\ file'.goals # file.goals => "goals" \in {run.step, run'.step}]_vars

\* A used plan cannot confirm a later change of the goals or of the catalog, even
\* when the company is back in the state that was previewed.
PlanUsedOnce == \A u, w \in audit.plans : u.plan = w.plan => u = w

\* "The start date cannot change" once accrual tracking is on.
TrackingStartFixed ==
  [][file # None /\ file.tracking # 0 => file'.tracking = file.tracking]_vars
================================================================================
