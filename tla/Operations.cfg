SPECIFICATION Operations
CONSTANTS
  Callers = {"a"}
  Currencies = {"USD", "EUR"}
  Days = {}
  Charts <- OneChart
  Mapped = {}
  AccrualNames = {"Due"}
  OwnNames = {"Own"}
  Rows = {"r1"}
  AccountOf <- ToBank
  Values = {}
  Notes = {}
  Kinds = {"currency"}
  MaxEvents = 3
  MaxStops = 1
  Owners = {"o"}
  None = None
  Nothing = Nothing
  Sessions = {"p1", "p2"}
  Requests = {"r"}
  Intents <- Questioned
  Texts = {"t"}
  MaxOthers = 2
  MaxGrants = 1
  f1 = f1
  f2 = f2
  Settings = {"USD"}
  Documents = {"v1"}
  Extras = {}
  Connections = {"c1"}
  CompanyOf <- SameAs
  Keys = {"k"}
  Explanations = {"n", "m"}
  Clients = {"p1", "p2"}
  MaxWrites = 0
  Abroad = Abroad
  Torn = Torn
  Absent = Absent
  Desks = {"p1", "p2"}
  Commands = {"get", "put"}
  MaxOrders = 1
  MaxForeign = 1
  MaxEdits = 0
  MaxTokens = 0
  Unset = Unset
  HostRows = {"r1"}
  Versions <- PrepDocuments
  AmountOf <- SizeOf
  PeriodOf <- OneMonth
  Categories = {"A", "B"}
  RuleFor <- RowRule
  ReportKeys = {"k1", "k2"}
  PeriodOfKey <- OneMonth
  Figures = {}
  Questions = {}
  Executions = {"e1"}
  Actions = {"import", "categorize"}
  FirstPeriod = 1
  LastPeriod = 1
  Held = {}
  HeldEntries = {1}
  Ceiling = 1
  MaxEntries = 2
  MaxSaves = 0
  MaxHalts = 1
  Missing = Missing
CHECK_DEADLOCK FALSE
INVARIANTS EntriesInOneCurrency NamedAccountsExist PlanUsedOnce ChainsNet QbOpeningAsShown AdoptionRecorded OutcomeAsSaid
PROPERTIES OthersSettingsKept HostActsAsVerified KeepsCopy KeepsWhatCameSince
