---------------------------- MODULE MCOperations -----------------------------
(* The commands of one company beside posting and review.  Its settings are     *)
(* asked four questions: what the currency does to imports and accounts, how    *)
(* accounts that entity.json names come and go, how basis and tracking follow   *)
(* each other, and how commands rewrite one file.  Corrections are asked about  *)
(* two rows and about a long chain of one; QuickBooks openings, the commands    *)
(* under a standing policy, the export and adoption of a company, and its       *)
(* remote commands and questions follow.  Each question is an instance with the *)
(* commands that matter to it; the first state picks one.                       *)
EXTENDS CompanySettings, CloudQuestions, CompanyAdoption, RemoteBooks, StandingPreparation, MCQuickbooksSamples

CONSTANTS f1, f2  \* source ids of replacements
VARIABLES part, entries, locked,                     \* LedgerCorrections
          qbEntries, company, evidence, cmd, answer  \* QuickbooksOpening

TwoCharts == [service |-> {"Fees"}, shop |-> {"Stock"}]
OneChart == [shop |-> {"Stock"}]
ToBank == [r \in Rows |-> "Bank"]

Catalogue == INSTANCE CompanySettings WITH
  Charts <- TwoCharts, Mapped <- {"Own"}, Kinds <- {"remove"}
Tracking == INSTANCE CompanySettings WITH
  Callers <- {}, Days <- {1}, Kinds <- {"view", "enable"}, MaxEvents <- 4
Shared == INSTANCE CompanySettings WITH
  Callers <- {}, Values <- {0, 1}, Notes <- {"coverage"},
  Kinds <- {"currency", "fiscal", "method", "profile"}, MaxEvents <- 2
Policies == INSTANCE CompanySettings WITH
  Callers <- {}, Mapped <- {"Stock"}, Notes <- {"onboarded"}, Values <- {0, 1},
  Kinds <- {"goals"}, MaxEvents <- 2
Goals == INSTANCE CompanySettings WITH
  Callers <- {}, Currencies <- {"USD"}, Values <- {0, 1}, Kinds <- {"goals"}

Pair == INSTANCE LedgerCorrections WITH
  Rows <- {"r1", "r2"}, Spellings <- {"raw", "prefixed"}, Fixes <- {f1, f2},
  Banks <- {"C", "D"}, Categories <- {"A", "B"}, Amounts <- {1}, Ceiling <- 1,
  Months <- {}, MonthOf <- [r1 |-> 1, r2 |-> 1], BankOf <- [r1 |-> "C", r2 |-> "C"],
  MaxRequest <- 2, Managed <- {}, AnySpelling <- FALSE, MaxEntries <- 5
Chain == INSTANCE LedgerCorrections WITH
  Rows <- {"r1", "own"}, Spellings <- {"raw"}, Fixes <- {f1, f2},
  Banks <- {"C"}, Categories <- {"A", "B"}, Amounts <- {1, 2}, Ceiling <- 1,
  Months <- {1, 2}, MonthOf <- [r1 |-> 1, own |-> 1], BankOf <- [r1 |-> "C", own |-> "C"],
  MaxRequest <- 1, Managed <- {"own"}, AnySpelling <- FALSE, MaxEntries <- 6

QbSync == INSTANCE QuickbooksOpening WITH
  Snapshots <- {Complete, Foreign}, Files <- {Exported}, Cutovers <- {2}, Accounts <- QbAccounts,
  Periodic <- {"Sales"}, Legacy <- {<<>>}, Rows <- {1}, RowDays <- {2, 3}, Home <- "USD",
  MaxEntries <- 3, entries <- qbEntries
QbRepair == INSTANCE QuickbooksOpening WITH
  Snapshots <- {SheetOnly, Differing}, Files <- {Exported, NoChart}, Cutovers <- {2}, Accounts <- QbAccounts,
  Periodic <- {"Sales"}, Legacy <- {<<[OldOpening EXCEPT !.reverses = None]>>}, Rows <- {}, RowDays <- {},
  Currencies <- {}, Home <- "USD", MaxEntries <- 4, entries <- qbEntries

PrepDocuments == {"v1", "v3"}
SizeOf == [v1 |-> 1, v3 |-> 2]
OneMonth == [v1 |-> 1, v3 |-> 1, k1 |-> 1, k2 |-> 1]
RowRule == [r1 |-> "A"]
PrepRoutine == INSTANCE StandingPreparation WITH
  HostRows <- {"r1", "r2"}, Categories <- {"A"}, RuleFor <- [r1 |-> "A", r2 |-> Missing],
  Questions <- {{"r1", "r2"}}, Actions <- {"categorize"}, MaxEntries <- 0
PrepEntries == INSTANCE StandingPreparation WITH
  HostRows <- {}, RuleFor <- <<>>, Actions <- {"correct", "adjust"}, MaxEntries <- 3
PrepReports == INSTANCE StandingPreparation WITH
  HostRows <- {}, Versions <- {"v1"}, Categories <- {"A"}, RuleFor <- <<>>,
  Figures <- {0 - 1, 0}, Actions <- {"reconcile"}, MaxEntries <- 1, MaxSaves <- 3

SameAs == [c \in {"c1", "c2"} |-> c]
Leaving == INSTANCE CompanyAdoption WITH
  Settings <- {"USD", "EUR"}, Documents <- {"v1", "v3"}, Extras <- {"vcs", "code", "document"}, Connections <- {},
  CompanyOf <- <<>>, Keys <- {}, Explanations <- {}, Clients <- {}, MaxWrites <- 2
Joining == INSTANCE CompanyAdoption WITH
  Connections <- {"c1", "c2"}, Explanations <- {"n"}, Clients <- {"p1"}, MaxWrites <- 1

Commanding == INSTANCE RemoteBooks WITH
  Desks <- {"p1"}, Commands <- {"read", "write"}, MaxOrders <- 2, MaxEdits <- 1, MaxTokens <- 1
Sharing == INSTANCE RemoteBooks WITH Desks <- {"p1"}, MaxOrders <- 2, MaxEdits <- 1, MaxTokens <- 1
Replacing == INSTANCE RemoteBooks WITH
  Desks <- {"p1"}, Commands <- {"get", "put", "replace"}, MaxEdits <- 1
Question == [does |-> "ask", question |-> Nothing, text |-> "t"]
Reply == [does |-> "reply", question |-> 1, text |-> "t"]
Resolution == [does |-> "resolve", question |-> 1, text |-> Nothing]
Questioned == {Question, Reply, Resolution}
------------------------------------------------------------------------------
qbVars == <<qbEntries, company, evidence, cmd, answer>>
otherVars == <<adoptionVars, booksVars, qvars>>
OtherInit == AdoptionInit /\ BooksInit /\ QInit
SettingsInit ==
  /\ \/ part = "currency" /\ Init
     \/ part = "catalog" /\ Catalogue!Init
     \/ part = "tracking" /\ Tracking!Init
     \/ part = "shared" /\ Shared!Init
     \/ part = "policies" /\ Policies!Init
     \/ part = "goals" /\ Goals!Init
  /\ Pair!Init /\ QbSync!Init /\ PrepInit /\ OtherInit
SettingsNext ==
  /\ \/ part = "currency" /\ Next
     \/ part = "catalog" /\ Catalogue!Next
     \/ part = "tracking" /\ Tracking!Next
     \/ part = "shared" /\ Shared!Next
     \/ part = "policies" /\ Policies!Next
     \/ part = "goals" /\ Goals!Next
  /\ UNCHANGED <<entries, locked, qbVars, prepVars, otherVars>>

CorrectionsInit == part \in {"pair", "chain"} /\ Init /\ Pair!Init /\ QbSync!Init /\ PrepInit /\ OtherInit
CorrectionsNext ==
  /\ \/ part = "pair" /\ Pair!Next
     \/ part = "chain" /\ Chain!Next
  /\ UNCHANGED <<vars, qbVars, prepVars, otherVars>>

QbInit ==
  /\ \/ part = "sync" /\ QbSync!Init
     \/ part = "repair" /\ QbRepair!Init
  /\ Init /\ Pair!Init /\ PrepInit /\ OtherInit
QbNext ==
  /\ \/ part = "sync" /\ QbSync!Next
     \/ part = "repair" /\ QbRepair!Next
  /\ UNCHANGED <<vars, entries, locked, prepVars, otherVars>>

PolicyInit ==
  /\ \/ part \in {"rows", "reports"} /\ PrepInit
     \/ part = "routine" /\ PrepRoutine!PrepInit
     \/ part = "entries" /\ PrepEntries!PrepInit
  /\ Init /\ Pair!Init /\ QbSync!Init /\ OtherInit
PolicyNext ==
  /\ \/ part = "rows" /\ PrepNext
     \/ part = "routine" /\ PrepRoutine!PrepNext
     \/ part = "entries" /\ PrepEntries!PrepNext
     \/ part = "reports" /\ PrepReports!PrepNext
  /\ UNCHANGED <<vars, entries, locked, qbVars, otherVars>>

MoveInit ==
  /\ \/ part = "leaving" /\ Leaving!AdoptionInit
     \/ part = "joining" /\ Joining!AdoptionInit
     \/ part = "racing" /\ AdoptionInit
  /\ Init /\ Pair!Init /\ QbSync!Init /\ PrepInit /\ BooksInit /\ QInit
MoveNext ==
  /\ \/ part = "leaving" /\ Leaving!AdoptionNext
     \/ part = "joining" /\ Joining!AdoptionNext
     \/ part = "racing" /\ AdoptionNext
  /\ UNCHANGED <<vars, entries, locked, qbVars, prepVars, booksVars, qvars>>

FarInit ==
  /\ \/ part = "commanding" /\ Commanding!BooksInit
     \/ part = "sharing" /\ Sharing!BooksInit
     \/ part = "replacing" /\ Replacing!BooksInit
     \/ part = "rivals" /\ BooksInit
  /\ Init /\ Pair!Init /\ QbSync!Init /\ PrepInit /\ AdoptionInit /\ QInit
FarNext ==
  /\ \/ part = "commanding" /\ Commanding!BooksNext
     \/ part = "sharing" /\ Sharing!BooksNext
     \/ part = "replacing" /\ Replacing!BooksNext
     \/ part = "rivals" /\ BooksNext
  /\ UNCHANGED <<vars, entries, locked, qbVars, prepVars, adoptionVars, qvars>>

AskInit == /\ part = "questioning" /\ QInit
           /\ Init /\ Pair!Init /\ QbSync!Init /\ PrepInit /\ AdoptionInit /\ BooksInit
AskNext == /\ part = "questioning" /\ QNext
           /\ UNCHANGED <<vars, entries, locked, qbVars, prepVars, adoptionVars, booksVars>>

Operations ==
  /\ SettingsInit \/ CorrectionsInit \/ QbInit \/ PolicyInit \/ MoveInit \/ FarInit \/ AskInit
  /\ [][UNCHANGED part /\ (SettingsNext \/ CorrectionsNext \/ QbNext \/ PolicyNext \/ MoveNext \/ FarNext \/ AskNext)]_
       <<part, vars, entries, locked, qbVars, prepVars, otherVars>>
------------------------------------------------------------------------------
(* PROPERTIES of each part, named as in its module.  What the modules above     *)
(* say of the currency, of names and plans, of exports and adoptions, of remote *)
(* commands, of questions and of hosts reads the same in every part.            *)

\* Reversals, corrections and reclassifications leave a row in the books once, as
\* the entry at the end of its chain, and every reader of the chains finds that entry.
ChainsNet ==
  /\ part = "pair" => Pair!ChainNetsToStanding /\ Pair!ReadersAgree
  /\ part = "chain" => Chain!ChainNetsToStanding /\ Chain!ReadersAgree

\* An opening synchronized from QuickBooks is in the books as its report shows it, and
\* a repair of old openings leaves none that carries income or expenses.
QbOpeningAsShown ==
  /\ part = "sync" => QbSync!OpeningAsShown
  /\ part = "repair" => QbRepair!OpeningAsShown /\ QbRepair!RepairLeavesNone
==============================================================================
