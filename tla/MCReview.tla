------------------------------ MODULE MCReview ------------------------------
(* The components of bank review, each on a small instance of its own. A        *)
(* behaviour is a behaviour of one of them, which the first state picks, and    *)
(* the others stay in their initial state: they do not touch each other's files *)
(* here.                                                                        *)
EXTENDS DuplicateHolds, ReviewDesk, TLC

CONSTANTS r1, r2, raw, prefixed, s1, s2

VARIABLES part

\* DuplicateHolds again, with two processes that review and import at once.
VARIABLES twoCandidates, twoAliases, twoBooks, twoSessions, twoLock, twoCrashes, twoDelivered, twoReviewed
twoVars == <<twoCandidates, twoAliases, twoBooks, twoSessions, twoLock, twoCrashes, twoDelivered, twoReviewed>>
Two == INSTANCE DuplicateHolds WITH
  Spellings <- {raw}, Cutover <- {}, Sessions <- {s1, s2}, MaxAliases <- 2, MaxCrashes <- 0,
  candidates <- twoCandidates, aliases <- twoAliases, books <- twoBooks, sessions <- twoSessions,
  lock <- twoLock, crashes <- twoCrashes, delivered <- twoDelivered, reviewed <- twoReviewed

\* ReviewDesk: the two sides of one transfer, of which the bank changes one.
DeskAccounts == r1 :> "Checking" @@ r2 :> "Card"
DeskPairs == {{r1, r2}}
DeskFirst == r1 :> -2 @@ r2 :> 2
DeskLater == r1 :> -3 @@ r2 :> 2
DeskPlans == {"Wages" :> 1 @@ "Tax" :> 1}

\* OpeningCutover: an opening carried from another system (reports that tie and some
\* that do not, lines with and without their support), and one of a company that
\* turned accrual on later.
VARIABLES ocEntries, opens, coverage, items, evidence, files, config, closed, plans, changes
cutoverVars == <<ocEntries, opens, coverage, items, evidence, files, config, closed, plans, changes>>
OcRoots == [bank |-> "Assets", ar |-> "Assets", van |-> "Assets", worn |-> "Assets", ap |-> "Liabilities",
  equity |-> "Equity", sales |-> "Income", rent |-> "Expenses"]
Invoice == [id |-> "inv", in |-> "items", kind |-> "receivable", account |-> "ar", contra |-> "none", direction |-> "none",
            amount |-> 3, recognized |-> 0, remaining |-> 2, end |-> 9, file |-> "scan"]
Bill == [Invoice EXCEPT !.id = "bill", !.kind = "payable", !.account = "ap", !.amount = 1, !.remaining = 1]
Van == [Invoice EXCEPT !.id = "van", !.in = "schedules", !.kind = "depreciation", !.account = "van", !.contra = "worn", !.recognized = 1]
Tb == [bank |-> 2, ar |-> 2, ap |-> -1, equity |-> -1, sales |-> -3, rent |-> 1]
Bs == [bank |-> 2, ar |-> 2, ap |-> -1, equity |-> -1]
Pnl == [sales |-> -3, rent |-> 1]
OcTied == [from |-> "reports", closed |-> FALSE, lines |-> <<>>, rows |-> {Invoice, Bill}, files |-> {"exports", "scan"},
       reports |-> [tb |-> Tb, bs |-> Bs, pnl |-> Pnl, net |-> 2, earnings |-> 2]]
OcUntied == [OcTied EXCEPT !.reports.tb = [Tb EXCEPT !["sales"] = -2, !["equity"] = -2], !.reports.bs = [Bs EXCEPT !["equity"] = -2], !.reports.earnings = 1]
OcLines == [from |-> "lines", closed |-> TRUE, rows |-> {Invoice, Van}, files |-> {"scan"}, reports |-> [none |-> 0],
       lines |-> [ar |-> 2, van |-> 3, worn |-> -1, equity |-> -4]]
OcUnsupported == [OcLines EXCEPT !.rows = {Van}]
OcOpenItems == [OcLines EXCEPT !.from = "rows", !.rows = {Invoice, Bill, Van}, !.lines = <<>>]
Brought == INSTANCE OpeningCutover WITH
  Requests <- {OcTied, OcUntied, OcLines, OcUnsupported}, RootOf <- OcRoots, Money <- {"bank"}, Starter <- {"ar", "ap"},
  Tracking <- FALSE, Cutover <- 4, FiscalStart <- 2, Earned <- (2 :> 2 @@ 3 :> 0), Balancing <- "equity",
  MaxPlans <- 1, MaxChanges <- 2, entries <- ocEntries
Tracked == INSTANCE OpeningCutover WITH
  Requests <- {OcOpenItems}, RootOf <- OcRoots, Money <- {"bank"}, Starter <- {"ar", "ap"},
  Tracking <- TRUE, Cutover <- 4, FiscalStart <- 2, Earned <- (2 :> 2 @@ 3 :> 0), Balancing <- "equity",
  MaxPlans <- 1, MaxChanges <- 2, entries <- ocEntries
-----------------------------------------------------------------------------
ReviewInit ==
  /\ part \in {"holds", "two", "desk", "brought", "tracked"}
  /\ Init /\ Two!Init /\ DeskInit /\ Brought!Init

ReviewNext ==
  /\ UNCHANGED part
  /\ \/ part = "holds" /\ Next /\ UNCHANGED <<twoVars, deskVars, cutoverVars>>
     \/ part = "two" /\ Two!Next /\ UNCHANGED <<vars, deskVars, cutoverVars>>
     \/ part = "desk" /\ DeskNext /\ UNCHANGED <<vars, twoVars, cutoverVars>>
     \/ part = "brought" /\ Brought!Next /\ UNCHANGED <<vars, twoVars, deskVars>>
     \/ part = "tracked" /\ Tracked!Next /\ UNCHANGED <<vars, twoVars, deskVars>>

\* A review command that runs goes on; a person repeats a confirmation that stopped.
Review ==
  /\ ReviewInit /\ [][ReviewNext]_<<part, vars, twoVars, deskVars, cutoverVars>>
  /\ WF_deskVars(part = "desk" /\ mark_seen)
  /\ WF_deskVars(part = "desk" /\ remove_from_pending)
  /\ WF_deskVars(part = "desk" /\ save_decided)
  /\ \A i \in {{r1}, {r2}, {r1, r2}} : SF_deskVars(part = "desk" /\ Repeat(i))
-----------------------------------------------------------------------------
(* PROPERTIES of the components that are instances, named as in their modules   *)

\* Each control account holds what its open items, schedules and documents say, from an
\* opening posted once as reviewed; a profit and loss that is answered is whole.
OpeningCarriesOver == IF part = "tracked" THEN Tracked!OpeningCarriesOver ELSE Brought!OpeningCarriesOver
=============================================================================
