------------------------------ MODULE MCEvidence ------------------------------
(* The queue's group journal, with stops outside COMMIT and rmtree and, as a    *)
(* second instance, inside them too; the bank evidence; and a payment processor  *)
(* with a charge, its payout and the deposit of it, and with a payout of nothing *)
(* next to an older charge; and banks that print their files in different ways. *)
(* A behaviour is a behaviour of one of them, which the first state picks, and  *)
(* the others stay in their initial state.                                      *)
EXTENDS GroupJournal, StripeClearing

CONSTANTS i1, i2, i3, None

VARIABLES part

VARIABLES tornDest, tornJournal, writer, tornOps, tornStops, tornRequests
tornVars == <<tornDest, tornJournal, writer, tornOps, tornStops, tornRequests>>
Torn == INSTANCE GroupJournal WITH
  Items <- {i1, i2}, Interruptible <- {"marker", "removal"}, MaxCrashes <- 1,
  dest <- tornDest, journal <- tornJournal, cmd <- writer, ops <- tornOps, crashes <- tornStops,
  requests <- tornRequests

(* StatementImport: two purchases no statement can tell apart and a fee; the    *)
(* feed dates one purchase a day later; a CSV file, an OFX file and a printed   *)
(* statement.                                                                   *)
VARIABLES profiles, recorded, queue, openings, held, records, unconfirmed, needsReview, job, imported, stops
stmtVars == <<profiles, recorded, queue, openings, held, records, unconfirmed, needsReview, job, imported, stops>>
Txn(n, d, a, w) == [no |-> n, day |-> d, amount |-> a, wording |-> w]
t1 == Txn(1, 2, 5, "card")
t2 == Txn(2, 2, 5, "card")
t3 == Txn(3, 4, -3, "fee")
File(n, s, a, z, period, printed, rows) ==
  [name |-> n, source |-> s, first |-> a, last |-> z, period |-> period, printed |-> printed, rows |-> rows]
csv == File("export", "csv", 1, 3, "transactions", FALSE, {t2})
ofx == File("download", "ofx", 2, 3, "statement", TRUE, {t1, t2})
pdf == File("paper", "pdf", 4, 5, "statement", TRUE, {t3})
SmallTxns == {t1, t2, t3}
SmallFiles == {csv, ofx, pdf}
SmallFeedDay == [t \in SmallTxns |-> IF t = t1 THEN 3 ELSE t.day]
Stmt == INSTANCE StatementImport WITH
  Txns <- SmallTxns, Files <- SmallFiles, FeedDay <- SmallFeedDay, FeedBatches <- {{t1}},
  Boundaries <- {9}, OpeningDays <- {4}, Learned <- {"card"}, NearDays <- 3, MaxOpenings <- 1, MaxStops <- 1,
  books <- recorded

(* BankProof: two months of three days, three rows of which one is staged, an    *)
(* account with money from before, two statements of the first month.           *)
VARIABLES posted, waiting, windows, statements, replaced, readings, recons, mistakes
proofVars == <<posted, waiting, windows, statements, replaced, readings, recons, mistakes>>
Moved(n, d, a) == [no |-> n, day |-> d, amount |-> a]
Paper(n, a, z, off) == [id |-> n, first |-> a, last |-> z, off |-> off]
TwoMonths == <<3, 6>>
BankRows == {Moved(1, 2, 5), Moved(2, 4, -3), Moved(3, 7, 2)}
Proof == INSTANCE BankProof WITH
  Txns <- BankRows, Unknown <- {Moved(2, 4, -3)}, Starting <- 4, MonthEnds <- TwoMonths, LastDay <- 7,
  Windows <- {<<1, 4>>, <<3, 7>>}, Statements <- {Paper(1, 1, 3, 0), Paper(2, 1, 3, 1), Paper(3, 4, 6, 0)},
  ReadDays <- {3, 7}, MaxQuiet <- 2, MaxReadings <- 2, MaxMistakes <- 1, books <- posted

(* StripeClearing: the module itself has a charge and its payout; the instance    *)
(* has a payout of nothing next to an older charge.                             *)
ChargeAndPayout == <<"charge", "payout">>
ZeroAndCharge == <<"zero", "charge">>
Zeros == INSTANCE StripeClearing WITH
  Movements <- {1, 2}, KindOf <- ZeroAndCharge, Deposits <- {}, Resembles <- {2}, AccountRoles <- 2,
  Older <- {2}, Budget <- 2

(* StatementLayouts: banks that depart in up to three ways from a plain one, two *)
(* accounts, and overlapping files of them.                                     *)
VARIABLES bank, history, profile, read
layoutVars == <<bank, history, profile, read>>
Line(m, d, n, waits, word) == [on |-> <<m, d>>, cents |-> n, pending |-> waits, inflow |-> word]
Spring == <<Line(3, 4, 1250, FALSE, TRUE), Line(3, 5, -700, FALSE, FALSE), Line(3, 5, 0, TRUE, FALSE),
            Line(3, 25, 200000, FALSE, TRUE), Line(4, 4, -1250, FALSE, FALSE)>>
Twice  == <<Line(4, 4, 500, FALSE, TRUE), Line(4, 4, 500, FALSE, TRUE), Line(5, 4, -123456, FALSE, FALSE),
            Line(5, 6, 1250, TRUE, TRUE)>>
PlainBank ==
  [kind |-> "asset", sign |-> "standard", decimal |-> ".", format |-> "mdy", grouped |-> FALSE, cents |-> FALSE,
   balance |-> TRUE, owed |-> TRUE, summary |-> "none", newestFirst |-> FALSE, header |-> TRUE]
AllBanks ==
  [kind : {"asset", "liability"}, sign : {"standard", "inverted", "debit_credit", "direction_column"},
   decimal : {".", ","}, format : {"mdy", "dmy"}, grouped : BOOLEAN, cents : BOOLEAN, balance : BOOLEAN,
   owed : {TRUE}, summary : {"none", "dated", "undated"}, newestFirst : BOOLEAN, header : BOOLEAN]
SmallBanks ==
  {b \in AllBanks : /\ b.header \/ b.sign \in {"standard", "inverted"}
                    /\ Cardinality({k \in DOMAIN b : b[k] # PlainBank[k]}) <= 3}
Layouts == INSTANCE StatementLayouts WITH
  Banks <- SmallBanks, Histories <- {Spring, Twice}, Opening <- 10000, imported <- read,
  Windows <- {[first |-> 1, last |-> 2], [first |-> 1, last |-> 4], [first |-> 3, last |-> 4]}
-----------------------------------------------------------------------------
EvidenceInit ==
  /\ part \in {"journal", "torn", "statements", "proof", "payouts", "zeros", "layouts"}
  /\ Init /\ Torn!Init /\ Stmt!Init /\ Proof!Init
  /\ IF part = "layouts" THEN Layouts!Init
     ELSE bank = PlainBank /\ history = Spring /\ profile = {} /\ read = {}
  /\ IF part = "zeros" THEN Zeros!ClearingInit ELSE ClearingInit

EvidenceNext ==
  /\ UNCHANGED part
  /\ \/ part = "journal" /\ Next /\ UNCHANGED <<tornVars, stmtVars, proofVars, clearingVars, layoutVars>>
     \/ part = "torn" /\ Torn!Next /\ UNCHANGED <<vars, stmtVars, proofVars, clearingVars, layoutVars>>
     \/ part = "statements" /\ Stmt!Next /\ UNCHANGED <<vars, tornVars, proofVars, clearingVars, layoutVars>>
     \/ part = "proof" /\ Proof!Next /\ UNCHANGED <<vars, tornVars, stmtVars, clearingVars, layoutVars>>
     \/ part = "payouts" /\ ClearingNext /\ UNCHANGED <<vars, tornVars, stmtVars, proofVars, layoutVars>>
     \/ part = "zeros" /\ Zeros!ClearingNext /\ UNCHANGED <<vars, tornVars, stmtVars, proofVars, layoutVars>>
     \/ part = "layouts" /\ Layouts!Next /\ UNCHANGED <<vars, tornVars, stmtVars, proofVars, clearingVars>>

Evidence ==
  /\ EvidenceInit /\ [][EvidenceNext]_<<part, vars, tornVars, stmtVars, proofVars, clearingVars, layoutVars>>
-----------------------------------------------------------------------------
\* A transaction that a finished file shows is in the books, the review queue or the
\* opening, and no transaction of the bank is there twice.
CountedExactlyOnce == Stmt!CountedOnce /\ Stmt!NothingDropped

\* A bank file is read as the bank meant it, unless its layout was saved with a guess.
ReadAsBanked == Layouts!ReadAsBanked

\* A proven month ended at the bank as it says, and the other checks agree.
ProvenMonthIsTrue == Proof!ProvenMonthIsTrue
=============================================================================
