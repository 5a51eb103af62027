------------------------------- MODULE MCBooks -------------------------------
(* Posting with stops on one row; the trust ramp on three rows of one           *)
(* counterparty without stops, and on two with one, as further instances of the *)
(* same module; the journal of the review queue with stops everywhere outside   *)
(* COMMIT and rmtree; commercial records: an invoice of two lines and one of    *)
(* one, a receipt of more than the first and a refund; and a bill, a check of   *)
(* more than it, a rebate and a payment of the year before, up to the review of *)
(* the tax package; and saved accrual rules, three previews and their applies,  *)
(* with a stop.                                                                 *)
(* A behaviour is a behaviour of one of the parts, which the first state picks, *)
(* and the others stay in their initial state.                                  *)
EXTENDS PostingWorkflow, AccrualRules, TLC

CONSTANTS r1, r2, r3

VARIABLES part

SameCounterparty == [r \in Rows |-> "acme"]

VARIABLES rampLedger, rampReceipts, rampSeen, rampQueued, rampItems, rampLearned, rampCmd, rampCrashes,
  rampDelivered, rampEarned, rampIntended
rampVars == <<rampLedger, rampReceipts, rampSeen, rampQueued, rampItems, rampLearned, rampCmd, rampCrashes,
  rampDelivered, rampEarned, rampIntended>>
OneEach == [r \in {r1, r2, r3} |-> "acme"]
Ramp == INSTANCE PostingWorkflow WITH
  Rows <- {r1, r2, r3}, Spellings <- {"raw"}, CounterpartyOf <- OneEach, Categories <- {"office"},
  HeldRows <- {r3}, Threshold <- 2, MaxRev <- 1, MaxCrashes <- 0,
  ledger <- rampLedger, receipts <- rampReceipts, seen <- rampSeen, queued <- rampQueued,
  items <- rampItems, learned <- rampLearned, cmd <- rampCmd, crashes <- rampCrashes,
  delivered <- rampDelivered, earned <- rampEarned, intended <- rampIntended

\* Two of these rows, with a stop.
StoppedRamp == INSTANCE PostingWorkflow WITH
  Rows <- {r1, r2}, Spellings <- {"raw"}, CounterpartyOf <- OneEach, Categories <- {"office"},
  HeldRows <- {}, Threshold <- 2, MaxRev <- 1, MaxCrashes <- 1,
  ledger <- rampLedger, receipts <- rampReceipts, seen <- rampSeen, queued <- rampQueued,
  items <- rampItems, learned <- rampLearned, cmd <- rampCmd, crashes <- rampCrashes,
  delivered <- rampDelivered, earned <- rampEarned, intended <- rampIntended

VARIABLES dest, journal, writer, ops, stops, requests
journalVars == <<dest, journal, writer, ops, stops, requests>>
Queue == INSTANCE GroupJournal WITH
  Items <- {"a", "b", "c"}, Interruptible <- {}, MaxOps <- 2, MaxCrashes <- 3, cmd <- writer, crashes <- stops

VARIABLES parties, docs, payments, entries, applied, package, used
businessVars == <<parties, docs, payments, entries, applied, package, used>>
Invoices == [long |-> "invoice", short |-> "invoice"]
Bills    == [bill |-> "bill"]
Sales == INSTANCE CommercialRecords WITH
  Docs <- {"long", "short"}, KindOf <- Invoices, Rows <- {"receipt", "back"}, Spellings <- {"raw"},
  AnySpelling <- FALSE, PartyOf <- [long |-> "north", short |-> "north"],
  RolesOf <- [north |-> {"customer"}, south |-> {"customer"}],
  Weights <- [long |-> <<1, 1>>, short |-> <<1>>], Cash <- [receipt |-> 3, back |-> -1],
  When <- [receipt |-> 12, back |-> 13], TaxYear <- {}, Classes <- {}, Budget <- 6
Taxes == INSTANCE CommercialRecords WITH
  Docs <- {"bill"}, KindOf <- Bills, Rows <- {"check", "rebate", "old"}, Spellings <- {"raw"},
  AnySpelling <- FALSE, PartyOf <- [bill |-> "south"], RolesOf <- [south |-> {"vendor"}],
  Weights <- [bill |-> <<1>>], Cash <- [check |-> -2, rebate |-> 1, old |-> -1],
  When <- [check |-> 12, rebate |-> 13, old |-> 9], TaxYear <- 10..19,
  Classes <- {"reportable", "unknown"}, Budget <- 6

\* AccrualRules: two company rules that may become twins and one of a supplier, asked for
\* by a person and an agent.
Words == [accounts |-> FALSE, keywords |-> TRUE]
Under == [accounts |-> TRUE, keywords |-> FALSE]
Ask(i, k, t, m, h, says, by) ==
  [id |-> i, kind |-> k, target |-> t, match |-> m, threshold |-> h, says |-> says, source |-> by]
Asked ==
  {Ask("s1", "set", 1, Words, 0, "prepaid", "person"), Ask("s2", "set", 2, Words, 0, "bill", "agent"),
   Ask("s3", "set", 2, Under, 5, "bill", "person"), Ask("s4", "set", 3, Words, 5, "prepaid", "agent"),
   Ask("c1", "clear", 1, Words, 0, "none", "person"), Ask("c2", "clear", 2, Words, 0, "none", "agent")}
BankRows ==
  {[key |-> k, amount |-> a, found |-> [m \in {Words, Under} |-> IF m = Words THEN <<0, 1>> ELSE <<2, 0>>]] :
     k \in {0, 3}, a \in {4, 9}}
-----------------------------------------------------------------------------
BooksInit ==
  /\ part \in {"rows", "ramp", "stopped", "journal", "sales", "taxes", "rules"}
  /\ Init /\ Queue!Init /\ RulesInit
  /\ IF part = "stopped" THEN StoppedRamp!Init ELSE Ramp!Init
  /\ IF part = "taxes" THEN Taxes!Init ELSE Sales!Init

BooksNext ==
  /\ UNCHANGED part
  /\ \/ part = "rows" /\ Next /\ UNCHANGED <<rampVars, journalVars, businessVars, ruleVars>>
     \/ part = "ramp" /\ Ramp!Next /\ UNCHANGED <<vars, journalVars, businessVars, ruleVars>>
     \/ part = "stopped" /\ StoppedRamp!Next /\ UNCHANGED <<vars, journalVars, businessVars, ruleVars>>
     \/ part = "journal" /\ Queue!Next /\ UNCHANGED <<vars, rampVars, businessVars, ruleVars>>
     \/ part = "sales" /\ Sales!Next /\ UNCHANGED <<vars, rampVars, journalVars, ruleVars>>
     \/ part = "taxes" /\ Taxes!Next /\ UNCHANGED <<vars, rampVars, journalVars, ruleVars>>
     \/ part = "rules" /\ RulesNext /\ UNCHANGED <<vars, rampVars, journalVars, businessVars>>
     \* commands or previews are spent
     \/ (used = 6 \/ Cardinality(plans) = 3) /\ UNCHANGED <<vars, rampVars, journalVars, businessVars, ruleVars>>

\* A command that runs goes on and queue commands keep coming; the owner repeats a confirm that stopped part way.
Books ==
  /\ BooksInit /\ [][BooksNext]_<<part, vars, rampVars, journalVars, businessVars, ruleVars>>
  /\ WF_vars(part = "rows" /\ Continue)
  /\ WF_journalVars(part = "journal" /\ Queue!Continue) /\ WF_journalVars(part = "journal" /\ Queue!BeginOther)
  /\ \A s \in SourceId : SF_vars(part = "rows" /\ RetryConfirm(s))
-----------------------------------------------------------------------------
\* The trust ramp counts every confirmation, a single one once, never more too many than
\* there were stops, and nothing posts unattended before the threshold is earned.
RampIsEarned == Ramp!TrustIsEarned

\* What a stop left behind is finished: a confirmation that reached the ledger by its
\* repetition, and a journal of the review queue by later commands.
StoppedIsFinished == ConfirmedPostingIsFinished /\ Queue!JournalIsFinished

\* A bank row stands behind one entry and one payment; what is left of a document, and
\* of a credit, is what payments, credits, refunds and write-offs leave.
RecordsReconcile == (part = "sales" => Sales!RecordsReconcile) /\ (part = "taxes" => Taxes!RecordsReconcile)

\* A tax package is reviewed only while it accounts for all the cash vendors got.
ReviewedAccountsForCash ==
  [][(part = "taxes" /\ Taxes!Reviewing) => package.counted + package.excluded = Taxes!VendorCash]_businessVars
=============================================================================
