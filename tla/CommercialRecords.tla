--------------------------- MODULE CommercialRecords ---------------------------
(* Customers, vendors, invoices, bills and the payments that settle them, kept  *)
(* with the ledger (business.py), and the payment based year-end tax package    *)
(* (tax1099.py).  Each action is one command applied: the preview it is bound   *)
(* to and its receipt are those of OpenItems.  A bank row may be on the books   *)
(* already, under either of its spellings, when somebody records its payment.   *)
(* Amounts are cents; fees and withholding are left out.                        *)
EXTENDS Integers, FiniteSets, FiniteSetsExt, Functions, SequencesExt

CONSTANTS
  Docs, KindOf,       \* documents, each an "invoice" or a "bill"
  PartyOf, RolesOf,   \* the party of a document, and the roles the parties are saved with
  Weights,            \* the net and tax amounts of the lines of a document
  Rows, Cash, When,   \* bank rows, their signed amounts and their dates
  Spellings,          \* spellings under which a row is known
  AnySpelling,        \* whether a command may name a row by another spelling than the books do
  TaxYear,            \* the dates of the year that is prepared
  Classes,            \* tax classes a person may give a payment
  Budget              \* commands in all

VARIABLES parties, docs, payments, entries, applied, package, used

vars == <<parties, docs, payments, entries, applied, package, used>>

Parties  == DOMAIN RolesOf
Roles    == {"customer", "vendor"}
Total(d) == FoldSeq(+, 0, Weights[d])
Party(d) == PartyOf[d]
Role(d)  == IF KindOf[d] = "invoice" THEN "customer" ELSE "vendor"
Pay(r)   == Cash[r] < 0
Gross(r) == IF Pay(r) THEN -Cash[r] ELSE Cash[r]

Added(S, f(_)) == FoldSet(LAMBDA x, n : f(x) + n, 0, S)
Ids == DOMAIN payments

\* Shares of the first n cents: rounded down, the last line takes what is left.
Cumulative(w, n) ==
  LET sum == FoldSeq(+, 0, w)
      down == [i \in 1..Len(w) - 1 |-> (w[i] * n) \div sum]
  IN Append(down, n - FoldSeq(+, 0, down))
\* Mutant: every credit or refund is spread on its own, and rounds on its own.
SharesAlone(w, from, to) == Cumulative(w, to - from)
Shares(w, from, to) == [i \in 1..Len(w) |-> Cumulative(w, to)[i] - Cumulative(w, from)[i]]
-----------------------------------------------------------------------------
(* The ledger, as far as cash goes.  A reversal names no source of its own.     *)

Named(e, r)     == e.row = r /\ ~e.reversal
Posted(r)       == {e \in entries : Named(e, r)}
Exists(r, s)    == \E e \in Posted(r) : e.spelling = s        \* source_exists asks for the exact spelling
Reversed(r)     == \E e \in entries : e.row = r /\ e.reversal
LiveEntry(r, e) == e \in Posted(r) /\ ~Reversed(r)
Nameable(r, s)  == Posted(r) # {} => AnySpelling \/ Exists(r, s)

NewEntry(r, s, to, managed) ==
  [row |-> r, spelling |-> s, to |-> to, managed |-> managed, reversal |-> FALSE]

\* An ordinary row of the feed, which knows both spellings.
FeedPosts(r, s, to) ==
  /\ Posted(r) = {}
  /\ entries' = entries \union {NewEntry(r, s, to, FALSE)}
  /\ UNCHANGED <<parties, docs, payments, applied, package>>

\* Entries that commercial or item records own are corrected there.
ReverseEntry(r, e) ==
  /\ LiveEntry(r, e) /\ ~e.managed
  /\ entries' = entries \union {[e EXCEPT !.reversal = TRUE]}
  /\ UNCHANGED <<parties, docs, payments, applied, package>>
-----------------------------------------------------------------------------
(* Parties and documents *)

Issued(d)  == docs[d].status \notin {"none", "draft", "discarded"}
RolesUsed(p) == {Role(d) : d \in {x \in Docs : Issued(x) /\ Party(x) = p}}

SaveParty(p, roles) ==
  /\ roles # {} /\ RolesUsed(p) \subseteq roles
  /\ parties[p] # [roles |-> roles, active |-> TRUE]
  /\ parties' = [parties EXCEPT ![p] = [roles |-> roles, active |-> TRUE]]
  /\ UNCHANGED <<docs, payments, entries, applied, package>>

Archive(p) ==
  /\ parties[p].active
  /\ parties' = [parties EXCEPT ![p].active = FALSE]
  /\ UNCHANGED <<docs, payments, entries, applied, package>>

SetDoc(d, doc) == docs' = [docs EXCEPT ![d] = doc]

SaveDraft(d) ==
  /\ docs[d].status = "none"
  /\ parties[Party(d)].active /\ Role(d) \in parties[Party(d)].roles
  /\ SetDoc(d, [docs[d] EXCEPT !.status = "draft"])
  /\ UNCHANGED <<parties, payments, entries, applied, package>>

Numbers == {docs[d].number : d \in {x \in Docs : KindOf[x] = "invoice"}}
\* By default the next number; an invoice may not take one that another has.
Issue(d, number) ==
  /\ docs[d].status = "draft"
  /\ KindOf[d] = "invoice" => number # 0 /\ number \notin Numbers
  /\ SetDoc(d, [docs[d] EXCEPT !.status = "open", !.number = number, !.left = Total(d)])
  /\ UNCHANGED <<parties, payments, entries, applied, package>>

Discard(d) ==
  /\ docs[d].status = "draft"
  /\ SetDoc(d, [docs[d] EXCEPT !.status = "discarded"])
  /\ UNCHANGED <<parties, payments, entries, applied, package>>

\* Credits go back over the lines by cumulative shares, unless one account is named.
\* A share that would turn back is no positive amount, and refused.
Credited(d, n, byLines, status) ==
  LET back == Shares(Weights[d], docs[d].credited, docs[d].credited + n) IN
  /\ Issued(d) /\ n \in 1..docs[d].left
  /\ byLines => \A i \in DOMAIN back : back[i] >= 0
  /\ SetDoc(d, [docs[d] EXCEPT !.left = @ - n, !.credited = @ + n,
       !.back = IF byLines THEN [i \in DOMAIN @ |-> @[i] + back[i]] ELSE @,
       !.status = status])

Credit(d, n, byLines) ==
  /\ Credited(d, n, byLines, docs[d].status)
  /\ UNCHANGED <<parties, payments, entries, applied, package>>

\* Mutant: a partly paid document may be voided.
VoidsRest(d) == docs[d].left > 0
VoidsUnpaid(d) == docs[d].left = Total(d)
Void(d, byLines) ==
  /\ Issued(d) /\ VoidsUnpaid(d) /\ Credited(d, docs[d].left, byLines, "void")
  /\ UNCHANGED <<parties, payments, entries, applied, package>>

WriteOff(d, n) ==
  /\ Issued(d) /\ n \in 1..docs[d].left
  /\ SetDoc(d, [docs[d] EXCEPT !.left = @ - n, !.forgiven = @ + n,
                               !.status = IF n = docs[d].left THEN "uncollectible" ELSE @])
  /\ UNCHANGED <<parties, payments, entries, applied, package>>
-----------------------------------------------------------------------------
(* Payments *)

RefundsOf(k)  == {j \in Ids : payments[j].refundOf = k}
Refunded(k)   == Added(RefundsOf(k), LAMBDA j : Gross(payments[j].row))
NotRecorded(r) == \A k \in Ids : payments[k].row # r
Nothing == [d \in {} |-> 0]
Sum(for) == Added(DOMAIN for, LAMBDA d : for[d])

\* The shares of the lines a payment of documents stands for.
Recognized(for) ==
  LET shares == [d \in DOMAIN for |-> SelectSeq(Cumulative(Weights[d], for[d]), LAMBDA n : n # 0)]
  IN FoldSeq(LAMBDA d, lines : shares[d] \o lines, <<>>, SetToSeq(DOMAIN for))

NewPayment(r, s, p, for, lines, excess, refundOf) ==
  payments' = Append(payments,
    [row |-> r, spelling |-> s, party |-> p, for |-> for,
     lines |-> IF excess = 0 THEN lines ELSE Append(lines, excess),
     excess |-> excess, credit |-> excess, refundOf |-> refundOf, class |-> "unknown"])

PaymentRole(r, refundOf) ==
  IF refundOf = 0 THEN IF Pay(r) THEN "vendor" ELSE "customer"
  ELSE IF Pay(payments[refundOf].row) THEN "vendor" ELSE "customer"
Recordable(r, s, p, refundOf) ==
  /\ NotRecorded(r) /\ Nameable(r, s)
  /\ PaymentRole(r, refundOf) \in parties[p].roles
Refundable(r, p, k) ==
  /\ k \in Ids /\ payments[k].party = p /\ Pay(payments[k].row) # Pay(r)
  /\ When[r] >= When[payments[k].row]
  /\ Refunded(k) + Gross(r) <= Gross(payments[k].row)

Settles(r, p, for) ==
  /\ \A d \in DOMAIN for :
       Issued(d) /\ Party(d) = p /\ (KindOf[d] = "bill") = Pay(r) /\ for[d] \in 1..docs[d].left
  /\ Sum(for) <= Gross(r)
Lowered(for) == docs' = [d \in Docs |-> IF d \in DOMAIN for THEN [docs[d] EXCEPT !.left = @ - for[d]] ELSE docs[d]]

\* payment.record for documents; what they do not take becomes a credit of the party.
Record(r, s, p, for) ==
  /\ DOMAIN for # {} /\ Recordable(r, s, p, 0) /\ Settles(r, p, for)
  /\ Lowered(for)
  /\ NewPayment(r, s, p, for, Recognized(for), Gross(r) - Sum(for), 0)
  /\ \/ Posted(r) = {} /\ entries' = entries \union {NewEntry(r, s, "document", TRUE)}
     \/ \E e \in entries :                      \* an entry of the feed, reclassified
          /\ LiveEntry(r, e) /\ ~e.managed /\ e.to = (IF Pay(r) THEN "expense" ELSE "income")
          /\ entries' = (entries \ {e}) \union {[e EXCEPT !.managed = TRUE]}
  /\ UNCHANGED <<parties, applied, package>>

\* payment.record without documents posts a new entry.
RecordDirect(r, s, p) ==
  /\ Recordable(r, s, p, 0) /\ ~Exists(r, s)
  /\ NewPayment(r, s, p, Nothing, <<Gross(r)>>, 0, 0)
  /\ entries' = entries \union {NewEntry(r, s, IF Pay(r) THEN "expense" ELSE "income", TRUE)}
  /\ UNCHANGED <<parties, docs, applied, package>>

\* payment.refund turns the lines of its payment back by cumulative shares; what
\* falls on the credit it left must still be there.
Refund(r, s, p, k) ==
  LET lines == payments[k].lines
      back  == Shares(lines, Refunded(k), Refunded(k) + Gross(r))
      moved == IF payments[k].excess = 0 THEN 0 ELSE back[Len(lines)]
  IN /\ k # 0 /\ Recordable(r, s, p, k) /\ Refundable(r, p, k) /\ lines # <<>> /\ ~Exists(r, s)
     /\ moved <= payments[k].credit
     /\ payments' = Append([payments EXCEPT ![k].credit = @ - moved],
          [row |-> r, spelling |-> s, party |-> p, for |-> Nothing, lines |-> <<>>,
           excess |-> 0, credit |-> 0, refundOf |-> k, class |-> "unknown"])
     /\ entries' = entries \union {NewEntry(r, s, IF Pay(r) THEN "income" ELSE "expense", TRUE)}
     /\ UNCHANGED <<parties, docs, applied, package>>

\* payment.link tells the facts of cash that is posted already.
Link(r, s, p, k) ==
  /\ Recordable(r, s, p, k) /\ (k # 0 => Refundable(r, p, k))
  /\ \E e \in entries :
       /\ LiveEntry(r, e) /\ e.to # "equity"
       /\ k = 0 => e.to # (IF Pay(r) THEN "income" ELSE "expense")
  /\ NewPayment(r, s, p, Nothing, <<Gross(r)>>, 0, k)
  /\ UNCHANGED <<parties, docs, entries, applied, package>>

\* A person classifies, while the entry still stands.
Classify(k, class) ==
  /\ payments[k].class # class /\ \E e \in entries : LiveEntry(payments[k].row, e)
  /\ payments' = [payments EXCEPT ![k].class = class]
  /\ UNCHANGED <<parties, docs, entries, applied, package>>

ApplyCredit(k, d, n) ==
  /\ Issued(d) /\ payments[k].party = Party(d) /\ (KindOf[d] = "bill") = Pay(payments[k].row)
  /\ n \in 1..docs[d].left /\ n <= payments[k].credit
  /\ payments' = [payments EXCEPT ![k].credit = @ - n]
  /\ SetDoc(d, [docs[d] EXCEPT !.left = @ - n])
  /\ applied' = applied \union {[payment |-> k, doc |-> d, amount |-> n, left |-> docs[d].left]}
  /\ UNCHANGED <<parties, entries, package>>
-----------------------------------------------------------------------------
(* The tax package *)

Linked(e) == ~e.reversal /\ ~NotRecorded(e.row)
Amount(e) == IF e.reversal THEN -Cash[e.row] ELSE Cash[e.row]
\* Cash that left, or came back from an expense, and no payment accounts for.
Candidates ==
  {e \in entries : /\ When[e.row] \in TaxYear /\ e.to # "equity" /\ ~Linked(e)
                   /\ Amount(e) < 0 \/ e.to = "expense"}

ToVendor(k) == IF payments[k].refundOf = 0 THEN Pay(payments[k].row)
               ELSE Pay(payments[payments[k].refundOf].row)
VendorPayments == {k \in Ids : ToVendor(k)}
InYear == {k \in VendorPayments : When[payments[k].row] \in TaxYear}

\* What keeps a payment from being counted or left out for good.
Blocked(k) ==
  LET pay == payments[k]
      of  == payments[pay.refundOf]
  IN \/ pay.class = "unknown"
     \/ pay.refundOf # 0 /\ (\/ When[of.row] \notin TaxYear \/ of.class # pay.class
                             \/ Refunded(pay.refundOf) > Gross(of.row))

Net(S) == Added(S, LAMBDA k : IF payments[k].refundOf = 0 THEN Gross(payments[k].row) ELSE -Gross(payments[k].row))

\* A package cannot be made of payments with an excess: the facts of their lines name
\* its credit, which the preparation does not take.  Neither can it when both an entry
\* and a reversal, which has no source id, are unmatched: their ids cannot be sorted.
Preparable ==
  /\ \A k \in VendorPayments : payments[k].excess = 0
  /\ ~\E e, f \in Candidates : e.reversal /\ ~f.reversal

Prepare ==
  /\ Preparable
  /\ package' = [of |-> payments, reviewed |-> FALSE,
                 ready |-> Candidates = {} /\ \A k \in InYear : ~Blocked(k),
                 counted |-> Net({k \in InYear : payments[k].class = "reportable"}),
                 excluded |-> Net({k \in InYear : payments[k].class = "exempt"})]
  /\ UNCHANGED <<parties, docs, payments, entries, applied>>

\* Mutant: new cash since the preparation goes unnoticed.
PaymentsUnchanged == package.of = payments
Unchanged == package.of = payments /\ Candidates = {}
Review ==
  /\ package # [none |-> TRUE] /\ ~package.reviewed /\ package.ready /\ Unchanged
  /\ package' = [package EXCEPT !.reviewed = TRUE]
  /\ UNCHANGED <<parties, docs, payments, entries, applied>>
-----------------------------------------------------------------------------
Init ==
  /\ parties = [p \in Parties |-> [roles |-> RolesOf[p], active |-> TRUE]]
  /\ docs = [d \in Docs |-> [status |-> "none", number |-> 0, left |-> 0, credited |-> 0, forgiven |-> 0,
                             back |-> [i \in DOMAIN Weights[d] |-> 0]]]
  /\ payments = <<>> /\ entries = {} /\ applied = {} /\ package = [none |-> TRUE] /\ used = 0

Amounts == 1..Max({Total(d) : d \in Docs})
Outstanding == {d \in Docs : docs[d].left > 0}

Next ==
  /\ used < Budget /\ used' = used + 1
  /\ \/ \E p \in Parties : Archive(p) \/ \E roles \in SUBSET Roles : SaveParty(p, roles)
     \/ \E d \in Docs :
          \/ SaveDraft(d) \/ Discard(d)
          \/ \E number \in 0..2 : Issue(d, number)
          \/ \E n \in Amounts : WriteOff(d, n)
          \/ \E byLines \in BOOLEAN : Void(d, byLines) \/ \E n \in Amounts : Credit(d, n, byLines)
     \/ \E r \in Rows, s \in Spellings :
          \/ \E to \in {"expense", "income", "equity"} : FeedPosts(r, s, to)
          \/ \E p \in Parties :
               \/ \E T \in SUBSET Outstanding : \E for \in [T -> Amounts] : Record(r, s, p, for)
               \/ RecordDirect(r, s, p)
               \/ \E k \in Ids : Refund(r, s, p, k)
               \/ \E k \in Ids \union {0} : Link(r, s, p, k)
     \/ \E e \in entries : ReverseEntry(e.row, e)
     \/ \E k \in Ids :
          \/ \E class \in Classes : Classify(k, class)
          \/ \E d \in Docs, n \in Amounts : ApplyCredit(k, d, n)
     \/ Prepare \/ Review

Spec == Init /\ [][Next]_vars
-----------------------------------------------------------------------------
(* Cash moves once: a bank row stands behind one entry, and one payment, under  *)
(* whatever spelling it is named.                                               *)
CashMovesOnce ==
  \A r \in Rows : /\ Cardinality(Posted(r)) <= 1
                  /\ Cardinality({k \in Ids : payments[k].row = r}) <= 1

(* What is left of a document is its total without what was paid, credited,     *)
(* written off and applied to it; a void document was never paid.               *)
PaidFor(d)  == Added({k \in Ids : d \in DOMAIN payments[k].for}, LAMBDA k : payments[k].for[d])
AppliedTo(d) == Added({a \in applied : a.doc = d}, LAMBDA a : a.amount)
DocumentsReconcile ==
  \A d \in Docs : Issued(d) =>
    /\ docs[d].left = Total(d) - PaidFor(d) - docs[d].credited - docs[d].forgiven - AppliedTo(d)
    /\ docs[d].left >= 0
    /\ docs[d].status = "void" => docs[d].credited = Total(d)
    /\ \A i \in DOMAIN docs[d].back : docs[d].back[i] \in 0..Weights[d][i]

(* A payment is refunded at most whole; the credit it left holds what was        *)
(* neither applied nor refunded (linked refunds do not ask about it).           *)
CreditsReconcile ==
  \A k \in Ids :
    /\ Refunded(k) <= Gross(payments[k].row) /\ payments[k].credit >= 0
    /\ (payments[k].excess > 0 /\ \A j \in RefundsOf(k) : payments[j].lines = <<>>) =>
         payments[k].credit = payments[k].excess
           - Added({a \in applied : a.payment = k}, LAMBDA a : a.amount)
           - Cumulative(payments[k].lines, Refunded(k))[Len(payments[k].lines)]

RecordsReconcile == CashMovesOnce /\ DocumentsReconcile /\ CreditsReconcile

(* A reviewed tax package accounts for all the cash of the year that the books   *)
(* show leaving, or coming back, when it is reviewed, but for customers'.       *)
CustomerSide(e) == \E k \in Ids : Linked(e) /\ payments[k].row = e.row /\ ~ToVendor(k)
VendorSide(e)   == \E k \in Ids : Linked(e) /\ payments[k].row = e.row /\ ToVendor(k)
VendorCash ==
  LET those == {e \in entries : /\ When[e.row] \in TaxYear /\ e.to # "equity" /\ ~CustomerSide(e)
                                /\ VendorSide(e) \/ Amount(e) < 0 \/ e.to = "expense"}
  IN -Added(those, Amount)
Reviewing == package # package' /\ package'.reviewed
ReviewedAccountsForCash == [][Reviewing => package.counted + package.excluded = VendorCash]_vars
=============================================================================
