------------------------------ MODULE BankProof ------------------------------
(***************************************************************************)
(* What the books say about one checking account, and what proves it: the  *)
(* coverage of a month by evidence (bookkeeping/coverage.py), the          *)
(* selection among statements of one period (statement_selection.py), the  *)
(* tie-out of a statement and of a bank balance (tieout.py) and the proof  *)
(* of a month end from the balances of a feed (feed_proof.py).             *)
(*                                                                         *)
(* All checks are read-only functions of the files; they are operators     *)
(* here and the actions are what changes the files: syncs, confirmations,  *)
(* statements, selections, reconciliations, and mistakes of people.        *)
(* Intervals are sets of days, so that merging and clipping are union and  *)
(* intersection. What the host says of a feed is taken as true: a window   *)
(* brought every row of its days, and a balance that is not partial holds  *)
(* every row through its day.                                              *)
(***************************************************************************)
EXTENDS Integers, FiniteSets, SequencesExt, FiniteSetsExt

CONSTANTS
  Txns,        \* what the bank did: [no, day, amount]
  Unknown,     \* rows no category is known for: they are staged
  Starting,    \* the balance of the account before day 1
  MonthEnds,   \* last days of the months, in order
  LastDay,
  Windows,     \* <<first, last>>: what a sync may ask for
  Statements,  \* [id, first, last, off]: off is added to the closing balance by mistake
  ReadDays,    \* days whose balance the host may read
  MaxQuiet,    \* max_quiet_days
  MaxReadings, \* bound: balances the host reads
  MaxMistakes, \* bound: mistakes of people
  None

Feed == 0      \* stands beside the statement ids as the maker of a record

VARIABLES
  books,      \* postings on the account: [no, day, amount, sourced, opening]
  waiting,    \* rows of the account in pending-categorization.json
  windows,    \* days with a feed_sync record
  statements, \* statement records
  replaced,   \* statement ids that the selection replaces
  readings,   \* balances the host read: [day, read, through, balance]
  recons,     \* reports/reconciliation.json, by month
  mistakes

vars == <<books, waiting, windows, statements, replaced, readings, recons, mistakes>>

Months == DOMAIN MonthEnds
End(m) == MonthEnds[m]
First(m) == IF m = 1 THEN 1 ELSE MonthEnds[m - 1] + 1
MonthOf(day) == CHOOSE m \in Months : day \in First(m) .. End(m)

Total(rows) == MapThenSumSet(LAMBDA r : r.amount, rows)
Balance(day) == Starting + Total({t \in Txns : t.day <= day})

\* Series of tieout.py: the sum through a day and between two days.
Through(rows, day) == Total({r \in rows : r.day <= day})
Between(rows, a, b) == Total({r \in rows : r.day \in a .. b})
-----------------------------------------------------------------------------
(* STATEMENTS AND COVERAGE                                                    *)

\* A printed statement shows what the bank had, unless a person mistyped it.
Opening(s) == Balance(s.first - 1)
Closing(s) == Balance(s.last) + s.off

\* load_statements: the records that no other one replaces.
Current == {s \in statements : s.id \notin replaced}
Peers(s) == {p \in statements : p.first = s.first /\ p.last = s.last}

\* _transaction_runs: quiet days between postings that came from a source.
QuietDays ==
  LET days == {e.day : e \in {x \in books : x.sourced}}
  IN  {d \in 1 .. LastDay : \E a, b \in days :
          a <= d /\ d <= b /\ (a = b \/ (b - a <= MaxQuiet /\ \A c \in days : ~(a < c /\ c < b)))}

StatementDays == UNION {s.first .. s.last : s \in Current}
Strong == StatementDays \cup windows

\* check_coverage, one month: the status and whether strong evidence carries it.
Status(m) ==
  LET covered == (Strong \cup QuietDays) \cap First(m) .. End(m)
  IN  IF covered = First(m) .. End(m) THEN "complete" ELSE IF covered = {} THEN "missing" ELSE "partial"
Verified(m) == Status(m) = "complete" /\ First(m) .. End(m) \subseteq Strong

\* _continuity: neighbours in the order of their days, and what separates them.
Sorted == SetToSortSeq(Current, LAMBDA a, b :
            \/ a.first < b.first
            \/ a.first = b.first /\ a.last < b.last
            \/ a.first = b.first /\ a.last = b.last /\ a.id < b.id)
Continuity(a, b) ==
  IF a.first = b.first /\ a.last = b.last
  THEN IF Closing(a) = Closing(b) THEN "statement_duplicate" ELSE "statement_conflict"
  ELSE IF b.first <= a.last THEN "statement_overlap"
  ELSE IF b.first > a.last + 1 THEN "statement_gap"
  ELSE IF Opening(b) # Closing(a) THEN "balance_discontinuity" ELSE "none"
Findings == {Continuity(Sorted[i], Sorted[i + 1]) : i \in 1 .. Len(Sorted) - 1}

\* stale_reconciliations: records whose statement was replaced since.
Stale == {m \in Months : recons[m] # None /\ recons[m].by \in replaced}

\* readiness_items: what keeps a period from being reviewed.
Blockers ==
  {m \in Months : Status(m) # "complete"} \cup Stale
    \cup (IF Findings \cap {"statement_conflict", "balance_discontinuity"} # {} THEN {0} ELSE {})

-----------------------------------------------------------------------------
(* TIE-OUTS                                                                   *)

\* period_tieout: the movement of the books, less an opening entry of its first day.
Movement(a, b) == Between({e \in books : ~(e.opening /\ e.day = a)}, a, b)
Ties(s) == Opening(s) + Movement(s.first, s.last) = Closing(s)

\* _month_tieout: only a statement that is exactly the month and alone in it.
MonthTie(m) ==
  LET over == {s \in Current : s.first <= End(m) /\ s.last >= First(m)}
  IN  IF over = {} THEN "none"
      ELSE IF \E s \in over : over = {s} /\ s.first = First(m) /\ s.last = End(m)
           THEN IF \E s \in over : Ties(s) THEN "matches" ELSE "differs"
           ELSE "not_aligned"

\* _compare: a balance of the bank against the books of its day.
Compare(r) ==
  LET difference == r.balance - Through(books, r.day)
      waits == {w \in waiting : w.day <= r.day}
  IN  IF r.day > r.through THEN "bank_newer"
      ELSE IF difference = 0 THEN "matches"
      ELSE IF waits # {} /\ difference = Total(waits) THEN "waiting_in_review" ELSE "differs"
-----------------------------------------------------------------------------
(* THE PROOF OF A MONTH END                                                   *)

\* _readings: the feed had every row of the day of the balance.
Usable == {r \in readings : r.through >= r.day}

\* Readings of a day that is over at the bank, the earliest first.
After(m) ==
  SetToSortSeq({r \in Usable : r.day >= End(m) /\ r.read > End(m)},
               LAMBDA a, b : a.day < b.day \/ (a.day = b.day /\ a.read < b.read))

Outcome(m, r) ==
  IF ~ (First(m) .. r.day \subseteq windows) THEN "feed_incomplete"
  ELSE IF \E w \in waiting : w.day <= r.day THEN "waiting_in_review"
  ELSE IF Through(books, r.day) # r.balance THEN "books_differ" ELSE "proven"

\* Variant: every reading is a chance of its own.
NeverDecisive(m, r) == r.day = End(m) /\ Outcome(m, r) = "feed_incomplete"

\* A reading for the month end itself is decisive when it differs.
Decisive(m, r) == r.day = End(m) /\ Outcome(m, r) = "books_differ"
Chosen(m) ==
  LET after == After(m)
      hits == {i \in DOMAIN after :
                 Outcome(m, after[i]) = "proven" /\ \A j \in 1 .. i - 1 : ~Decisive(m, after[j])}
  IN  IF hits = {} THEN None ELSE after[Min(hits)]

\* The first month of the feed starts at zero when nothing lies before it and
\* every posting of it came from a source.
StartsAtZero(m) ==
  /\ windows # {} /\ MonthOf(Min(windows)) = m
  /\ \A e \in books : e.day >= First(m)
  /\ {e \in books : e.day <= End(m)} # {}
  /\ \A e \in books : e.day <= End(m) => e.sourced

\* _opening: from the month proven before, its record, a statement, or nothing.
Opened(m, before) ==
  LET ending == {s \in Current : s.last = First(m) - 1}
  IN  IF before # None THEN before
      ELSE IF m > 1 /\ recons[m - 1] # None
           THEN IF recons[m - 1].status \in {"clean", "resolved"} THEN recons[m - 1].source ELSE None
      ELSE IF ending # {} THEN Closing(CHOOSE s \in ending : TRUE)
      ELSE IF StartsAtZero(m) THEN 0 ELSE None

NotProven(reason) == [reason |-> reason, closing |-> None, opening |-> None, reading |-> None]

\* _month: existing records first, then a reading, then the opening.
Proof(m, before) ==
  LET record == recons[m]
      r == Chosen(m)
      opening == Opened(m, before)
  IN  IF record # None /\ record.status = "clean" /\ record.ledger = Through(books, End(m))
      THEN NotProven("already_reconciled")
      ELSE IF record # None /\ record.by # Feed THEN NotProven("existing_record")
      ELSE IF r = None THEN NotProven("no_reading")
      ELSE IF opening = None THEN NotProven("opening_unproven")
      ELSE IF opening # Through(books, First(m) - 1) THEN NotProven("opening_differs")
      ELSE [reason |-> "proven", opening |-> opening, reading |-> r,
            closing |-> r.balance - Between(books, End(m) + 1, r.day)]

\* prove: month after month, from the first window on.
prove ==
  LET row[m \in Months] ==
        IF windows = {} \/ m < MonthOf(Min(windows)) THEN NotProven("feed_incomplete")
        ELSE Proof(m, IF m = 1 THEN None ELSE row[m - 1].closing)
  IN  row
-----------------------------------------------------------------------------
(* WHAT CHANGES THE FILES                                                     *)

Row(t) == [no |-> t.no, day |-> t.day, amount |-> t.amount, sourced |-> TRUE, opening |-> FALSE]
Known(t) == \E e \in books \cup waiting : e.no = t.no

\* A sync posts or stages what is new, and record_feed_window writes its days.
record_feed_window(first, last) ==
  LET new == {t \in Txns : t.day \in first .. last /\ ~Known(t)}
  IN  /\ ~ (first .. last \subseteq windows)
      /\ windows' = windows \cup first .. last
      /\ waiting' = waiting \cup {Row(t) : t \in new \cap Unknown}
      /\ books' = books \cup {Row(t) : t \in new \ Unknown}
      /\ UNCHANGED <<statements, replaced, readings, recons, mistakes>>

confirm(row) ==
  /\ waiting' = waiting \ {row} /\ books' = books \cup {row}
  /\ UNCHANGED <<windows, statements, replaced, readings, recons, mistakes>>

\* The opening entry of the account has a source id; a journal entry has none.
record_opening(day, sourced) ==
  /\ \A e \in books : ~e.opening /\ e.day >= day
  /\ books' = books \cup {[no |-> 0, day |-> day, amount |-> Balance(day - 1), sourced |-> sourced, opening |-> sourced]}
  /\ UNCHANGED <<waiting, windows, statements, replaced, readings, recons, mistakes>>

\* A person loses, repeats, redates or mistypes the posting of a row.
Mistake(e) ==
  /\ e.no # 0 /\ mistakes < MaxMistakes /\ mistakes' = mistakes + 1
  /\ \/ books' = books \ {e}
     \/ books' = books \cup {[e EXCEPT !.no = @ + 100]}
     \/ \E day \in {e.day - 1, e.day + 1} : books' = (books \ {e}) \cup {[e EXCEPT !.day = day]}
     \/ books' = (books \ {e}) \cup {[e EXCEPT !.amount = @ + 1]}
  /\ UNCHANGED <<waiting, windows, statements, replaced, readings, recons>>

record_statement(s) ==
  /\ s \notin statements
  /\ statements' = statements \cup {s}
  /\ mistakes' = mistakes + (IF s.off = 0 THEN 0 ELSE 1) /\ mistakes' <= MaxMistakes
  /\ UNCHANGED <<books, waiting, windows, replaced, readings, recons>>

\* select_statement: one record of a period replaces the others, and may be replaced again.
select_statement(s) ==
  /\ s \in statements /\ Peers(s) # {s}
  /\ replaced' = (replaced \ {p.id : p \in Peers(s)}) \cup {p.id : p \in Peers(s) \ {s}}
  /\ replaced' # replaced
  /\ UNCHANGED <<books, waiting, windows, statements, readings, recons, mistakes>>

\* The host reads a balance; on the day itself rows may still be missing.
ReadBalance(day, read) ==
  LET full == [day |-> day, read |-> read, through |-> day, balance |-> Balance(day)]
      part == [day |-> day, read |-> read, through |-> day - 1, balance |-> Balance(day - 1)]
  IN  /\ Cardinality(readings) < MaxReadings
      /\ \E r \in {full} \cup (IF read = day THEN {part} ELSE {}) : readings' = readings \cup {r} /\ r \notin readings
      /\ UNCHANGED <<books, waiting, windows, statements, replaced, recons, mistakes>>

Record(status, m, source, by) ==
  recons' = [recons EXCEPT ![m] = [status |-> status, ledger |-> Through(books, End(m)), source |-> source, by |-> by]]

\* reconcile with the figures of a proven month.
ReconcileProven(m) ==
  /\ prove[m].reason = "proven"
  /\ Record("clean", m, prove[m].closing, Feed)
  /\ UNCHANGED <<books, waiting, windows, statements, replaced, readings, mistakes>>

\* reconcile with a statement that ends with the month; a difference stays open.
ReconcileStatement(m, s) ==
  /\ s.last = End(m) /\ s \in Current
  /\ recons[m] # None => (recons[m].by # s.id \/ recons[m].ledger # Through(books, End(m)))
  /\ Record(IF Closing(s) = Through(books, End(m)) THEN "clean" ELSE "open", m, Closing(s), s.id)
  /\ UNCHANGED <<books, waiting, windows, statements, replaced, readings, mistakes>>
-----------------------------------------------------------------------------
Init ==
  /\ books = {} /\ waiting = {} /\ windows = {} /\ statements = {} /\ replaced = {}
  /\ readings = {} /\ recons = [m \in Months |-> None] /\ mistakes = 0

Next ==
  \/ \E w \in Windows : record_feed_window(w[1], w[2])
  \/ \E row \in waiting : confirm(row)
  \/ \E sourced \in BOOLEAN : record_opening(1, sourced)
  \/ \E e \in books : Mistake(e)
  \/ \E s \in Statements : record_statement(s) \/ select_statement(s)
  \/ \E day \in ReadDays, late \in {0, 1} : ReadBalance(day, day + late)
  \/ \E m \in Months : ReconcileProven(m) \/ \E s \in statements : ReconcileStatement(m, s)

Spec == Init /\ [][Next]_vars
-----------------------------------------------------------------------------
(* PROPERTIES                                                                 *)

\* The documented limit: a row that the books date on the other side of a month
\* end, which is found when a reading falls on that end.
Straddles(day) == \E t \in Txns, e \in books : e.no = t.no /\ (t.day <= day) # (e.day <= day)
ReadOn(day) == \E r \in Usable : r.day = day /\ r.read > day

\* With one mistake at most, in the books or in a statement, a month that the
\* feed proves ended at the bank with the balance that is reported, outside the
\* documented limit; and the other checks, which compute it in their own way,
\* agree: coverage is complete and verified, the month blocks no review, the
\* balance that was chosen matches the books, and a correct statement of exactly that month ties out.
ProvenMonthIsTrue ==
  \A m \in Months : prove[m].reason = "proven" =>
    /\ Verified(m) /\ m \notin Blockers /\ Compare(prove[m].reading) = "matches"
    /\ prove[m].closing = Balance(End(m)) \/ (Straddles(End(m)) /\ ~ReadOn(End(m)))
    /\ MonthTie(m) = "differs" =>
         Straddles(End(m)) \/ Straddles(First(m) - 1) \/ \E s \in Current : s.off # 0
=============================================================================
