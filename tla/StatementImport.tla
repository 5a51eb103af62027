-------------------------- MODULE StatementImport --------------------------
(* Bank statements of one account (statement_import.py, statement_extract.py) *)
(* beside its connected feed, and the account's opening balance               *)
(* (statement_opening.py).                                                    *)
(*                                                                            *)
(* What happened at the bank is a constant. A file shows some of it as rows;  *)
(* a row has an id that its source builds and carries, for the properties     *)
(* only, the transactions it stands for ("of"). A person who decides a held   *)
(* row, types a period or an opening balance answers from the bank's records. *)
(* An import runs under the company lock in steps, and the process may stop   *)
(* between them; the importer's own steps are in PostingWorkflow.             *)
EXTENDS Integers, Sequences, FiniteSets, SequencesExt, FiniteSetsExt

CONSTANTS
  Txns,         \* bank transactions: [no, day, amount, wording], numbered by day
  Files,        \* [name, source, first, last, period, printed, rows]: statement
                \* files; "printed": with an opening balance
  FeedDay,      \* the day the feed gives a transaction
  FeedBatches,  \* sets of transactions that one feed import brings
  Boundaries,   \* boundary days a statement profile may have
  OpeningDays,  \* days a person may enter an opening balance for
  Learned,      \* wordings the categorizer posts by itself
  NearDays,     \* NEAR_DATE_DAYS
  MaxOpenings,  \* bound on the opening entries written
  MaxStops,     \* bound on the process stopping
  None

VARIABLES
  profiles,     \* source -> boundary day of its saved profile, or None
  books,        \* bank rows posted to the account
  queue,        \* bank rows staged for review
  openings,     \* opening entries, [day, amount, source, live], in order
  held,         \* duplicate-candidates.json: [row, status]
  records,      \* statement file -> record in statements/, or None
  unconfirmed,  \* files with a record in statements/unconfirmed/
  needsReview,  \* files with an extraction in statements/needs-review/
  job,          \* the import that runs, or None
  imported,     \* files whose import went through, with the rows kept
  stops

vars == <<profiles, books, queue, openings, held, records, unconfirmed, needsReview, job, imported, stops>>
-----------------------------------------------------------------------------
(* ROWS                                                                       *)

SumOf(set) == FoldSet(LAMBDA t, sum : sum + t.amount, 0, set)

\* Transactions no statement can tell apart.
Class(t) == {u \in Txns : u.day = t.day /\ u.amount = t.amount /\ u.wording = t.wording}

\* The n-th identical row of a CSV or a reading is the n-th such row of any other.
Occurrence(rows, t) == Cardinality({u \in rows \cap Class(t) : u.no <= t.no})

StatementRow(source, rows, t) ==
  [id |-> IF source = "ofx" THEN <<"ofx", t.no>>
          ELSE <<"stmt", t.day, t.amount, t.wording, Occurrence(rows, t)>>,
   day |-> t.day, amount |-> t.amount, desc |-> t.wording, family |-> source, no |-> t.no, of |-> Class(t)]

FeedRow(t) ==
  [id |-> <<"feed", t.no>>, day |-> FeedDay[t], amount |-> t.amount, desc |-> t.wording,
   family |-> "feed", no |-> t.no, of |-> Class(t)]

Ids(set) == {row.id : row \in set}

\* What the bank held at the start of a day.
BalanceBefore(day) == 100 + SumOf({t \in Txns : t.day < day})

Live == {i \in DOMAIN openings : openings[i].live}
OpeningDay == IF Live = {} THEN None ELSE openings[Min(Live)].day
BeforeOpening(day) == OpeningDay # None /\ day < OpeningDay
-----------------------------------------------------------------------------
(* THE DUPLICATE PLAN                                                         *)

\* _existing_pool: entries on the account that reverse nothing, and staged rows.
Pool(batch) ==
  {row \in books \cup queue : row.id \notin Ids(batch)}
    \cup {[id |-> <<"opening", i>>, day |-> openings[i].day, amount |-> openings[i].amount, desc |-> None,
           family |-> "statement-opening", no |-> 0, of |-> {}] : i \in DOMAIN openings}

OpenHolds == {h \in held : h.status = "duplicate-candidate"}
Decided(row, status) == \E h \in held : h.row.id = row.id /\ h.status = status

\* Variant: a row that reads like a recorded one is taken for it.
SkippedByWording(row) ==
  \/ \E x \in books \cup queue : x.day = row.day /\ x.amount = row.amount /\ x.desc = row.desc
  \/ Decided(row, "confirmed-duplicate")

\* decision, seen and posted ids: rows that were dealt with before.
Skipped(row) ==
  \/ row.id \in Ids(books \cup queue)
  \/ \E h \in OpenHolds : h.row.id = row.id
  \/ Decided(row, "confirmed-duplicate")

Distance(a, b) == IF a.day < b.day THEN b.day - a.day ELSE a.day - b.day
SameRow(pool, row) == {x \in pool : x.day = row.day /\ x.amount = row.amount /\ x.desc = row.desc}

\* Variant: another source dates a purchase on the same day.
SameDayRow(pool, row) ==
  {x \in pool : x.amount = row.amount /\ x.family # row.family /\ x.day = row.day}

NearRow(pool, row) ==
  {x \in pool : x.amount = row.amount /\ x.family # row.family /\ Distance(x, row) <= NearDays}

\* The recorded row an incoming one may repeat; each serves one incoming row.
Match(pool, row) ==
  LET near == NearRow(pool, row)
  IN  IF SameRow(pool, row) # {} THEN {CHOOSE x \in SameRow(pool, row) : TRUE}
      ELSE IF near = {} THEN {}
      ELSE {CHOOSE x \in near : \A y \in near : Distance(x, row) <= Distance(y, row)}

PlanRow(plan, row) ==
  LET match == Match(plan.pool, row)
  IN  CASE Skipped(row) -> plan
        [] ~Skipped(row) /\ (Decided(row, "confirmed-distinct") \/ match = {}) ->
             [plan EXCEPT !.import = @ \cup {row}]
        [] OTHER -> [plan EXCEPT !.held = @ \cup {row}, !.pool = @ \ match]

plan_duplicates(rows) ==
  FoldLeft(PlanRow, [import |-> {}, held |-> {}, pool |-> Pool(rows)],
           SetToSortSeq(rows, LAMBDA a, b : a.day < b.day \/ (a.day = b.day /\ a.no < b.no)))

-----------------------------------------------------------------------------
(* IMPORT                                                                     *)

Idle == job = None

\* save_profile: a profile keeps its account; its boundary may be saved again.
save_profile(source, boundary) ==
  /\ Idle
  /\ profiles' = [profiles EXCEPT ![source] = boundary]
  /\ UNCHANGED <<books, queue, openings, held, records, unconfirmed, needsReview, job, imported, stops>>

\* _apply_boundary, side "before".
Kept(f, rows) == {row \in rows : row.day <= profiles[f.source]}

\* Where the period of a file comes from: a person, the file, its rows or nobody.
NewRecord(f, rows, period) ==
  [confirmed |-> period \in {"person", "statement"},
   basis |-> IF period = "rows" THEN "transactions" ELSE None,
   first |-> IF period \in {"person", "statement"} THEN f.first ELSE Min({t.day : t \in rows} \cup {f.last}),
   last |-> IF period \in {"person", "statement"} THEN f.last ELSE Max({t.day : t \in rows} \cup {f.first})]

\* _contract_record: which periods an import may ask for.
Periods(f) ==
  IF f.period = "statement" THEN {"statement"}
  ELSE {"person", "none"} \cup (IF f.rows = {} THEN {} ELSE {"rows"})

Start(f, read, period) ==
  LET rows == {StatementRow(f.source, read, t) : t \in read}
      kept == IF f.source = "pdf" THEN rows ELSE Kept(f, rows)
  IN  /\ \A row \in kept : ~BeforeOpening(row.day)
      /\ job' = [file |-> f, kept |-> kept, plan |-> plan_duplicates(kept),
                 record |-> NewRecord(f, read, period), step |-> "rows"]

\* import_file: everything is planned and refused before the first write.
import_file(f) ==
  /\ Idle /\ f.source # "pdf" /\ profiles[f.source] # None
  /\ \E period \in Periods(f) : Start(f, f.rows, period)
  /\ UNCHANGED <<profiles, books, queue, openings, held, records, unconfirmed, needsReview, imported, stops>>

\* validate_extraction: the rows of a reading add up to the printed balances.
TiesOut(f, read) == SumOf(read) = SumOf({t \in Txns : t.day \in f.first .. f.last})

\* import_extracted: a reading may have lost a row; one that fails is kept for review.
import_extracted(f) ==
  /\ Idle /\ f.source = "pdf" /\ profiles[f.source] # None
  /\ \E read \in {f.rows} \cup {f.rows \ {t} : t \in f.rows} :
       IF TiesOut(f, read)
       THEN /\ Start(f, read, "statement")
            /\ UNCHANGED needsReview
       ELSE needsReview' = needsReview \cup {f} /\ UNCHANGED job
  /\ UNCHANGED <<profiles, books, queue, openings, held, records, unconfirmed, imported, stops>>

\* import_transactions: learned rows are posted, the others staged.
Take(rows) ==
  /\ books' = books \cup {row \in rows : row.desc \in Learned}
  /\ queue' = queue \cup {row \in rows : row.desc \notin Learned}

import_transactions ==
  /\ ~Idle /\ job.step = "rows"
  /\ job' = [job EXCEPT !.step = "held"]
  /\ Take(job.plan.import)
  /\ UNCHANGED <<profiles, openings, held, records, unconfirmed, needsReview, imported, stops>>

\* _record_held: a candidate on file is not written again.  The aliases written behind
\* it name the pair and decide nothing until a person does; they are left out.
_record_held ==
  /\ ~Idle /\ job.step = "held"
  /\ held' = held \cup {[row |-> row, status |-> "duplicate-candidate"] :
                          row \in {r \in job.plan.held : \A h \in held : h.row.id # r.id}}
  /\ job' = [job EXCEPT !.step = "record"]
  /\ UNCHANGED <<profiles, books, queue, openings, records, unconfirmed, needsReview, imported, stops>>

\* _keep_confirmed_period: a repeat without dates keeps what a person confirmed.
_keep_confirmed_period(f, record) ==
  IF ~record.confirmed /\ records[f] # None /\ records[f].confirmed THEN records[f] ELSE record

\* _store_record: coverage goes to statements/, the rest to unconfirmed/.
_store_record ==
  LET f == job.file
      record == _keep_confirmed_period(f, job.record)
  IN  /\ ~Idle /\ job.step = "record"
      /\ IF record.confirmed \/ record.basis # None
         THEN records' = [records EXCEPT ![f] = record] /\ UNCHANGED unconfirmed
         ELSE unconfirmed' = unconfirmed \cup {f} /\ UNCHANGED records
      /\ job' = [job EXCEPT !.step = "finish", !.record = record]
      /\ UNCHANGED <<profiles, books, queue, openings, held, needsReview, imported, stops>>

\* The record that waited for its period goes, and a failed reading is resolved.
Finish ==
  LET f == job.file
  IN  /\ ~Idle /\ job.step = "finish"
      /\ unconfirmed' = IF job.record.confirmed \/ job.record.basis # None THEN unconfirmed \ {f} ELSE unconfirmed
      /\ needsReview' = IF f.source = "pdf" THEN {g \in needsReview : g.last # f.last} ELSE needsReview
      /\ imported' = imported \cup {[file |-> f, kept |-> job.kept]}
      /\ job' = None
      /\ UNCHANGED <<profiles, books, queue, openings, held, records, stops>>

Stop ==
  /\ ~Idle /\ stops < MaxStops
  /\ job' = None /\ stops' = stops + 1
  /\ UNCHANGED <<profiles, books, queue, openings, held, records, unconfirmed, needsReview, imported>>
-----------------------------------------------------------------------------
(* THE FEED AND THE REVIEW OF HELD ROWS                                       *)

\* import_transactions with the duplicate guard: rows before the opening are reported.
feed(batch) ==
  LET rows == {FeedRow(t) : t \in batch}
      plan == plan_duplicates(rows)
      late == {row \in rows : BeforeOpening(row.day)}
  IN  /\ Idle
      /\ ~ \A row \in rows : Skipped(row)
      /\ Take(plan.import \ late)
      /\ held' = held \cup {[row |-> row, status |-> "duplicate-candidate"] :
                   row \in {r \in plan.held \ late : \A h \in held : h.row.id # r.id}}
      /\ UNCHANGED <<profiles, openings, records, unconfirmed, needsReview, job, imported, stops>>

\* How many transactions of a class the books and the queue hold.
Counted(class) == Cardinality({row \in books \cup queue : row.of = class})
InOpening(class) == \A t \in class : BeforeOpening(t.day)
IsRepeated(row) == InOpening(row.of) \/ Counted(row.of) >= Cardinality(row.of)

\* resolve_duplicate_candidate: a released row is posted or staged, unless the opening has it.
resolve_duplicate_candidate(h) ==
  /\ Idle /\ h.status = "duplicate-candidate"
  /\ IF IsRepeated(h.row)
     THEN /\ held' = (held \ {h}) \cup {[h EXCEPT !.status = "confirmed-duplicate"]}
          /\ UNCHANGED <<books, queue>>
     ELSE /\ ~BeforeOpening(h.row.day)
          /\ held' = (held \ {h}) \cup {[h EXCEPT !.status = "confirmed-distinct"]}
          /\ Take({h.row})
  /\ UNCHANGED <<profiles, openings, records, unconfirmed, needsReview, job, imported, stops>>

confirm(row) ==
  /\ Idle /\ row \in queue
  /\ queue' = queue \ {row} /\ books' = books \cup {row}
  /\ UNCHANGED <<profiles, openings, held, records, unconfirmed, needsReview, job, imported, stops>>
-----------------------------------------------------------------------------
(* THE OPENING BALANCE                                                        *)

\* The day and the source of an opening from a saved statement.
FromStatement ==
  {[day |-> records[f].first, source |-> IF f.printed THEN "printed" ELSE "person", file |-> f] :
     f \in {g \in Files : records[g] # None}}

\* A typed amount for a day on which no saved statement has a printed one.
FromPerson ==
  {[day |-> day, source |-> "person", file |-> None] :
     day \in {d \in OpeningDays :
                \A f \in Files : records[f] # None /\ f.printed => records[f].first # d}}

EarlierStatement(o) == \E f \in Files : f # o.file /\ records[f] # None /\ records[f].first < o.day
EarlierPosting(day) ==
  \/ \E row \in books : row.day < day
  \/ \E i \in DOMAIN openings : openings[i].day < day
EarlierWaiting(day) == \E row \in queue : row.day < day

NothingEarlier(o) == ~EarlierStatement(o) /\ ~EarlierPosting(o.day) /\ ~EarlierWaiting(o.day)

\* record_opening: the first opening, or one that replaces it on the same or an earlier day.
record_opening(o) ==
  LET entry == [day |-> o.day, amount |-> BalanceBefore(o.day), source |-> o.source, live |-> TRUE]
  IN  /\ Idle /\ Len(openings) < MaxOpenings
      /\ \A i \in Live : o.day <= openings[i].day /\ openings[i] # entry
      /\ NothingEarlier(o)
      /\ openings' = Append([i \in DOMAIN openings |-> [openings[i] EXCEPT !.live = FALSE]], entry)
      /\ UNCHANGED <<profiles, books, queue, held, records, unconfirmed, needsReview, job, imported, stops>>
-----------------------------------------------------------------------------
Sources == {f.source : f \in Files}

Init ==
  /\ profiles = [source \in Sources |-> None]
  /\ books = {} /\ queue = {} /\ openings = <<>> /\ held = {}
  /\ records = [f \in Files |-> None] /\ unconfirmed = {} /\ needsReview = {}
  /\ job = None /\ imported = {} /\ stops = 0

Next ==
  \/ \E source \in Sources, boundary \in Boundaries : save_profile(source, boundary)
  \/ \E f \in Files : import_file(f) \/ import_extracted(f)
  \/ import_transactions \/ _record_held \/ _store_record \/ Finish \/ Stop
  \/ \E batch \in FeedBatches : feed(batch)
  \/ \E h \in held : resolve_duplicate_candidate(h)
  \/ \E row \in queue : confirm(row)
  \/ \E o \in FromStatement \cup FromPerson : record_opening(o)

Spec == Init /\ [][Next]_vars
-----------------------------------------------------------------------------
(* PROPERTIES                                                                 *)

\* No transaction of the bank is in the books and the review queue more often
\* than it happened, whichever files and feed batches brought it, in any order,
\* and none that the opening balance contains is there at all.
CountedOnce ==
  \A t \in Txns : Counted(Class(t)) + (IF InOpening(Class(t)) THEN Cardinality(Class(t)) ELSE 0)
                    <= Cardinality(Class(t))

\* Once a file went through and its held rows are decided, each transaction it
\* shows is in the books, in the queue or in the opening balance: as often as
\* the file shows it, also where the import stopped before and was repeated.
NothingDropped ==
  \A i \in imported :
    (\A h \in OpenHolds : h.row.id \notin Ids(i.kept)) =>
      \A row \in i.kept : InOpening(row.of) \/ Counted(row.of) >= Cardinality({r \in i.kept : r.of = row.of})
=============================================================================
