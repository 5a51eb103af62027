--------------------------- MODULE StatementLayouts ---------------------------
(* CSV files of banks and cards: what a file shows decides how it is read, a     *)
(* person decides what it leaves open, and the layout is saved for later files  *)
(* (connectors/bankcsv.py; inspect, map and _csv_statement in                   *)
(* statement_import.py).  How a bank prints is an assumption about the outside; *)
(* text is kept where a reading turns on it: decimal marks, the order of day    *)
(* and month, signs.  Descriptions only say whether they hold an inflow word.   *)
EXTENDS Integers, FiniteSets, Sequences, SequencesExt

CONSTANTS
  Banks,      \* how banks print: see Printed
  Histories,  \* what happened at an account: sequences of [on, cents, pending, inflow]
  Windows,    \* what a file holds: [first, last] of a history
  Opening     \* the balance before the first row

VARIABLES
  bank, history,
  profile,    \* {} or the one saved profile, with the window it was saved from
  imported    \* {} or the statement read last

vars == <<bank, history, profile, imported>>

Unset  == "none"
Abs(n) == IF n < 0 THEN -n ELSE n
Money  == {"amount", "debit", "credit", "balance"}
-----------------------------------------------------------------------------
(* What a bank prints.  An empty cell is {}, a filled one holds its number.      *)

Number(b, n) ==
  [whole |-> Abs(n) \div 100, cents |-> Abs(n) % 100, point |-> b.cents \/ Abs(n) % 100 # 0,
   grouped |-> b.grouped /\ Abs(n) >= 100000, mark |-> b.decimal, minus |-> n < 0]
Date(b, on) == IF b.format = "mdy" THEN on ELSE <<on[2], on[1]>>
BalanceAfter(h, i) == Opening + FoldSeq(LAMBDA t, n : IF t.pending THEN n ELSE n + t.cents, 0, SubSeq(h, 1, i))
Columns(b) ==
  (IF b.sign = "debit_credit" THEN {"debit", "credit"} ELSE {"amount"})
    \union (IF b.balance THEN {"balance"} ELSE {}) \union (IF b.sign = "direction_column" THEN {"direction"} ELSE {})
    \union (IF b.header THEN {"status"} ELSE {})
Shown(b, n) == IF b.kind = "liability" /\ b.owed THEN -n ELSE n
Blank == [date |-> {}, pending |-> FALSE, inflow |-> FALSE, direction |-> Unset, label |-> Unset,
          amount |-> {}, debit |-> {}, credit |-> {}, balance |-> {}]
Line(b, h, i) ==
  LET n == h[i].cents IN
  [Blank EXCEPT
    !.date = {Date(b, h[i].on)}, !.pending = h[i].pending, !.inflow = h[i].inflow,
    !.direction = IF b.sign # "direction_column" THEN Unset ELSE IF n > 0 THEN "in" ELSE "out",
    !.amount = CASE b.sign = "standard" -> {Number(b, n)} [] b.sign = "inverted" -> {Number(b, -n)}
                 [] b.sign = "direction_column" -> {Number(b, Abs(n))} [] OTHER -> {},
    !.debit = IF b.sign = "debit_credit" /\ n < 0 THEN {Number(b, -n)} ELSE {},
    !.credit = IF b.sign = "debit_credit" /\ n >= 0 THEN {Number(b, n)} ELSE {},
    !.balance = IF b.balance /\ ~h[i].pending THEN {Number(b, Shown(b, BalanceAfter(h, i)))} ELSE {}]
\* A line that sums up carries the balance in its last cell, and its day or no day.
Summary(b, h, label, i) ==
  [Blank EXCEPT !.label = label, !.date = IF b.summary = "dated" THEN {Date(b, h[i].on)} ELSE {},
                !.balance = {Number(b, Shown(b, BalanceAfter(h, IF label = "opening" THEN i - 1 ELSE i)))}]
Printed(b, h, w) ==
  LET lines == SelectSeq([k \in 1..w.last - w.first + 1 |-> Line(b, h, w.first + k - 1)],
                         LAMBDA r : "status" \in Columns(b) \/ ~r.pending)
      all == IF b.summary = Unset THEN lines
             ELSE <<Summary(b, h, "opening", w.first)>> \o lines \o <<Summary(b, h, "closing", w.last)>>
  IN [header |-> b.header, columns |-> Columns(b), rows |-> IF b.newestFirst THEN Reverse(all) ELSE all]
-----------------------------------------------------------------------------
(* Cells *)

DateFormats == <<"mdy", "dmy">>
DaysOf(d, format) ==
  LET on == IF format = "mdy" THEN d ELSE <<d[2], d[1]>> IN IF on[1] \in 1..12 THEN {on} ELSE {}

\* The number a cell is taken for.  Under the other mark a point is dropped, and a
\* group mark becomes a point with three digits, which is refused unless they round.
parse_money(p, decimal) ==
  LET n == IF p.mark = decimal THEN {p.whole * 100 + p.cents}
           ELSE IF p.grouped THEN IF p.whole % 10 = 0 /\ p.cents = 0 THEN {p.whole \div 10} ELSE {}
           ELSE IF p.point THEN {(p.whole * 100 + p.cents) * 100} ELSE {p.whole * 100}
  IN {IF p.minus THEN -m ELSE m : m \in n}
Reads(cell, decimal) == UNION {parse_money(p, decimal) : p \in cell}
-----------------------------------------------------------------------------
(* Detection: what the file decides; {} where it does not *)

Parsed(dates, format) == [d \in dates |-> DaysOf(d, format)]
DetectFormat(dates) ==
  LET viable == SelectSeq(DateFormats, LAMBDA f : \A d \in dates : DaysOf(d, f) # {})
  IN IF dates = {} \/ viable = <<>> \/ Cardinality({Parsed(dates, f) : f \in Range(viable)}) > 1 THEN {} ELSE {viable[1]}

DetectDecimal(numbers) ==
  LET comma == \E p \in numbers : p.point /\ p.mark = ","
      dot == \E p \in numbers : p.point /\ p.mark = "."
      ambiguous == \E p \in numbers : ~p.point /\ p.grouped
  IN IF comma /\ dot THEN {} ELSE IF comma THEN {","} ELSE IF dot \/ ~ambiguous THEN {"."} ELSE {}

Follows(pairs, relation) ==
  \A i \in 2..Len(pairs) : pairs[i].balance - pairs[i - 1].balance = (IF relation = "with" THEN 1 ELSE -1) * pairs[i].amount
\* Mutant: the rows are taken for the oldest first.
OldestFirst(pairs) ==
  LET fits == {m \in {"file"} \X {"with", "against"} : Follows(pairs, m[2])}
  IN IF Len(pairs) < 2 \/ Cardinality(fits) # 1 THEN {} ELSE fits
\* The pairing of a running balance with the amounts, when exactly one fits.
BalanceRelation(pairs) ==
  LET fits == {m \in {"file", "reversed"} \X {"with", "against"} :
                 Follows(IF m[1] = "file" THEN pairs ELSE Reverse(pairs), m[2])}
  IN IF Len(pairs) < 2 \/ Cardinality(fits) # 1 THEN {} ELSE fits

Vote(all, up) == IF all = {} THEN {} ELSE IF \A x \in all : up[x] THEN {"standard"} ELSE IF \A x \in all : ~up[x] THEN {"inverted"} ELSE {}
DetectSign(f, columns, decimal, kind) ==
  LET at(i) == Reads(f.rows[i].amount, decimal)
      real == {i \in DOMAIN f.rows : at(i) # {} /\ at(i) # {0}}
      positive == {i \in real : \A n \in at(i) : n > 0}
      known == {i \in real : f.rows[i].direction # Unset}
      hits == {i \in real : f.rows[i].inflow}
      paired == SelectSeq(f.rows, LAMBDA r : Reads(r.amount, decimal) # {} /\ Reads(r.balance, decimal) # {})
      pairs == [i \in DOMAIN paired |-> [amount |-> CHOOSE n \in Reads(paired[i].amount, decimal) : TRUE,
                                         balance |-> CHOOSE n \in Reads(paired[i].balance, decimal) : TRUE]]
      byDirection == IF "direction" \notin columns \/ known = {} THEN {}
                     ELSE IF known \subseteq positive THEN {"direction_column"}
                     ELSE Vote(known, [i \in known |-> (i \in positive) <=> f.rows[i].direction = "in"])
      byBalance == IF "balance" \in columns /\ kind = "asset"
                   THEN {IF m[2] = "with" THEN "standard" ELSE "inverted" : m \in BalanceRelation(pairs)} ELSE {}
      byWords == IF Cardinality(hits) >= 2 THEN Vote(hits, [i \in hits |-> i \in positive]) ELSE {}
      votes == byDirection \union byBalance \union byWords
  IN IF Cardinality(votes) = 1 THEN votes ELSE {}

\* Without a header the columns are told by their content: one date, one money column.
Inferred(f) == IF Cardinality(f.columns \cap Money) = 1 THEN f.columns \cap Money ELSE {}
FindColumns(f) == IF f.header THEN f.columns ELSE Inferred(f)
detect_layout(f, kind) ==
  LET columns == FindColumns(f)
      dates == UNION {f.rows[i].date : i \in DOMAIN f.rows}
      numbers == UNION {f.rows[i][c] : i \in DOMAIN f.rows, c \in columns \cap Money}
      decimal == DetectDecimal(numbers)
      both(c) == LET n == UNION {Reads(f.rows[i][c], IF decimal = {} THEN "." ELSE CHOOSE x \in decimal : TRUE) : i \in DOMAIN f.rows}
                 IN (\E x \in n : x > 0) /\ (\E x \in n : x < 0)
      sign == IF {"debit", "credit"} \subseteq columns
              THEN IF both("debit") \/ both("credit") THEN {} ELSE {"debit_credit"}
              ELSE IF columns = {} \/ decimal = {} THEN {} ELSE DetectSign(f, columns, CHOOSE d \in decimal : TRUE, kind)
  IN [header |-> f.header, columns |-> columns, format |-> IF columns = {} THEN {} ELSE DetectFormat(dates),
      decimal |-> decimal, sign |-> sign]

\* The person answers what detection left open.
Overridden(layout, b, f) ==
  [header |-> layout.header, columns |-> IF layout.columns = {} THEN f.columns ELSE layout.columns,
   format |-> IF layout.format = {} THEN b.format ELSE CHOOSE x \in layout.format : TRUE,
   decimal |-> IF layout.decimal = {} THEN b.decimal ELSE CHOOSE x \in layout.decimal : TRUE,
   sign |-> IF layout.sign = {} THEN b.sign ELSE CHOOSE x \in layout.sign : TRUE]
-----------------------------------------------------------------------------
(* Reading with a layout; {} where the file is refused *)

Cell(r, layout, c) == IF c \in layout.columns THEN Reads(r[c], layout.decimal) ELSE {}
AmountIn(r, layout) ==
  CASE layout.sign = "debit_credit" ->
         {Abs(n) : n \in Cell(r, layout, "credit")} \union {-Abs(n) : n \in Cell(r, layout, "debit")}
    [] layout.sign = "standard" -> Cell(r, layout, "amount")
    [] layout.sign = "inverted" -> {-n : n \in Cell(r, layout, "amount")}
    [] OTHER -> {IF r.direction = "in" THEN Abs(n) ELSE -Abs(n) : n \in Cell(r, layout, "amount")}
Unreadable(r, layout) ==
  \/ \E c \in layout.columns \cap Money : r[c] # {} /\ Cell(r, layout, c) = {}
  \/ Cardinality(AmountIn(r, layout)) > 1
  \/ layout.sign = "direction_column" /\ r.direction = Unset /\ AmountIn(r, layout) # {}

Days(r, layout) == UNION {DaysOf(d, layout.format) : d \in r.date}
Skipped(r, layout) ==
  IF Days(r, layout) = {} THEN r.label # Unset
  ELSE ~Unreadable(r, layout) /\ AmountIn(r, layout) = {} /\ (r.label # Unset \/ ("balance" \in layout.columns /\ r.balance # {}))
IsPending(r, layout) == "status" \in layout.columns /\ r.pending
Faulty(r, layout) ==
  ~Skipped(r, layout) /\ (Days(r, layout) = {} \/ Unreadable(r, layout) \/ AmountIn(r, layout) = {})
Only(set) == CHOOSE x \in set : TRUE
RowsRead(f, layout) ==
  LET kept == SelectSeq(f.rows, LAMBDA r : ~Skipped(r, layout) /\ ~IsPending(r, layout))
  IN [i \in DOMAIN kept |->
       [on |-> Only(Days(kept[i], layout)), amount |-> Only(AmountIn(kept[i], layout)),
        balance |-> IF "balance" \in layout.columns THEN Reads(kept[i].balance, layout.decimal) ELSE {}]]

\* Balances from summary lines of a bank account, or else from a running balance.
Marked(f, layout, label) ==
  LET hits == SelectSeq(f.rows, LAMBDA r : r.label = label /\ Skipped(r, layout))
  IN IF hits = <<>> THEN {} ELSE Reads(hits[1].balance, layout.decimal)
statement_metadata(f, layout, rows, kind) ==
  LET opening == Marked(f, layout, "opening")
      closing == Marked(f, layout, "closing")
      paired == SelectSeq(rows, LAMBDA r : r.balance # {})
      pairs == [i \in DOMAIN paired |-> [amount |-> paired[i].amount, balance |-> Only(paired[i].balance)]]
      relation == BalanceRelation(pairs)
      ordered == IF Only(relation)[1] = "file" THEN pairs ELSE Reverse(pairs)
      factor == IF Only(relation)[2] = "with" THEN 1 ELSE -1
  IN IF (opening # {} \/ closing # {}) /\ kind = "asset" THEN [opening |-> opening, closing |-> closing]
     ELSE IF relation = {} THEN [opening |-> {}, closing |-> {}]
     ELSE [opening |-> {factor * ordered[1].balance - ordered[1].amount}, closing |-> {factor * Last(ordered).balance}]

\* The header is looked for as it was saved; one row that cannot be read refuses the file.
HeaderFound(f, layout) == f.header = layout.header
parse_rows(f, layout, kind) ==
  IF ~HeaderFound(f, layout) \/ (\E i \in DOMAIN f.rows : Faulty(f.rows[i], layout)) \/ RowsRead(f, layout) = <<>> THEN {}
  ELSE {[rows |-> RowsRead(f, layout), balances |-> statement_metadata(f, layout, RowsRead(f, layout), kind)]}
-----------------------------------------------------------------------------
(* A profile is saved from one file, after it was read with it; later files are  *)
(* read with the profile.  Saving it again from another file is another behaviour. *)

save_profile(w) ==
  LET f == Printed(bank, history, w)
      layout == Overridden(detect_layout(f, bank.kind), bank, f)
  IN /\ profile = {} /\ parse_rows(f, layout, bank.kind) # {}
     /\ profile' = {[layout |-> layout, from |-> w]}
     /\ UNCHANGED <<bank, history, imported>>

csv_statement(w) ==
  /\ \E p \in profile : \E s \in parse_rows(Printed(bank, history, w), p.layout, bank.kind) :
       imported' = {[window |-> w, statement |-> s, profile |-> p]}
  /\ UNCHANGED <<bank, history, profile>>

Init ==
  /\ bank \in Banks /\ history \in Histories /\ profile = {} /\ imported = {}
Next == \E w \in Windows : w.last <= Len(history) /\ (save_profile(w) \/ csv_statement(w))
Spec == Init /\ [][Next]_vars
-----------------------------------------------------------------------------
Whole(w) == {i \in w.first..w.last : ~history[i].pending}
Happened(w) == [i \in Whole(w) |-> [on |-> history[i].on, amount |-> history[i].cents]]
Times(s, x) == Cardinality({i \in DOMAIN s : s[i].on = x.on /\ s[i].amount = x.amount})
AsBanked(w, s) ==
  /\ Len(s.rows) = Cardinality(Whole(w))
  /\ \A i \in Whole(w) : Times(s.rows, Happened(w)[i]) = Times(Happened(w), Happened(w)[i])
  /\ s.balances.opening \subseteq {BalanceAfter(history, w.first - 1)}
  /\ s.balances.closing \subseteq {BalanceAfter(history, w.last)}

\* What no number and no date of the file told apart when the profile was saved.
Silent(p) ==
  LET f == Printed(bank, history, p.from)
      true == [p.layout EXCEPT !.decimal = bank.decimal, !.format = bank.format]
  IN RowsRead(f, true) = RowsRead(f, p.layout)

\* A mark or an order of day and month that detection took without anything to tell by:
\* the rows of the file read alike either way, or its columns were not found and so nothing was looked at.
Guessed(p) ==
  /\ <<p.layout.decimal, p.layout.format>> # <<bank.decimal, bank.format>>
  /\ FindColumns(Printed(bank, history, p.from)) = {} \/ Silent(p)

\* Every file that is imported is read as the bank meant it: each posted row once, with
\* its day, its sign and its amount, and balances only where they are the bank's;
\* unless its profile was saved with a guess.
ReadAsBanked ==
  \A i \in imported : AsBanked(i.window, i.statement) \/ Guessed(i.profile)
=============================================================================
