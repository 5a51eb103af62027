-------------------------- MODULE LedgerCorrections --------------------------
(* Posted entries never change: a correction appends a reversal and, mostly, a  *)
(* replacement.  ledger reverse, ledger correct and ledger reclassify-bank name *)
(* the entry by a source id and read it again under the entity lock; ledger     *)
(* reclassify decides a whole request from one preview, which --apply makes      *)
(* again under the lock; a plan hash, when given, only refuses a changed one.    *)
(* What is posted now is spread over the chain of entries, and each reader      *)
(* walks it in a way of its own: the corrections themselves, reclassify, the    *)
(* statement checks (source_root), the comparison with other books, the vendor  *)
(* sheet and the log of adjustments of the workbook.                            *)
EXTENDS Integers, Sequences, FiniteSets, FiniteSetsExt

CONSTANTS Rows,        \* bank rows
          Spellings,   \* the spellings of a row's source id
          Fixes,       \* source ids a person may give to a replacement, which no
                       \* row has and no queue has reserved
          Banks, Categories,
          Amounts,     \* positive amounts
          Ceiling,     \* corrections of more than this wait for the owner
          Months, MonthOf, BankOf,
          MaxRequest,  \* entries in one reclassification
          Managed,     \* rows whose entries belong to accrual records
          AnySpelling, \* may a person name a row in the spelling the ledger lacks
          MaxEntries,
          None

VARIABLES entries,  \* posted entries, in the order of their ids
          locked    \* closed months
vars == <<entries, locked>>

RowIds == Rows \X Spellings
Variants(i) == IF i \in RowIds THEN {i[1]} \X Spellings ELSE {i}
\* A source id that reclassify derives from the entry it moves and the accounts.
MovedId(i, from, to) == <<i, from, to>>

Entry(id, month, bank, category, amount) ==
  [id |-> id, of |-> None, reverses |-> None, month |-> month, bank |-> bank,
   category |-> category, amount |-> amount]
Index == DOMAIN entries
Ids == {entries[k].id : k \in Index} \ {None}
SourceExists(i) == i \in Ids
Originals == {k \in Index : entries[k].reverses = None}
Reversed(i) == \E k \in Index : entries[k].reverses \in Variants(i)
--------------------------------------------------------------------------------
(* THE ENTRY THAT A SOURCE ID NAMES *)

\* MUTANT: an entry that was reversed already is found again.
FindLatest(i) ==
  LET found == {k \in Originals : entries[k].id \in Variants(i)}
  IN IF found = {} THEN 0 ELSE Max(found)

\* ledger reverse and ledger correct: an entry of the id itself, in any spelling.
FindLive(i) ==
  LET found == {k \in Originals : entries[k].id \in Variants(i)}
  IN IF Reversed(i) \/ found = {} THEN 0 ELSE Max(found)

\* ledger reclassify follows replacements to the entry that stands.
Successor(i) ==
  LET found == {k \in Originals : entries[k].of # None /\ entries[k].of \in Variants(i)}
  IN IF found = {} THEN None ELSE entries[Max(found)].id
Live(i) ==
  LET walk[n \in 0..Len(entries)] ==
        IF n = 0 THEN i
        ELSE LET id == walk[n - 1]
             IN IF id = None \/ ~Reversed(id) THEN id ELSE Successor(id)
      end == walk[Len(entries)]
  IN IF end = None THEN 0 ELSE FindLive(end)

Unmanaged(i) == Variants(i) \cap (Managed \X Spellings) = {}
Asks(e) == e.amount > Ceiling \/ e.amount < -Ceiling
--------------------------------------------------------------------------------
(* POSTING *)

Init == entries = <<>> /\ locked = {}

Room(n) == Len(entries) + n <= MaxEntries

\* Whatever has an entry is in seen-ids.json too, or is put there by the next import.
Import(r, s, category, amount) ==
  /\ Room(1) /\ Variants(<<r, s>>) \cap Ids = {}
  /\ entries' = Append(entries, Entry(<<r, s>>, MonthOf[r], BankOf[r], category, amount))
  /\ UNCHANGED locked

LockMonth(m) ==
  /\ m \notin locked
  /\ locked' = locked \cup {m}
  /\ UNCHANGED entries

\* The ids a person reads off the ledger, in a spelling of theirs.
Nameable == IF AnySpelling THEN UNION {Variants(i) : i \in Ids} ELSE Ids

\* Negated, without the source id; everything else of the original stays in it,
\* its own correction-of included.
Reversal(k, named) ==
  [entries[k] EXCEPT !.id = None, !.reverses = named, !.amount = -@]

Reverse(i) ==
  LET k == FindLive(i)
  IN /\ Room(1) /\ k # 0 /\ Unmanaged(i) /\ ~Asks(entries[k])
     /\ entries' = Append(entries, Reversal(k, i))
     /\ UNCHANGED locked

Correct(i, new, e) ==
  LET k == FindLive(i)
  IN /\ Room(2) /\ k # 0 /\ Unmanaged(i)
     /\ new # i /\ ~SourceExists(new)
     /\ ~Asks(entries[k]) /\ ~Asks(e)
     /\ entries' = entries \o <<Reversal(k, i), [e EXCEPT !.id = new, !.of = i]>>
     /\ UNCHANGED locked

\* reclassify-bank and split-equity keep what they do not move.
ReclassifyBank(i, new, from, to) ==
  LET k == FindLive(i)
  IN /\ k # 0 /\ entries[k].bank = from /\ from # to
     /\ Correct(i, new, [Entry(new, entries[k].month, to, entries[k].category, entries[k].amount)
                         EXCEPT !.of = i])
--------------------------------------------------------------------------------
(* RECLASSIFY *)

\* What a preview answers for one source id.
Answer(i, from, to) ==
  LET k == Live(i)
  IN IF k = 0 THEN "refuse"
     ELSE IF entries[k].category # from
          THEN IF entries[k].category = to THEN "already" ELSE "refuse"
     ELSE IF ~Unmanaged(entries[k].id) \/ entries[k].month \in locked THEN "refuse"
     ELSE "move"

Accepted(request, from, to) ==
  /\ \A i \in request : Answer(i, from, to) # "refuse"
  /\ \A i, j \in request : i # j => Live(i) # Live(j)
Moves(request, from, to) == {Live(i) : i \in {j \in request : Answer(j, from, to) = "move"}}
Replacement(k, from, to) ==
  [entries[k] EXCEPT !.id = MovedId(entries[k].id, from, to), !.of = entries[k].id, !.category = to]

\* All moves in one transaction, which writes nothing when nothing is left to move.
Reclassify(request, from, to) ==
  LET moves == Moves(request, from, to)
      pair(k) == <<Reversal(k, entries[k].id), Replacement(k, from, to)>>
      written[S \in SUBSET moves] ==
        IF S = {} THEN <<>> ELSE pair(Min(S)) \o written[S \ {Min(S)}]
  IN /\ Accepted(request, from, to) /\ moves # {}
     /\ Room(2 * Cardinality(moves))
     /\ \A k \in moves : ~SourceExists(MovedId(entries[k].id, from, to))
     /\ entries' = entries \o written[moves]
     /\ UNCHANGED locked
--------------------------------------------------------------------------------
Next ==
  \/ \E r \in Rows, s \in Spellings, c \in Categories, a \in Amounts : Import(r, s, c, a)
  \/ \E m \in Months : LockMonth(m)
  \/ \E i \in Nameable : Reverse(i)
  \/ \E i \in Nameable, new \in Fixes, m \in Months, b \in Banks, c \in Categories, a \in Amounts :
       Correct(i, new, Entry(new, m, b, c, a))
  \/ \E i \in Nameable, new \in Fixes, from \in Banks, to \in Banks : ReclassifyBank(i, new, from, to)
  \/ \E request \in UNION {kSubset(n, Nameable) : n \in 1..MaxRequest} :
       \E from \in Categories : \E to \in Categories \ {from} : Reclassify(request, from, to)

Spec == Init /\ [][Next]_vars
--------------------------------------------------------------------------------
(* READERS *)

\* The source a posting belongs to, through corrections and reversals (tieout).
KnownSpelling(i) ==
  IF i = None \/ i \in Ids \/ Variants(i) \cap Ids = {} THEN i ELSE CHOOSE v \in Variants(i) : v \in Ids
OfId(i) == entries[CHOOSE k \in Index : entries[k].id = i].of
RootOf(k) ==
  LET e == entries[k]
      first == IF e.reverses # None THEN e.reverses ELSE IF e.of # None THEN e.of ELSE e.id
      walk[n \in 0..Len(entries)] ==
        IF n = 0 THEN KnownSpelling(first)
        ELSE LET id == walk[n - 1]
             IN IF id \notin Ids \/ OfId(id) = None THEN id ELSE KnownSpelling(OfId(id))
  IN walk[Len(entries)]

\* What a set of entries leaves on an account (the statement check sums a chain).
Sum(S) == MapThenSumSet(LAMBDA k : entries[k].amount, S)
OnBank(S, b) == Sum({k \in S : entries[k].bank = b})
OnCategory(S, c) == Sum({k \in S : entries[k].category = c})

\* MUTANT: one correction back and no further.
ComparedParent(i) == IF i \notin Ids \/ OfId(i) = None THEN i ELSE OfId(i)

\* The comparison takes the newest entry of each chain of exact ids.  An entry that
\* was reversed and not replaced is still the newest of its chain.
ComparedRoot(i) ==
  LET walk[n \in 0..Len(entries)] ==
        IF n = 0 THEN i
        ELSE LET id == walk[n - 1] IN IF id \notin Ids \/ OfId(id) = None THEN id ELSE OfId(id)
  IN walk[Len(entries)]
Compared ==
  LET named == {k \in Index : entries[k].id # None}
      root == [k \in named |-> ComparedRoot(entries[k].id)]
  IN {k \in named : \A j \in named : root[j] = root[k] => j <= k}

\* The vendor sheet adds entries and subtracts the reversals whose original it finds.
Vendor ==
  Sum({k \in Index : entries[k].reverses # None => entries[k].reverses \in Ids})

\* The log of adjustments is complete for a reversal with original and replacement.
Traced(k) ==
  /\ entries[k].reverses \in Ids
  /\ \E j \in Index : entries[j].of = entries[k].reverses
--------------------------------------------------------------------------------
(* PROPERTIES *)

Posted(r) == {k \in Originals : entries[k].id \in {r} \X Spellings}
\* The entry a row stands at, or 0: not posted, or reversed without replacement.
StandsAt(r) == IF Posted(r) = {} THEN 0 ELSE Live(entries[Max(Posted(r))].id)

\* Whatever was reversed, corrected, moved and repeated: a row is in the books with
\* exactly the entry at the end of its chain, on every account.
Chain(r) == {k \in Index : RootOf(k) \in {r} \X Spellings}
ChainNetsToStanding ==
  \A r \in Rows :
    LET chain == Chain(r)
        standing == {StandsAt(r)} \ {0}
    IN /\ \A b \in Banks : OnBank(chain, b) = OnBank(standing, b)
       /\ \A c \in Categories : OnCategory(chain, c) = OnCategory(standing, c)

\* The readers agree on what stands: corrections reach it by its id, the comparison
\* picks it, the vendor sheet adds up to it, and a replaced entry is traced.
Standing == {StandsAt(r) : r \in Rows} \ {0}
ReadersAgree ==
  LET standing == Standing
      compared == Compared
  IN /\ \A k \in standing : FindLive(entries[k].id) = k
     /\ standing \subseteq compared
     /\ \A k \in compared \ standing :
          Reversed(entries[k].id) /\ Successor(entries[k].id) = None
     /\ Vendor = Sum(standing)
     /\ \A k \in Index : (entries[k].reverses # None /\ Successor(entries[k].reverses) # None) => Traced(k)
================================================================================
