---------------------------- MODULE Books_proofs ----------------------------
(***************************************************************************)
(* Theorems about the two modules MCBooks checks together.                 *)
(*                                                                         *)
(* PostingWorkflow: for every set of rows, spellings, categories and       *)
(* sessions, and any number of proposals and process stops. RowPostedOnce  *)
(* is not inductive: an import collects the entries it will post row by    *)
(* row and posts them later, and correct asks the ledger for the exact id  *)
(* only. IInv therefore also says what an import has planned so far        *)
(* (ImportPlan), that a row in review is in review once                    *)
(* (ReviewHoldsEachRowOnce), and that whatever is being finalized is       *)
(* posted (FinalizingPosted, ReceiptsPosted). For the trust ramp, RampInv  *)
(* bounds what is counted too much together with what may still be: the    *)
(* confirmations that a stop left to be repeated (LeftOver). Each stop     *)
(* leaves at most one.                                                     *)
(*                                                                         *)
(* AccrualRules (second part): for any requests, targets and bank rows,    *)
(* and any number of previews, receipts and stops, from RulesInv.          *)
(***************************************************************************)
EXTENDS PostingWorkflow, AccrualRules, FiniteSetTheorems, SequenceTheorems, TLAPS

Row(s) == s[1]

\* What an import that holds the lock has decided so far.
ImportPlan ==
  cmd.pc = "rows" =>
    /\ \A e \in cmd.out :
         /\ e.by = "auto" /\ e.sid \in cmd.ids
         /\ \A f \in ledger : Row(f.sid) # Row(e.sid)
         /\ \A s \in queued : Row(s) # Row(e.sid)
    /\ \A e, f \in cmd.out : Row(e.sid) = Row(f.sid) => e = f
    /\ \A s \in cmd.ids : s \in queued \/ \E e \in cmd.out : e.sid = s

\* Every row of the batch is accounted for once it has been handled.
BatchAccounted ==
  cmd.pc = "rows" => \A s \in cmd.batch \ cmd.todo :
    \E t \in PostedIds \cup queued \cup cmd.ids : Row(t) = Row(s)

ImportPosted ==
  cmd.pc = "mark" =>
    /\ cmd.out \subseteq ledger
    /\ \A s \in cmd.batch : \E t \in PostedIds \cup queued : Row(t) = Row(s)

FinalizingPosted ==
  cmd.pc \in {"seen", "unqueue", "learn", "save"} =>
    \E e \in ledger : e.sid = cmd.sid /\ e.category = cmd.category

ReceiptsPosted ==
  \A r \in receipts : \E e \in ledger : e.sid = r.sid /\ e.category = r.item.category

\* Properties of the source, restated over rows.
RowsReviewedOnce ==
  /\ \A s, t \in queued : Row(s) = Row(t) => s = t
  /\ \A s \in queued : \A e \in ledger : Row(e.sid) = Row(s) => e.sid = s /\ e.by # "auto"
DeliveredAccounted == \A s \in delivered : \E t \in PostedIds \cup queued : Row(t) = Row(s)

\* What the files and the ledger say to one another...
Stored ==
  /\ RowPostedOnce
  /\ RowsReviewedOnce
  /\ SeenIsPosted
  /\ FinalItemMatchesLedger
  /\ DeliveredAccounted
  /\ ReceiptsPosted

\* ... and what the command in progress may rely on.
Planned ==
  /\ FinalizingPosted
  /\ ImportPlan
  /\ BatchAccounted
  /\ ImportPosted

\* Whatever is being finalized or stamped is an id, with a category to post to.
CommandNamesItem ==
  /\ cmd.pc \in {"seen", "unqueue", "learn", "save", "stamp"} => cmd.sid \in SourceId
  /\ cmd.pc \in {"seen", "unqueue", "learn", "save"} => cmd.category \in Categories
ItemsNameCategory ==
  \A s \in SourceId : items[s].status # "none" => items[s].category \in Categories

TypeInv == TypeOK /\ CommandNamesItem /\ ItemsNameCategory

IInv == TypeInv /\ Stored /\ Planned

-----------------------------------------------------------------------------
\* Two ids are spellings of one row exactly when they name the same row.
LEMMA VariantsShareRow ==
  ASSUME NEW s \in SourceId, NEW t \in SourceId
  PROVE  t \in source_id_variants(s) <=> Row(t) = Row(s)
BY DEF source_id_variants, SourceId, Row

\* A session without a command is typed.
LEMMA IdleTyped ==
  /\ Idle \in Command
  /\ Idle.op = "none" /\ Idle.pc = "idle"
BY DEF Idle, Command

\* Init establishes the types.
LEMMA InitType == Init => TypeInv
<1> SUFFICES ASSUME Init PROVE TypeInv
  OBVIOUS
<1>1. NoItem \in Item /\ NoItem.status = "none"
  BY ConstantsAssumption DEF NoItem, Item, ItemStatus
<1>2. NoLearned \in Learned
  BY DEF NoLearned, Learned
<1>3. TypeOK
  BY <1>1, <1>2, IdleTyped, ConstantsAssumption DEF Init, TypeOK
<1>4. CommandNamesItem
  BY IdleTyped DEF Init, CommandNamesItem
<1>5. ItemsNameCategory
  BY <1>1 DEF Init, ItemsNameCategory
<1>6. QED
  BY <1>3, <1>4, <1>5 DEF TypeInv

\* The two ways the entry of a review item reaches the finalization steps keep
\* the command well typed.
LEMMA FinalizeTyped ==
  ASSUME TypeOK, NEW op \in {"confirm", "correct"}, NEW s \in SourceId, NEW category \in Categories,
         NEW receipt \in Receipt \cup {NoReceipt}, NEW learn \in BOOLEAN,
         Finalize(op, s, category, receipt, learn)
  PROVE  cmd' \in Command /\ CommandNamesItem'
<1>1. cmd \in Command
  BY DEF TypeOK
<1>2. cmd' \in Command
  <2> DEFINE final == IF cmd.op = "group" THEN "group" ELSE op
             todo == cmd.todo \ {s}
  <2>1. final \in {"none", "import", "confirm", "correct", "group", "related"}
    OBVIOUS
  <2>2. todo \in SUBSET SourceId
    BY <1>1 DEF Command
  <2>3. cmd' = [cmd EXCEPT !.op = final, !.pc = "seen", !.todo = todo, !.sid = s,
                           !.category = category, !.receipt = receipt, !.learn = learn]
    BY DEF Finalize
  <2> HIDE DEF final, todo
  <2>4. QED
    BY <1>1, <2>1, <2>2, <2>3 DEF Command
<1>3. cmd'.pc = "seen" /\ cmd'.sid = s /\ cmd'.category = category
  BY <1>1 DEF Finalize, Command
<1>4. QED
  BY <1>2, <1>3 DEF CommandNamesItem

\* Every step preserves the types.
LEMMA TypeStep == TypeInv /\ [Next]_vars => TypeInv'
<1> SUFFICES ASSUME TypeInv, [Next]_vars PROVE TypeInv'
  OBVIOUS
<1> USE ConstantsAssumption DEF store, files, history
<1>t. TypeOK /\ CommandNamesItem /\ ItemsNameCategory
  BY DEF TypeInv
<1>c. cmd \in Command
  BY <1>t DEF TypeOK
<1>i. ASSUME UNCHANGED items PROVE ItemsNameCategory'
  BY <1>t, <1>i DEF ItemsNameCategory
<1>d. ASSUME cmd' = Idle PROVE cmd' \in Command /\ CommandNamesItem'
  BY <1>d, IdleTyped DEF CommandNamesItem
<1>1. ASSUME NEW batch \in SUBSET SourceId, NEW intakeOnly \in BOOLEAN, ImportStart(batch, intakeOnly)
      PROVE  TypeInv'
  <2>1. cmd' \in Command /\ CommandNamesItem'
    BY <1>1, IdleTyped DEF ImportStart, Command, CommandNamesItem
  <2>2. TypeOK'
    BY <1>1, <1>t, <2>1 DEF ImportStart, TypeOK, PostedIds, Entry
  <2>3. QED
    BY <1>1, <1>i, <2>1, <2>2 DEF ImportStart, TypeInv
<1>2. ASSUME NEW s \in SourceId, ImportSkipsKnownRow(s) PROVE TypeInv'
  <2>1. cmd' \in Command /\ CommandNamesItem'
    BY <1>2, <1>c, <1>t DEF ImportSkipsKnownRow, NextRow, Command, CommandNamesItem
  <2>2. QED
    BY <1>2, <1>t, <1>i, <2>1 DEF ImportSkipsKnownRow, TypeOK, TypeInv
<1>3. ASSUME NEW s \in SourceId, ImportCategorizesRow(s) PROVE TypeInv'
  <2>1. [sid |-> s, category |-> learned[Counterparty(s)].category, by |-> "auto"] \in Entry
    BY <1>3, <1>t DEF ImportCategorizesRow, eligible_for_autopost, TypeOK, Entry, Learned, Counterparty,
                SourceId
  <2>2. cmd' \in Command /\ CommandNamesItem'
    BY <1>3, <1>c, <2>1 DEF ImportCategorizesRow, NextRow, Command, CommandNamesItem
  <2>3. QED
    BY <1>3, <1>t, <1>i, <2>2 DEF ImportCategorizesRow, TypeOK, TypeInv
<1>4. ASSUME NEW s \in SourceId, ImportQueuesRow(s) PROVE TypeInv'
  <2>1. cmd' \in Command /\ CommandNamesItem'
    BY <1>4, <1>c DEF ImportQueuesRow, NextRow, Command, CommandNamesItem
  <2>2. QED
    BY <1>4, <1>t, <1>i, <2>1 DEF ImportQueuesRow, TypeOK, TypeInv
<1>5. CASE ImportPosts
  <2>1. cmd' \in Command /\ CommandNamesItem' /\ cmd.out \subseteq Entry
    BY <1>5, <1>c DEF ImportPosts, Command, CommandNamesItem
  <2>2. QED
    BY <1>5, <1>t, <1>i, <2>1 DEF ImportPosts, TypeOK, TypeInv
<1>6. CASE ImportMarksSeen
  <2>1. {e.sid : e \in cmd.out} \subseteq SourceId /\ cmd.batch \subseteq SourceId
    BY <1>c DEF Command, Entry
  <2>2. QED
    BY <1>6, <1>t, <1>i, <1>d, <2>1 DEF ImportMarksSeen, TypeOK, TypeInv
<1>7. CASE ImportReturns
  <2>1. cmd.batch \subseteq SourceId
    BY <1>c DEF Command
  <2>2. QED
    BY <1>7, <1>t, <1>i, <1>d, <2>1 DEF ImportReturns, TypeOK, TypeInv
<1>p. ASSUME NEW s \in SourceId, NEW category \in Categories, Proposable(s),
             items' = [items EXCEPT ![s] = Proposal(s, category)]
      PROVE  items' \in [SourceId -> Item] /\ ItemsNameCategory' /\ items[s].rev + 1 \in 0..MaxRev
  <2>1. items[s] \in Item
    BY <1>t DEF TypeOK
  <2>2. Proposal(s, category) \in Item /\ items[s].rev + 1 \in 0..MaxRev
    BY <1>p, <2>1 DEF Proposable, Proposal, Item, ItemStatus
  <2>3. Proposal(s, category).category \in Categories
    BY DEF Proposal
  <2>4. QED
    BY <1>p, <1>t, <2>2, <2>3 DEF TypeOK, ItemsNameCategory
<1>8. ASSUME NEW s \in SourceId, NEW category \in Categories, propose(s, category) PROVE TypeInv'
  <2>1. items' \in [SourceId -> Item] /\ ItemsNameCategory'
    BY <1>8, <1>p DEF propose
  <2>2. QED
    BY <1>8, <1>t, <2>1 DEF propose, TypeOK, TypeInv, CommandNamesItem
<1>9. ASSUME NEW s \in SourceId, NEW category \in Categories, ProposeRelated(s, category) PROVE TypeInv'
  <2>1. items' \in [SourceId -> Item] /\ ItemsNameCategory' /\ items[s].rev + 1 \in 0..MaxRev
    BY <1>9, <1>p DEF ProposeRelated
  <2>2. cmd' \in Command /\ CommandNamesItem'
    BY <1>9, IdleTyped DEF ProposeRelated, Command, CommandNamesItem
  <2>3. QED
    BY <1>9, <1>t, <2>1, <2>2 DEF ProposeRelated, TypeOK, TypeInv
<1>10. CASE StampRelated
  <2>1. cmd.sid \in SourceId
    BY <1>10, <1>t DEF StampRelated, CommandNamesItem
  <2>2. items' \in [SourceId -> Item] /\ ItemsNameCategory'
    BY <1>10, <1>t, <2>1 DEF StampRelated, TypeOK, Item, ItemsNameCategory
  <2>3. QED
    BY <1>10, <1>t, <1>d, <2>2 DEF StampRelated, TypeOK, TypeInv
<1>11. ASSUME NEW s \in SourceId, withdraw(s) PROVE TypeInv'
  <2>1. items' \in [SourceId -> Item] /\ ItemsNameCategory'
    BY <1>11, <1>t DEF withdraw, TypeOK, Item, ItemStatus, ItemsNameCategory
  <2>2. QED
    BY <1>11, <1>t, <2>1 DEF withdraw, TypeOK, TypeInv, CommandNamesItem
<1>12. ASSUME NEW category \in Categories, NEW session \in Sessions, ConfirmGroupStart(category, session)
       PROVE  TypeInv'
  <2>1. cmd' \in Command /\ CommandNamesItem'
    BY <1>12, IdleTyped DEF ConfirmGroupStart, Command, CommandNamesItem
  <2>2. QED
    BY <1>12, <1>t, <1>i, <2>1 DEF ConfirmGroupStart, TypeOK, TypeInv
<1>13. ASSUME NEW s \in SourceId, NEW session \in Sessions, NEW learn \in BOOLEAN,
              ConfirmPosts(s, session, learn)
       PROVE  TypeInv'
  <2>1. items[s].category \in Categories /\ items[s] \in Item
    BY <1>13, <1>t DEF ConfirmPosts, Called, ItemsNameCategory, TypeOK
  <2>2. FinalizationReceipt(s, session, learn) \in Receipt
    BY <2>1 DEF FinalizationReceipt, Receipt
  <2>3. [sid |-> s, category |-> items[s].category, by |-> "confirm"] \in Entry
    BY <2>1 DEF Entry
  <2>4. cmd' \in Command /\ CommandNamesItem'
    <3>1. Finalize("confirm", s, items[s].category, FinalizationReceipt(s, session, learn),
                   learn /\ items[s].kind = "category")
      BY <1>13 DEF ConfirmPosts
    <3>2. (learn /\ items[s].kind = "category") \in BOOLEAN
      OBVIOUS
    <3>3. QED
      BY <1>t, <2>1, <2>2, <3>1, <3>2, FinalizeTyped
  <2>5. QED
    BY <1>13, <1>t, <1>i, <2>2, <2>3, <2>4 DEF ConfirmPosts, TypeOK, TypeInv
<1>14. ASSUME NEW s \in SourceId, NEW session \in Sessions, NEW learn \in BOOLEAN,
              ConfirmRecovers(s, session, learn)
       PROVE  TypeInv'
  <2>1. items[s].category \in Categories
    BY <1>14, <1>t DEF ConfirmRecovers, Called, ItemsNameCategory, TypeOK
  <2>2. PICK receipt \in RecoveryReceipts(s, session) :
          Finalize("confirm", s, items[s].category, receipt,
                   learn /\ receipt.learn /\ items[s].kind = "category")
    BY <1>14 DEF ConfirmRecovers
  <2>3. receipt \in Receipt
    BY <1>t DEF RecoveryReceipts, TypeOK
  <2>4. (learn /\ receipt.learn /\ items[s].kind = "category") \in BOOLEAN
    OBVIOUS
  <2>5. cmd' \in Command /\ CommandNamesItem'
    BY <1>t, <2>1, <2>2, <2>3, <2>4, FinalizeTyped
  <2>6. QED
    BY <1>14, <1>t, <1>i, <2>5 DEF ConfirmRecovers, TypeOK, TypeInv
<1>15. ASSUME NEW s \in SourceId, NEW category \in Categories, CorrectPosts(s, category) PROVE TypeInv'
  <2>1. [sid |-> s, category |-> category, by |-> "correct"] \in Entry
    BY DEF Entry
  <2>2. cmd' \in Command /\ CommandNamesItem'
    BY <1>15, <1>t, FinalizeTyped DEF CorrectPosts
  <2>3. QED
    BY <1>15, <1>t, <1>i, <2>1, <2>2 DEF CorrectPosts, TypeOK, TypeInv
<1>m. ASSUME NEW pc \in {"unqueue", "learn", "save"}, cmd' = [cmd EXCEPT !.pc = pc],
             cmd.pc \in {"seen", "unqueue", "learn"}
      PROVE  /\ cmd' \in Command /\ CommandNamesItem'
             /\ cmd.sid \in SourceId /\ cmd.category \in Categories
             /\ cmd.receipt \in Receipt \cup {NoReceipt}
  <2>1. cmd' \in Command /\ cmd'.pc = pc /\ cmd'.sid = cmd.sid /\ cmd'.category = cmd.category
    BY <1>m, <1>c DEF Command
  <2>2. cmd.receipt \in Receipt \cup {NoReceipt}
    BY <1>c DEF Command
  <2>3. cmd.sid \in SourceId /\ cmd.category \in Categories
    BY <1>m, <1>t DEF CommandNamesItem
  <2>4. QED
    BY <2>1, <2>2, <2>3 DEF CommandNamesItem
<1>16. CASE FinalizeMarksSeen
  <2>1. cmd' \in Command /\ CommandNamesItem' /\ cmd.sid \in SourceId
    BY <1>16, <1>m DEF FinalizeMarksSeen
  <2>2. QED
    BY <1>16, <1>t, <1>i, <2>1 DEF FinalizeMarksSeen, TypeOK, TypeInv
<1>17. CASE FinalizeUnqueues
  <2>1. cmd' \in Command /\ CommandNamesItem'
    BY <1>17, <1>m DEF FinalizeUnqueues
  <2>2. QED
    BY <1>17, <1>t, <1>i, <2>1 DEF FinalizeUnqueues, TypeOK, TypeInv
<1>18. CASE LearnConfirmed
  <2>1. /\ cmd' \in Command /\ CommandNamesItem'
        /\ cmd.sid \in SourceId /\ cmd.category \in Categories /\ cmd.receipt \in Receipt
    BY <1>18, <1>m DEF LearnConfirmed
  <2> DEFINE c == Counterparty(cmd.sid)
             entry == [category |-> cmd.category, count |-> learned[c].count + 1,
                       reset |-> FALSE, last |-> cmd.receipt]
  <2>2. c \in Counterparties
    BY <2>1 DEF Counterparty, SourceId
  <2>3. entry \in Learned
    <3>1. learned[c] \in Learned
      BY <1>t, <2>2 DEF TypeOK
    <3>2. learned[c].count + 1 \in Nat
      BY <3>1 DEF Learned
    <3>3. QED
      BY <2>1, <3>2 DEF Learned
  <2>4. learned' \in {learned, [learned EXCEPT ![c] = entry]}
        /\ earned' \in {earned, [earned EXCEPT ![c] = @ \cup {cmd.receipt}]}
    BY <1>18 DEF LearnConfirmed
  <2>5. learned' \in [Counterparties -> Learned] /\ earned' \in [Counterparties -> SUBSET Receipt]
    BY <1>t, <2>1, <2>2, <2>3, <2>4 DEF TypeOK
  <2>6. QED
    BY <1>18, <1>t, <1>i, <2>1, <2>5 DEF LearnConfirmed, TypeOK, TypeInv
<1>19. CASE LearnCorrected
  <2>1. cmd' \in Command /\ CommandNamesItem' /\ cmd.sid \in SourceId /\ cmd.category \in Categories
    BY <1>19, <1>m DEF LearnCorrected
  <2> DEFINE c == Counterparty(cmd.sid)
  <2>2. c \in Counterparties
    BY <2>1 DEF Counterparty, SourceId
  <2>3. learned' \in [Counterparties -> Learned] /\ earned' \in [Counterparties -> SUBSET Receipt]
    BY <1>19, <1>t, <2>1, <2>2 DEF LearnCorrected, TypeOK, Learned
  <2>4. QED
    BY <1>19, <1>t, <1>i, <2>1, <2>3 DEF LearnCorrected, TypeOK, TypeInv
<1>20. CASE FinalizeSavesItem
  <2>1. cmd.sid \in SourceId /\ cmd.category \in Categories
    BY <1>20, <1>t DEF FinalizeSavesItem, CommandNamesItem
  <2>2. cmd' \in Command /\ CommandNamesItem'
    BY <1>20, <1>c, IdleTyped DEF FinalizeSavesItem, Command, CommandNamesItem
  <2>3. items' \in [SourceId -> Item] /\ ItemsNameCategory'
    BY <1>20, <1>t, <2>1 DEF FinalizeSavesItem, TypeOK, Item, ItemStatus, ItemsNameCategory
  <2>4. QED
    BY <1>20, <1>t, <2>2, <2>3 DEF FinalizeSavesItem, TypeOK, TypeInv
<1>21. CASE ConfirmGroupEnds
  BY <1>21, <1>t, <1>d, <1>i DEF ConfirmGroupEnds, TypeOK, TypeInv
<1>22. CASE Crash
  BY <1>22, <1>t, <1>d, <1>i DEF Crash, TypeOK, TypeInv
<1>23. CASE UNCHANGED vars
  BY <1>23, <1>t DEF vars, TypeOK, TypeInv, CommandNamesItem, ItemsNameCategory
<1>24. QED
  BY <1>1, <1>2, <1>3, <1>4, <1>5, <1>6, <1>7, <1>8, <1>9, <1>10, <1>11, <1>12, <1>13, <1>14, <1>15,
     <1>16, <1>17, <1>18, <1>19, <1>20, <1>21, <1>22, <1>23 DEF Next, Continue, Confirm

-----------------------------------------------------------------------------
\* The duplicate lookups of the source, restated over rows.
LEMMA KnownByRow ==
  ASSUME TypeOK, NEW s \in SourceId
  PROVE  /\ AlreadyKnown(s) <=> \E t \in seen \cup cmd.ids \cup PostedIds \cup queued : Row(t) = Row(s)
         /\ source_exists(s) <=> \E e \in ledger : Row(e.sid) = Row(s)
<1>1. PostedIds \subseteq SourceId
  BY DEF TypeOK, PostedIds, Entry
<1>2. seen \cup cmd.ids \cup PostedIds \cup queued \subseteq SourceId
  BY <1>1 DEF TypeOK, Command
<1>3. AlreadyKnown(s) <=> \E t \in seen \cup cmd.ids \cup PostedIds \cup queued : Row(t) = Row(s)
  BY <1>2, VariantsShareRow DEF AlreadyKnown
<1>4. source_exists(s) <=> \E t \in PostedIds : Row(t) = Row(s)
  BY <1>1, VariantsShareRow DEF source_exists
<1>5. QED
  BY <1>3, <1>4 DEF PostedIds

\* The invariant holds before the first command.
LEMMA InitInv == Init => IInv
<1> SUFFICES ASSUME Init PROVE IInv
  OBVIOUS
<1>1. TypeInv
  BY InitType
<1>2. Stored
  BY DEF Init, Stored, RowPostedOnce, RowsReviewedOnce, SeenIsPosted, FinalItemMatchesLedger, NoItem,
         DeliveredAccounted, ReceiptsPosted
<1>3. Planned
  BY IdleTyped DEF Init, Planned, FinalizingPosted, ImportPlan, BatchAccounted, ImportPosted
<1>4. QED
  BY <1>1, <1>2, <1>3 DEF IInv

\* A write that only adds to the ledger leaves alone what the files say of it.
LEMMA LedgerGrows ==
  ASSUME Stored, ledger \subseteq ledger'
  PROVE  /\ PostedIds \subseteq PostedIds'
         /\ UNCHANGED seen => SeenIsPosted'
         /\ UNCHANGED items => FinalItemMatchesLedger'
         /\ UNCHANGED delivered /\ queued \subseteq queued' => DeliveredAccounted'
         /\ UNCHANGED receipts => ReceiptsPosted'
<1>1. PostedIds \subseteq PostedIds'
  BY DEF PostedIds
<1>2. UNCHANGED seen => SeenIsPosted'
  BY <1>1 DEF Stored, SeenIsPosted
<1>3. UNCHANGED items => FinalItemMatchesLedger'
  BY DEF Stored, FinalItemMatchesLedger
<1>4. UNCHANGED delivered /\ queued \subseteq queued' => DeliveredAccounted'
  BY <1>1 DEF Stored, DeliveredAccounted
<1>5. UNCHANGED receipts => ReceiptsPosted'
  BY DEF Stored, ReceiptsPosted
<1>6. QED
  BY <1>1, <1>2, <1>3, <1>4, <1>5

\* A command that writes none of them.
LEMMA FilesUnchanged ==
  ASSUME Stored, UNCHANGED <<ledger, receipts, seen, queued, delivered>>
  PROVE  /\ UNCHANGED items => Stored'
         /\ FinalItemMatchesLedger' => Stored'
<1>1. RowPostedOnce' /\ RowsReviewedOnce'
  BY DEF Stored, RowPostedOnce, RowsReviewedOnce
<1>2. QED
  BY <1>1, LedgerGrows DEF Stored

\* A command at a point where it relies on nothing.
LEMMA NothingPlanned ==
  ASSUME cmd'.pc \in {"idle", "next", "stamp"}
  PROVE  Planned'
BY DEF Planned, FinalizingPosted, ImportPlan, BatchAccounted, ImportPosted

\* A finalization under way relies on its entry alone.
LEMMA FinalizationPlanned ==
  ASSUME cmd'.pc \in {"seen", "unqueue", "learn", "save"},
         \E e \in ledger' : e.sid = cmd'.sid /\ e.category = cmd'.category
  PROVE  Planned'
BY DEF Planned, FinalizingPosted, ImportPlan, BatchAccounted, ImportPosted

\* Posting the row of one review item: no row of the ledger is posted again.
LEMMA ReviewPosts ==
  ASSUME TypeOK, Stored, NEW s \in queued, NEW entry \in Entry,
         entry.sid = s, entry.by # "auto",
         \A e \in ledger : Row(e.sid) # Row(s),
         ledger' = ledger \cup {entry}, UNCHANGED <<seen, queued, items, delivered>>,
         ReceiptsPosted'
  PROVE  Stored'
<1>1. RowPostedOnce'
  BY DEF Stored, RowPostedOnce, Row
<1>2. RowsReviewedOnce'
  BY DEF Stored, RowsReviewedOnce
<1>3. QED
  BY <1>1, <1>2, LedgerGrows DEF Stored

-----------------------------------------------------------------------------
\* The import: what it planned stays unposted, and posts each row once.
LEMMA ImportStep ==
  ASSUME IInv, TypeOK',
         \/ \E batch \in SUBSET SourceId, intakeOnly \in BOOLEAN : ImportStart(batch, intakeOnly)
         \/ \E s \in SourceId :
              ImportSkipsKnownRow(s) \/ ImportCategorizesRow(s) \/ ImportQueuesRow(s)
         \/ ImportPosts \/ ImportMarksSeen \/ ImportReturns
  PROVE  Stored' /\ Planned'
<1> USE DEF store, files, history
<1>i. TypeOK /\ Stored /\ Planned /\ cmd \in Command
  BY DEF IInv, TypeInv, TypeOK
<1>1. ASSUME NEW batch \in SUBSET SourceId, NEW intakeOnly \in BOOLEAN, ImportStart(batch, intakeOnly)
      PROVE  Stored' /\ Planned'
  <2>1. UNCHANGED <<ledger, receipts, queued, items, delivered>> /\ seen' = seen \cup PostedIds
    BY <1>1 DEF ImportStart
  <2>2. SeenIsPosted'
    BY <2>1, <1>i DEF Stored, SeenIsPosted, PostedIds
  <2>3. Stored'
    BY <2>1, <2>2, <1>i, LedgerGrows DEF Stored, RowPostedOnce, RowsReviewedOnce
  <2>4. /\ cmd'.pc = "rows" /\ cmd'.batch = batch /\ cmd'.todo = batch
        /\ cmd'.ids = {} /\ cmd'.out = {}
    BY <1>1 DEF ImportStart, Idle
  <2>5. QED
    BY <2>3, <2>4 DEF Planned, FinalizingPosted, ImportPlan, BatchAccounted, ImportPosted
<1>2. ASSUME NEW s \in SourceId, ImportSkipsKnownRow(s) PROVE Stored' /\ Planned'
  <2>1. UNCHANGED <<ledger, receipts, seen, queued, items, delivered>>
    BY <1>2 DEF ImportSkipsKnownRow
  <2>2. Stored'
    BY <2>1, <1>i, FilesUnchanged
  <2>3. /\ cmd.pc = "rows" /\ cmd'.pc = "rows" /\ cmd'.batch = cmd.batch /\ cmd'.todo = cmd.todo \ {s}
        /\ cmd'.ids = cmd.ids /\ cmd'.out = cmd.out
    BY <1>2, <1>i DEF ImportSkipsKnownRow, NextRow, Command
  <2>4. \E t \in PostedIds \cup queued \cup cmd.ids : Row(t) = Row(s)
    BY <1>2, <1>i, KnownByRow DEF ImportSkipsKnownRow, Stored, SeenIsPosted
  <2>5. BatchAccounted'
    BY <2>1, <2>3, <2>4, <1>i DEF Planned, BatchAccounted, PostedIds
  <2>6. ImportPlan'
    BY <2>1, <2>3, <1>i DEF Planned, ImportPlan
  <2>7. QED
    BY <2>2, <2>3, <2>5, <2>6 DEF Planned, FinalizingPosted, ImportPosted
<1>3. ASSUME NEW s \in SourceId, ImportCategorizesRow(s) PROVE Stored' /\ Planned'
  <2> DEFINE entry == [sid |-> s, category |-> learned[Counterparty(s)].category, by |-> "auto"]
  <2>1. UNCHANGED <<ledger, receipts, seen, queued, items, delivered>>
    BY <1>3 DEF ImportCategorizesRow
  <2>2. Stored'
    BY <2>1, <1>i, FilesUnchanged
  <2>3. /\ cmd.pc = "rows" /\ cmd'.pc = "rows" /\ cmd'.batch = cmd.batch /\ cmd'.todo = cmd.todo \ {s}
        /\ cmd'.ids = cmd.ids \cup {s} /\ cmd'.out = cmd.out \cup {entry}
    BY <1>3, <1>i DEF ImportCategorizesRow, NextRow, Command
  <2>4. ~ \E t \in seen \cup cmd.ids \cup PostedIds \cup queued : Row(t) = Row(s)
    BY <1>3, <1>i, KnownByRow DEF ImportCategorizesRow
  <2>5. BatchAccounted'
    BY <2>1, <2>3, <1>i DEF Planned, BatchAccounted, PostedIds
  <2>6. ImportPlan'
    <3>1. entry.sid = s /\ entry.by = "auto"
      OBVIOUS
    <3> HIDE DEF entry
    <3>2. \A e \in cmd.out : Row(e.sid) # Row(s)
      BY <2>3, <2>4, <1>i DEF Planned, ImportPlan
    <3>3. \A e \in cmd'.out :
            /\ e.by = "auto" /\ e.sid \in cmd'.ids
            /\ \A f \in ledger' : Row(f.sid) # Row(e.sid)
            /\ \A q \in queued' : Row(q) # Row(e.sid)
      BY <2>1, <2>3, <2>4, <3>1, <1>i DEF Planned, ImportPlan, PostedIds
    <3>4. \A e, f \in cmd'.out : Row(e.sid) = Row(f.sid) => e = f
      BY <2>3, <3>1, <3>2, <1>i DEF Planned, ImportPlan
    <3>5. \A q \in cmd'.ids : q \in queued' \/ \E e \in cmd'.out : e.sid = q
      BY <2>1, <2>3, <3>1, <1>i DEF Planned, ImportPlan
    <3>6. QED
      BY <3>3, <3>4, <3>5 DEF ImportPlan
  <2>7. QED
    BY <2>2, <2>3, <2>5, <2>6 DEF Planned, FinalizingPosted, ImportPosted
<1>4. ASSUME NEW s \in SourceId, ImportQueuesRow(s) PROVE Stored' /\ Planned'
  <2>1. UNCHANGED <<ledger, receipts, seen, items, delivered>> /\ queued' = queued \cup {s}
    BY <1>4 DEF ImportQueuesRow
  <2>2. /\ cmd.pc = "rows" /\ cmd'.pc = "rows" /\ cmd'.batch = cmd.batch /\ cmd'.todo = cmd.todo \ {s}
        /\ cmd'.ids = cmd.ids \cup {s} /\ cmd'.out = cmd.out
    BY <1>4, <1>i DEF ImportQueuesRow, NextRow, Command
  <2>3. ~ \E t \in seen \cup cmd.ids \cup PostedIds \cup queued : Row(t) = Row(s)
    BY <1>4, <1>i, KnownByRow DEF ImportQueuesRow
  <2>4. RowsReviewedOnce'
    BY <2>1, <2>3, <1>i DEF Stored, RowsReviewedOnce, PostedIds
  <2>5. Stored'
    BY <2>1, <2>4, <1>i, LedgerGrows DEF Stored, RowPostedOnce
  <2>6. BatchAccounted'
    BY <2>1, <2>2, <1>i DEF Planned, BatchAccounted, PostedIds
  <2>7. ImportPlan'
    BY <2>1, <2>2, <2>3, <1>i DEF Planned, ImportPlan
  <2>8. QED
    BY <2>2, <2>5, <2>6, <2>7 DEF Planned, FinalizingPosted, ImportPosted
<1>5. CASE ImportPosts
  <2>1. UNCHANGED <<receipts, seen, queued, items, delivered>> /\ ledger' = ledger \cup cmd.out
    BY <1>5 DEF ImportPosts
  <2>2. /\ cmd.pc = "rows" /\ cmd'.pc = "mark" /\ cmd'.batch = cmd.batch /\ cmd'.out = cmd.out
        /\ cmd.todo = {}
    BY <1>5, <1>i DEF ImportPosts, Command
  <2>3. RowPostedOnce'
    BY <2>1, <2>2, <1>i DEF Stored, RowPostedOnce, Planned, ImportPlan, Row
  <2>4. RowsReviewedOnce'
    BY <2>1, <2>2, <1>i DEF Stored, RowsReviewedOnce, Planned, ImportPlan
  <2>5. Stored'
    BY <2>1, <2>3, <2>4, <1>i, LedgerGrows DEF Stored
  <2>6. ImportPosted'
    <3>1. cmd.ids \subseteq PostedIds' \cup queued
      BY <2>1, <2>2, <1>i DEF Planned, ImportPlan, PostedIds
    <3>2. PostedIds \subseteq PostedIds'
      BY <2>1 DEF PostedIds
    <3>3. QED
      BY <2>1, <2>2, <3>1, <3>2, <1>i DEF Planned, BatchAccounted, ImportPosted
  <2>7. QED
    BY <2>2, <2>5, <2>6 DEF Planned, FinalizingPosted, ImportPlan, BatchAccounted
<1>6. CASE ImportMarksSeen
  <2>1. /\ UNCHANGED <<ledger, receipts, queued, items>>
        /\ seen' = seen \cup {e.sid : e \in cmd.out} /\ delivered' = delivered \cup cmd.batch
        /\ cmd.pc = "mark"
    BY <1>6 DEF ImportMarksSeen
  <2>2. SeenIsPosted'
    BY <2>1, <1>i DEF Stored, SeenIsPosted, Planned, ImportPosted, PostedIds
  <2>3. DeliveredAccounted'
    BY <2>1, <1>i DEF Stored, DeliveredAccounted, Planned, ImportPosted, PostedIds
  <2>4. Stored'
    BY <2>1, <2>2, <2>3, <1>i, LedgerGrows DEF Stored, RowPostedOnce, RowsReviewedOnce
  <2>5. QED
    BY <1>6, <2>4, IdleTyped, NothingPlanned DEF ImportMarksSeen
<1>7. CASE ImportReturns
  <2>1. /\ UNCHANGED <<ledger, receipts, seen, queued, items>>
        /\ delivered' = delivered \cup cmd.batch
        /\ cmd.pc = "rows" /\ cmd.todo = {} /\ cmd.out = {}
    BY <1>7 DEF ImportReturns
  <2>2. DeliveredAccounted'
    <3>1. cmd.ids \subseteq queued
      BY <2>1, <1>i DEF Planned, ImportPlan
    <3>2. QED
      BY <2>1, <3>1, <1>i DEF Stored, DeliveredAccounted, Planned, BatchAccounted, PostedIds
  <2>3. Stored'
    BY <2>1, <2>2, <1>i, LedgerGrows DEF Stored, RowPostedOnce, RowsReviewedOnce
  <2>4. QED
    BY <1>7, <2>3, IdleTyped, NothingPlanned DEF ImportReturns
<1>8. QED
  BY <1>1, <1>2, <1>3, <1>4, <1>5, <1>6, <1>7

-----------------------------------------------------------------------------
\* The review queue: proposals, withdrawals, and the start of a finalization.
LEMMA ReviewStep ==
  ASSUME IInv, TypeOK',
         \/ \E s \in SourceId, category \in Categories :
              propose(s, category) \/ ProposeRelated(s, category) \/ CorrectPosts(s, category)
         \/ \E s \in SourceId : withdraw(s) \/ Confirm(s)
         \/ \E category \in Categories, session \in Sessions : ConfirmGroupStart(category, session)
         \/ StampRelated \/ ConfirmGroupEnds
  PROVE  Stored' /\ Planned'
<1> USE DEF store, files, history
<1>i. TypeOK /\ Stored /\ Planned /\ cmd \in Command /\ items \in [SourceId -> Item]
  BY DEF IInv, TypeInv, TypeOK
<1>p. ASSUME NEW s \in SourceId, NEW category \in Categories,
             items' = [items EXCEPT ![s] = Proposal(s, category)], UNCHANGED ledger
      PROVE  FinalItemMatchesLedger'
  BY <1>p, <1>i DEF Proposal, Stored, FinalItemMatchesLedger
<1>1. ASSUME NEW s \in SourceId, NEW category \in Categories, propose(s, category)
      PROVE  Stored' /\ Planned'
  <2>1. Stored'
    BY <1>1, <1>i, <1>p, FilesUnchanged DEF propose
  <2>2. QED
    BY <1>1, <2>1, <1>i DEF propose, Planned, FinalizingPosted, ImportPlan, BatchAccounted, ImportPosted,
                            PostedIds
<1>2. ASSUME NEW s \in SourceId, NEW category \in Categories, ProposeRelated(s, category)
      PROVE  Stored' /\ Planned'
  <2>1. Stored'
    BY <1>2, <1>i, <1>p, FilesUnchanged DEF ProposeRelated
  <2>2. cmd'.pc = "stamp"
    BY <1>2 DEF ProposeRelated, Idle
  <2>3. QED
    BY <2>1, <2>2, NothingPlanned
<1>3. CASE StampRelated
  <2>1. FinalItemMatchesLedger'
    BY <1>3, <1>i DEF StampRelated, Stored, FinalItemMatchesLedger, Item
  <2>2. QED
    BY <1>3, <1>i, <2>1, IdleTyped, FilesUnchanged, NothingPlanned DEF StampRelated
<1>4. ASSUME NEW s \in SourceId, withdraw(s) PROVE Stored' /\ Planned'
  <2>1. FinalItemMatchesLedger'
    BY <1>4, <1>i DEF withdraw, Stored, FinalItemMatchesLedger, Item
  <2>2. Stored'
    BY <1>4, <1>i, <2>1, FilesUnchanged DEF withdraw
  <2>3. QED
    BY <1>4, <2>2, <1>i DEF withdraw, Planned, FinalizingPosted, ImportPlan, BatchAccounted, ImportPosted,
                            PostedIds
<1>5. ASSUME NEW category \in Categories, NEW session \in Sessions, ConfirmGroupStart(category, session)
      PROVE  Stored' /\ Planned'
  <2>1. cmd'.pc = "next"
    BY <1>5 DEF ConfirmGroupStart, Idle
  <2>2. QED
    BY <1>5, <1>i, <2>1, FilesUnchanged, NothingPlanned DEF ConfirmGroupStart
<1>f. ASSUME NEW op \in {"confirm", "correct"}, NEW s \in SourceId, NEW category \in Categories,
             NEW receipt, NEW learn, Finalize(op, s, category, receipt, learn),
             \E e \in ledger' : e.sid = s /\ e.category = category
      PROVE  Planned'
  <2>1. cmd'.pc = "seen" /\ cmd'.sid = s /\ cmd'.category = category
    BY <1>f, <1>i DEF Finalize, Command
  <2>2. QED
    BY <1>f, <2>1, FinalizationPlanned
<1>6. ASSUME NEW s \in SourceId, NEW session \in Sessions, NEW learn \in BOOLEAN,
             ConfirmPosts(s, session, learn)
      PROVE  Stored' /\ Planned'
  <2> DEFINE receipt == FinalizationReceipt(s, session, learn)
             entry == [sid |-> s, category |-> items[s].category, by |-> "confirm"]
  <2>1. /\ UNCHANGED <<seen, queued, items, delivered>> /\ s \in queued /\ ~source_exists(s)
        /\ ledger' = ledger \cup {entry} /\ receipts' = receipts \cup {receipt}
        /\ Finalize("confirm", s, items[s].category, receipt, learn /\ items[s].kind = "category")
    BY <1>6 DEF ConfirmPosts
  <2>2. items[s].category \in Categories
    BY <1>6 DEF ConfirmPosts, Called, IInv, TypeInv, ItemsNameCategory
  <2>3. /\ entry \in Entry /\ entry.sid = s /\ entry.category = items[s].category
        /\ entry.by # "auto"
        /\ receipt.sid = s /\ receipt.item = items[s]
    BY <2>2 DEF Entry, FinalizationReceipt
  <2>4. \A e \in ledger : Row(e.sid) # Row(s)
    BY <2>1, <1>i, KnownByRow
  <2> HIDE DEF receipt, entry
  <2>5. ReceiptsPosted'
    BY <2>1, <2>3, <1>i DEF Stored, ReceiptsPosted
  <2>6. Stored'
    BY <1>i, <2>1, <2>3, <2>4, <2>5, ReviewPosts
  <2>7. QED
    BY <1>f, <2>1, <2>2, <2>3, <2>6
<1>7. ASSUME NEW s \in SourceId, NEW session \in Sessions, NEW learn \in BOOLEAN,
             ConfirmRecovers(s, session, learn)
      PROVE  Stored' /\ Planned'
  <2>1. UNCHANGED <<ledger, receipts, seen, queued, items, delivered>>
    BY <1>7 DEF ConfirmRecovers
  <2>2. Stored'
    BY <2>1, <1>i, FilesUnchanged
  <2>3. PICK receipt \in RecoveryReceipts(s, session) :
          Finalize("confirm", s, items[s].category, receipt,
                   learn /\ receipt.learn /\ items[s].kind = "category")
    BY <1>7 DEF ConfirmRecovers
  <2>4. \E e \in ledger' : e.sid = s /\ e.category = items[s].category
    BY <2>1, <1>i DEF RecoveryReceipts, Stored, ReceiptsPosted
  <2>5. items[s].category \in Categories
    BY <1>7 DEF ConfirmRecovers, Called, IInv, TypeInv, ItemsNameCategory
  <2>6. QED
    BY <1>f, <2>2, <2>3, <2>4, <2>5
<1>8. ASSUME NEW s \in SourceId, NEW category \in Categories, CorrectPosts(s, category)
      PROVE  Stored' /\ Planned'
  <2> DEFINE entry == [sid |-> s, category |-> category, by |-> "correct"]
  <2>1. /\ UNCHANGED <<receipts, seen, queued, items, delivered>> /\ s \in queued /\ s \notin PostedIds
        /\ ledger' = ledger \cup {entry} /\ Finalize("correct", s, category, NoReceipt, TRUE)
    BY <1>8 DEF CorrectPosts
  <2>2. entry \in Entry /\ entry.sid = s /\ entry.category = category /\ entry.by # "auto"
    BY DEF Entry
  <2> HIDE DEF entry
  <2>3. \A e \in ledger : Row(e.sid) # Row(s)
    BY <2>1, <1>i DEF Stored, RowsReviewedOnce, PostedIds
  <2>4. ReceiptsPosted'
    BY <2>1, <1>i, LedgerGrows
  <2>5. Stored'
    BY <1>i, <2>1, <2>2, <2>3, <2>4, ReviewPosts
  <2>6. QED
    BY <1>f, <2>1, <2>2, <2>5
<1>9. CASE ConfirmGroupEnds
  BY <1>9, <1>i, IdleTyped, FilesUnchanged, NothingPlanned DEF ConfirmGroupEnds
<1>10. QED
  BY <1>1, <1>2, <1>3, <1>4, <1>5, <1>6, <1>7, <1>8, <1>9 DEF Confirm

\* The rest of a finalization, a stop, and a stutter.
LEMMA FinalizationStep ==
  ASSUME IInv, TypeOK',
         \/ FinalizeMarksSeen \/ FinalizeUnqueues
         \/ LearnConfirmed \/ LearnCorrected \/ FinalizeSavesItem
         \/ Crash \/ UNCHANGED vars
  PROVE  Stored' /\ Planned'
<1> USE DEF store, files, history
<1>i. TypeOK /\ Stored /\ Planned /\ cmd \in Command /\ items \in [SourceId -> Item]
  BY DEF IInv, TypeInv, TypeOK
<1>m. ASSUME NEW pc \in {"unqueue", "learn", "save"}, cmd' = [cmd EXCEPT !.pc = pc],
             cmd.pc \in {"seen", "unqueue", "learn"}, UNCHANGED ledger
      PROVE  Planned'
  <2>1. cmd'.pc = pc /\ cmd'.sid = cmd.sid /\ cmd'.category = cmd.category
    BY <1>m, <1>i DEF Command
  <2>2. QED
    BY <1>m, <1>i, <2>1, FinalizationPlanned DEF Planned, FinalizingPosted
<1>1. CASE FinalizeMarksSeen
  <2>1. SeenIsPosted'
    BY <1>1, <1>i DEF FinalizeMarksSeen, Stored, SeenIsPosted, Planned, FinalizingPosted, PostedIds
  <2>2. Stored'
    BY <1>1, <1>i, <2>1, LedgerGrows DEF FinalizeMarksSeen, Stored, RowPostedOnce, RowsReviewedOnce
  <2>3. QED
    BY <1>1, <1>m, <2>2 DEF FinalizeMarksSeen
<1>2. CASE FinalizeUnqueues
  <2>1. cmd.sid \in PostedIds
    BY <1>2, <1>i DEF FinalizeUnqueues, Planned, FinalizingPosted, PostedIds
  <2>2. DeliveredAccounted'
    BY <1>2, <1>i, <2>1 DEF FinalizeUnqueues, Stored, DeliveredAccounted, PostedIds
  <2>3. RowsReviewedOnce'
    BY <1>2, <1>i DEF FinalizeUnqueues, Stored, RowsReviewedOnce
  <2>4. Stored'
    BY <1>2, <1>i, <2>2, <2>3, LedgerGrows DEF FinalizeUnqueues, Stored, RowPostedOnce
  <2>5. QED
    BY <1>2, <1>m, <2>4 DEF FinalizeUnqueues
<1>3. CASE LearnConfirmed
  BY <1>3, <1>i, <1>m, FilesUnchanged DEF LearnConfirmed
<1>4. CASE LearnCorrected
  BY <1>4, <1>i, <1>m, FilesUnchanged DEF LearnCorrected
<1>5. CASE FinalizeSavesItem
  <2>1. FinalItemMatchesLedger'
    BY <1>5, <1>i DEF FinalizeSavesItem, Stored, FinalItemMatchesLedger, Planned, FinalizingPosted, Item
  <2>2. Stored'
    BY <1>5, <1>i, <2>1, FilesUnchanged DEF FinalizeSavesItem
  <2>3. cmd'.pc \in {"idle", "next"}
    BY <1>5 DEF FinalizeSavesItem, Idle
  <2>4. QED
    BY <2>2, <2>3, NothingPlanned
<1>6. CASE Crash
  BY <1>6, <1>i, IdleTyped, FilesUnchanged, NothingPlanned DEF Crash
<1>7. CASE UNCHANGED vars
  BY <1>7, <1>i DEF vars, Stored, RowPostedOnce, RowsReviewedOnce, SeenIsPosted, FinalItemMatchesLedger,
       DeliveredAccounted, ReceiptsPosted, Planned, FinalizingPosted, ImportPlan, BatchAccounted,
       ImportPosted, PostedIds
<1>8. QED
  BY <1>1, <1>2, <1>3, <1>4, <1>5, <1>6, <1>7

\* Every step of every command, and a stop, keeps the invariant.
LEMMA InvStep == IInv /\ [Next]_vars => IInv'
<1> SUFFICES ASSUME IInv, [Next]_vars PROVE IInv'
  OBVIOUS
<1>1. TypeInv' /\ TypeOK'
  BY TypeStep DEF IInv, TypeInv
<1>2. Stored' /\ Planned'
  BY <1>1, ImportStep, ReviewStep, FinalizationStep DEF Next, Continue
<1>3. QED
  BY <1>1, <1>2 DEF IInv

-----------------------------------------------------------------------------
\* The invariant of every behaviour: the types, what the files and the ledger
\* say of one another, and what the command in progress relies on.
THEOREM Invariance == Spec => []IInv
<1>1. Init => IInv
  BY InitInv
<1>2. IInv /\ [Next]_vars => IInv'
  BY InvStep
<1>3. QED
  BY <1>1, <1>2, PTL DEF Spec

\* Every variable keeps its type, through stops and restarts.
THEOREM TypeCorrect == Spec => []TypeOK
<1>1. IInv => TypeOK
  BY DEF IInv, TypeInv
<1>2. QED
  BY <1>1, Invariance, PTL

\* Import, confirm, correct, recovery and restarts post a bank row at most once,
\* under whichever spelling of its id.
THEOREM PostedOnce == Spec => []RowPostedOnce
<1>1. IInv => RowPostedOnce
  BY DEF IInv, Stored
<1>2. QED
  BY <1>1, Invariance, PTL

\* A row of an import that returned is posted or waits for review.
THEOREM NothingLost == Spec => []NoRowLost
<1>1. IInv => NoRowLost
  <2> SUFFICES ASSUME IInv, NEW s \in delivered
               PROVE  source_id_variants(s) \cap (PostedIds \cup queued) # {}
    BY DEF NoRowLost
  <2>1. s \in SourceId /\ PostedIds \cup queued \subseteq SourceId
    BY DEF IInv, TypeInv, TypeOK, PostedIds, Entry
  <2>2. PICK t \in PostedIds \cup queued : Row(t) = Row(s)
    BY DEF IInv, Stored, DeliveredAccounted
  <2>3. t \in source_id_variants(s)
    BY <2>1, <2>2, VariantsShareRow
  <2>4. QED
    BY <2>2, <2>3
<1>2. QED
  BY <1>1, Invariance, PTL

\* No row is marked seen before its entry is in the ledger.
THEOREM SeenPosted == Spec => []SeenIsPosted
<1>1. IInv => SeenIsPosted
  BY DEF IInv, Stored
<1>2. QED
  BY <1>1, Invariance, PTL

\* Review holds a row under one spelling, and never a row the importer posted.
THEOREM ReviewedOnce == Spec => []ReviewHoldsEachRowOnce
<1>1. IInv => ReviewHoldsEachRowOnce
  <2> SUFFICES ASSUME IInv, NEW s \in queued
               PROVE  /\ queued \cap source_id_variants(s) = {s}
                      /\ \A e \in ledger : e.sid[1] = s[1] => e.sid = s /\ e.by # "auto"
    BY DEF ReviewHoldsEachRowOnce
  <2>1. queued \subseteq SourceId /\ s \in SourceId
    BY DEF IInv, TypeInv, TypeOK
  <2>2. \A t \in queued : t \in source_id_variants(s) <=> t = s
    BY <2>1, VariantsShareRow DEF IInv, Stored, RowsReviewedOnce
  <2>3. \A e \in ledger : e.sid[1] = s[1] => e.sid = s /\ e.by # "auto"
    BY DEF IInv, Stored, RowsReviewedOnce, Row
  <2>4. QED
    BY <2>2, <2>3
<1>2. QED
  BY <1>1, Invariance, PTL

\* A decided queue item and the ledger agree.
THEOREM DecisionsMatchLedger == Spec => []FinalItemMatchesLedger
<1>1. IInv => FinalItemMatchesLedger
  BY DEF IInv, Stored
<1>2. QED
  BY <1>1, Invariance, PTL

-----------------------------------------------------------------------------
(* The trust ramp *)

\* The steps behind the ledger commit of a finalization.
Finalizing == {"seen", "unqueue", "learn", "save"}

\* The finalization under way does not count its confirmation a second time.
Covered ==
  \/ cmd.pc = "save"
  \/ cmd.pc \in Finalizing /\ cmd.receipt \notin earned[Counterparty(cmd.sid)]

\* The confirmations that a stop left to be repeated, and that may be counted again.
LeftOver == {s \in SourceId : Unfinished(s) /\ ~(cmd.sid = s /\ Covered)}

LockIsFree == cmd.op = "none" => cmd.pc = "idle"
FinalizingReceipt ==
  cmd.pc \in Finalizing /\ cmd.receipt # NoReceipt =>
    /\ cmd.receipt \in receipts /\ cmd.receipt.sid = cmd.sid /\ cmd.receipt.item = items[cmd.sid]

\* A receipt is of an open proposal, and not of one that is still to be written.
ReceiptsOfOpen ==
  \A r \in receipts :
    /\ r.item.status = "open" /\ r.item.rev <= items[r.sid].rev
    /\ cmd.pc = "stamp" /\ cmd.sid = r.sid => r.item.rev < items[r.sid].rev

\* What is counted too much, and what may still be, is not more than the stops.
CountedFor(c) ==
  /\ earned[c] \subseteq receipts /\ IsFiniteSet(earned[c])
  /\ Cardinality(earned[c]) <= learned[c].count
  /\ Cardinality(earned[c]) <= 1 => learned[c].count = Cardinality(earned[c])
  /\ earned[c] # {} => learned[c].last \in earned[c]
  /\ learned[c].count + Cardinality(LeftOver) <= Cardinality(earned[c]) + crashes
Counted == IsFiniteSet(LeftOver) /\ \A c \in Counterparties : CountedFor(c)
PlannedIsEarned ==
  cmd.pc = "rows" /\ QueueAll => \A e \in cmd.out : learned[Counterparty(e.sid)].count >= Threshold

RampInv == LockIsFree /\ FinalizingReceipt /\ ReceiptsOfOpen /\ Counted /\ PlannedIsEarned

-----------------------------------------------------------------------------
\* Counts and stops are numbers.
LEMMA CountsAreNumbers ==
  ASSUME TypeOK
  PROVE  crashes \in Nat /\ \A c \in Counterparties : learned[c].count \in Nat
BY ConstantsAssumption DEF TypeOK, Learned

\* A step that counts nothing and leaves no confirmation to be repeated.
LEMMA NothingCounted ==
  ASSUME TypeOK, Counted, UNCHANGED <<learned, earned, crashes>>, receipts \subseteq receipts',
         LeftOver' \subseteq LeftOver
  PROVE  Counted'
<1>1. IsFiniteSet(LeftOver') /\ Cardinality(LeftOver') <= Cardinality(LeftOver)
  BY FS_Subset DEF Counted
<1>2. Cardinality(LeftOver) \in Nat /\ Cardinality(LeftOver') \in Nat
  BY <1>1, FS_CardinalityType DEF Counted
<1>3. ASSUME NEW c \in Counterparties PROVE CountedFor(c)'
  <2>1. CountedFor(c) /\ Cardinality(earned[c]) \in Nat
    BY FS_CardinalityType DEF Counted, CountedFor
  <2> DEFINE left == Cardinality(LeftOver)  left2 == Cardinality(LeftOver')  known == Cardinality(earned[c])
  <2>2. learned[c].count + left2 <= known + crashes
    <3>1. learned[c].count + left <= known + crashes /\ left2 <= left
      BY <1>1, <2>1 DEF CountedFor
    <3>2. left \in Nat /\ left2 \in Nat /\ known \in Nat /\ learned[c].count \in Nat /\ crashes \in Nat
      BY <1>2, <2>1, CountsAreNumbers
    <3> HIDE DEF left, left2, known
    <3>3. QED
      BY <3>1, <3>2
  <2>3. QED
    BY <2>1, <2>2 DEF CountedFor
<1>4. QED
  BY <1>1, <1>3 DEF Counted

\* A step away from any finalization.
LEMMA Elsewhere ==
  ASSUME TypeOK, Counted, UNCHANGED <<receipts, learned, earned, crashes>>,
         cmd.pc \notin Finalizing, cmd'.pc \notin Finalizing,
         \A s \in SourceId : Unfinished(s)' => Unfinished(s)
  PROVE  Counted' /\ FinalizingReceipt'
<1>1. ~Covered /\ ~Covered'
  BY DEF Covered, Finalizing
<1>2. LeftOver' \subseteq LeftOver
  BY <1>1 DEF LeftOver
<1>3. QED
  BY <1>2, NothingCounted DEF FinalizingReceipt

\* An import reads what was counted, and counts nothing.
LEMMA ImportRamp ==
  ASSUME IInv, RampInv,
         \/ \E batch \in SUBSET SourceId, intakeOnly \in BOOLEAN : ImportStart(batch, intakeOnly)
         \/ \E s \in SourceId :
              ImportSkipsKnownRow(s) \/ ImportCategorizesRow(s) \/ ImportQueuesRow(s)
         \/ ImportPosts \/ ImportMarksSeen \/ ImportReturns
  PROVE  RampInv'
<1> USE DEF store, files, history
<1>i. TypeOK /\ cmd \in Command /\ LockIsFree /\ ReceiptsOfOpen /\ Counted /\ PlannedIsEarned
  BY DEF IInv, TypeInv, TypeOK, RampInv
<1>1. /\ UNCHANGED <<receipts, items, learned, earned, crashes>>
      /\ cmd.pc \in {"idle", "rows", "mark"} /\ cmd'.pc \in {"idle", "rows", "mark"}
      /\ LockIsFree'
  <2>1. CASE \E batch \in SUBSET SourceId, intakeOnly \in BOOLEAN : ImportStart(batch, intakeOnly)
    BY <2>1, <1>i DEF ImportStart, LockIsFree, Idle
  <2>2. CASE \E s \in SourceId : ImportSkipsKnownRow(s) \/ ImportCategorizesRow(s) \/ ImportQueuesRow(s)
    <3>1. cmd.pc = "rows" /\ UNCHANGED <<receipts, items, learned, earned, crashes>>
      BY <2>2 DEF ImportSkipsKnownRow, ImportCategorizesRow, ImportQueuesRow, NextRow
    <3>2. cmd'.pc = cmd.pc /\ cmd'.op = cmd.op
      BY <2>2, <1>i DEF ImportSkipsKnownRow, ImportCategorizesRow, ImportQueuesRow, Command
    <3>3. QED
      BY <3>1, <3>2, <1>i DEF LockIsFree
  <2>3. CASE ImportPosts
    <3>1. cmd'.pc = "mark" /\ cmd'.op = cmd.op /\ cmd.pc = "rows"
      BY <2>3, <1>i DEF ImportPosts, Command
    <3>2. QED
      BY <2>3, <3>1, <1>i DEF ImportPosts, LockIsFree
  <2>4. CASE ImportMarksSeen \/ ImportReturns
    BY <2>4, IdleTyped DEF ImportMarksSeen, ImportReturns, LockIsFree
  <2>5. QED
    BY <2>1, <2>2, <2>3, <2>4
<1>2. Counted' /\ FinalizingReceipt'
  BY <1>1, <1>i, Elsewhere DEF Finalizing, Unfinished
<1>3. ReceiptsOfOpen'
  BY <1>1, <1>i DEF ReceiptsOfOpen
<1>4. PlannedIsEarned'
  <2>1. ASSUME NEW s \in SourceId, ImportCategorizesRow(s) PROVE PlannedIsEarned'
    <3> DEFINE entry == [sid |-> s, category |-> learned[Counterparty(s)].category, by |-> "auto"]
    <3>1. cmd'.out = cmd.out \cup {entry} /\ cmd.pc = "rows"
      BY <2>1, <1>i DEF ImportCategorizesRow, NextRow, Command
    <3>2. entry.sid = s /\ (QueueAll => learned[Counterparty(s)].count >= Threshold)
      BY <2>1 DEF ImportCategorizesRow, eligible_for_autopost
    <3> HIDE DEF entry
    <3>3. QED
      BY <3>1, <3>2, <1>1, <1>i DEF PlannedIsEarned, Counterparty
  <2>2. ASSUME NEW batch \in SUBSET SourceId, NEW intakeOnly \in BOOLEAN, ImportStart(batch, intakeOnly)
        PROVE  PlannedIsEarned'
    BY <2>2 DEF ImportStart, Idle, PlannedIsEarned
  <2>3. CASE \E s \in SourceId : ImportSkipsKnownRow(s) \/ ImportQueuesRow(s)
    <3>1. cmd'.out = cmd.out /\ cmd.pc = "rows"
      BY <2>3, <1>i DEF ImportSkipsKnownRow, ImportQueuesRow, NextRow, Command
    <3>2. QED
      BY <3>1, <1>1, <1>i DEF PlannedIsEarned, Counterparty
  <2>4. CASE ImportPosts \/ ImportMarksSeen \/ ImportReturns
    BY <2>4, <1>i DEF ImportPosts, ImportMarksSeen, ImportReturns, Idle, Command, PlannedIsEarned
  <2>5. QED
    BY <2>1, <2>2, <2>3, <2>4
<1>5. QED
  BY <1>1, <1>2, <1>3, <1>4 DEF RampInv

\* A proposal that is written anew is not the one of any receipt.
LEMMA ProposalRamp ==
  ASSUME IInv, RampInv,
         \/ \E s \in SourceId, category \in Categories : propose(s, category) \/ ProposeRelated(s, category)
         \/ \E s \in SourceId : withdraw(s)
         \/ \E category \in Categories, session \in Sessions : ConfirmGroupStart(category, session)
         \/ StampRelated \/ ConfirmGroupEnds
  PROVE  RampInv'
<1> USE DEF store, files, history
<1>i. /\ TypeOK /\ cmd \in Command /\ items \in [SourceId -> Item] /\ receipts \subseteq Receipt
      /\ LockIsFree /\ ReceiptsOfOpen /\ Counted /\ CommandNamesItem
  BY DEF IInv, TypeInv, TypeOK, RampInv
<1>1. /\ UNCHANGED <<receipts, learned, earned, crashes>>
      /\ cmd.pc \in {"idle", "next", "stamp"} /\ cmd'.pc \in {"idle", "next", "stamp"}
      /\ LockIsFree'
  <2>1. CASE \E s \in SourceId, category \in Categories : propose(s, category) \/ ProposeRelated(s, category)
    BY <2>1, <1>i DEF propose, ProposeRelated, Proposable, LockIsFree, Idle
  <2>2. CASE \E s \in SourceId : withdraw(s)
    BY <2>2, <1>i DEF withdraw, LockIsFree
  <2>3. CASE \E category \in Categories, session \in Sessions : ConfirmGroupStart(category, session)
    BY <2>3, <1>i DEF ConfirmGroupStart, LockIsFree, Idle
  <2>4. CASE StampRelated \/ ConfirmGroupEnds
    BY <2>4, IdleTyped DEF StampRelated, ConfirmGroupEnds, LockIsFree
  <2>5. QED
    BY <2>1, <2>2, <2>3, <2>4
<1>r. \A r \in receipts : r.sid \in SourceId /\ r.item.rev \in Int /\ items[r.sid] \in Item
  BY <1>i DEF Receipt, Item
<1>q. \A s \in SourceId : items[s].rev \in Int
  BY <1>i DEF Item
<1>2. ASSUME NEW s \in SourceId, NEW category \in Categories,
             items' = [items EXCEPT ![s] = Proposal(s, category)], cmd.pc = "idle"
      PROVE  /\ \A r \in receipts : r.item.rev <= items'[r.sid].rev /\ (r.sid = s => r.item.rev < items'[s].rev)
             /\ \A t \in SourceId : Unfinished(t)' => Unfinished(t)
  <2>1. items'[s].rev = items[s].rev + 1 /\ \A t \in SourceId \ {s} : items'[t] = items[t]
    BY <1>2, <1>i DEF Proposal
  <2>2. \A r \in receipts : r.item.rev <= items'[r.sid].rev /\ (r.sid = s => r.item.rev < items'[s].rev)
    BY <2>1, <1>i, <1>r, <1>q DEF ReceiptsOfOpen
  <2>3. ASSUME NEW t \in SourceId, Unfinished(t)' PROVE Unfinished(t)
    BY <2>1, <2>2, <2>3, <1>1, <1>r, <1>q DEF Unfinished
  <2>4. QED
    BY <2>2, <2>3
<1>3. /\ ReceiptsOfOpen'
      /\ \A t \in SourceId : Unfinished(t)' => Unfinished(t)
  <2>1. ASSUME NEW s \in SourceId, NEW category \in Categories, propose(s, category) PROVE <1>3!1 /\ <1>3!2
    <3>1. items' = [items EXCEPT ![s] = Proposal(s, category)] /\ cmd.pc = "idle" /\ cmd' = cmd
      BY <2>1, <1>i DEF propose, Proposable, LockIsFree
    <3>2. QED
      BY <3>1, <1>1, <1>2, <1>i DEF ReceiptsOfOpen
  <2>2. ASSUME NEW s \in SourceId, NEW category \in Categories, ProposeRelated(s, category) PROVE <1>3!1 /\ <1>3!2
    <3>1. items' = [items EXCEPT ![s] = Proposal(s, category)] /\ cmd.pc = "idle" /\ cmd'.sid = s
      BY <2>2, <1>i DEF ProposeRelated, Proposable, LockIsFree, Idle
    <3>2. QED
      BY <3>1, <1>1, <1>2, <1>i DEF ReceiptsOfOpen
  <2>3. ASSUME NEW s \in SourceId, withdraw(s) PROVE <1>3!1 /\ <1>3!2
    <3>1. /\ items'[s].status = "withdrawn" /\ items'[s].rev = items[s].rev
          /\ \A t \in SourceId \ {s} : items'[t] = items[t]
          /\ cmd.pc = "idle" /\ cmd' = cmd
      BY <2>3, <1>i DEF withdraw, LockIsFree, Item
    <3>2. QED
      BY <3>1, <1>1, <1>r, <1>i DEF ReceiptsOfOpen, Unfinished
  <2>4. CASE StampRelated
    <3>1. cmd.pc = "stamp" /\ cmd.sid \in SourceId /\ cmd'.pc = "idle"
      BY <2>4, <1>i DEF StampRelated, CommandNamesItem, Idle
    <3>2. /\ items'[cmd.sid].rev = items[cmd.sid].rev
          /\ \A t \in SourceId \ {cmd.sid} : items'[t] = items[t]
      BY <2>4, <3>1, <1>i DEF StampRelated, Item
    <3>3. \A r \in receipts : r.sid = cmd.sid => r.item.rev < items'[cmd.sid].rev
      BY <3>1, <3>2, <1>i DEF ReceiptsOfOpen
    <3>4. ReceiptsOfOpen'
      BY <3>1, <3>2, <1>1, <1>r, <1>i DEF ReceiptsOfOpen
    <3>5. QED
      BY <3>2, <3>3, <3>4, <1>1, <1>r, <1>q DEF Unfinished
  <2>5. CASE ConfirmGroupEnds \/ \E category \in Categories, session \in Sessions : ConfirmGroupStart(category, session)
    <3>1. UNCHANGED items /\ cmd'.pc # "stamp"
      <4>1. CASE ConfirmGroupEnds
        BY <4>1, IdleTyped DEF ConfirmGroupEnds
      <4>2. CASE \E category \in Categories, session \in Sessions : ConfirmGroupStart(category, session)
        BY <4>2 DEF ConfirmGroupStart, Idle
      <4>3. QED
        BY <2>5, <4>1, <4>2
    <3>2. QED
      BY <3>1, <1>1, <1>i DEF ReceiptsOfOpen, Unfinished
  <2>6. QED
    BY <2>1, <2>2, <2>3, <2>4, <2>5
<1>4. Counted' /\ FinalizingReceipt'
  BY <1>1, <1>3, <1>i, Elsewhere DEF Finalizing
<1>5. QED
  BY <1>1, <1>3, <1>4 DEF RampInv, PlannedIsEarned

\* A finalization that begins: a new receipt is none that was counted, and one that
\* is found again was left over.
LEMMA FinalizeRamp ==
  ASSUME IInv, RampInv,
         \/ \E s \in SourceId, category \in Categories : CorrectPosts(s, category)
         \/ \E s \in SourceId : Confirm(s)
  PROVE  RampInv'
<1> USE DEF store, files, history
<1>i. /\ TypeOK /\ cmd \in Command /\ items \in [SourceId -> Item] /\ receipts \subseteq Receipt
      /\ LockIsFree /\ ReceiptsOfOpen /\ Counted /\ ReceiptsPosted
  BY DEF IInv, TypeInv, TypeOK, RampInv, Stored
<1>f. ASSUME NEW op \in {"confirm", "correct"}, NEW s, NEW category, NEW receipt, NEW learn,
             Finalize(op, s, category, receipt, learn)
      PROVE  cmd'.pc = "seen" /\ cmd'.sid = s /\ cmd'.receipt = receipt /\ LockIsFree'
  BY <1>f, <1>i DEF Finalize, Command, LockIsFree
<1>c. ASSUME NEW s \in SourceId, NEW session, NEW learn, Called(s, session, learn)
      PROVE  cmd.pc \notin Finalizing /\ items[s].status = "open"
  BY <1>c, <1>i DEF Called, LockIsFree, Finalizing
<1>n. ASSUME cmd'.pc = "seen" PROVE PlannedIsEarned'
  BY <1>n DEF PlannedIsEarned
<1>1. ASSUME NEW s \in SourceId, NEW session \in Sessions, NEW learn \in BOOLEAN,
             ConfirmPosts(s, session, learn)
      PROVE  RampInv'
  <2> DEFINE receipt == FinalizationReceipt(s, session, learn)
  <2>1. /\ UNCHANGED <<items, learned, earned, crashes>> /\ ~source_exists(s)
        /\ receipts' = receipts \cup {receipt}
        /\ Finalize("confirm", s, items[s].category, receipt, learn /\ items[s].kind = "category")
        /\ cmd.pc \notin Finalizing /\ items[s].status = "open"
    BY <1>1, <1>c DEF ConfirmPosts
  <2>2. receipt.sid = s /\ receipt.item = items[s]
    BY DEF FinalizationReceipt
  <2> HIDE DEF receipt
  <2>3. cmd'.pc = "seen" /\ cmd'.sid = s /\ cmd'.receipt = receipt /\ LockIsFree'
    BY <2>1, <1>f
  <2>4. receipt \notin receipts
    <3>1. \A e \in ledger : e.sid # s
      BY <2>1, <1>i, KnownByRow
    <3>2. QED
      BY <3>1, <2>2, <1>i DEF ReceiptsPosted
  <2>5. Covered' /\ ~Covered
    <3>1. receipt \notin earned'[Counterparty(s)]
      BY <2>1, <2>4, <1>i, ConstantsAssumption DEF Counted, CountedFor, Counterparty, SourceId
    <3>2. QED
      BY <2>1, <2>3, <3>1 DEF Covered, Finalizing, Counterparty
  <2>6. LeftOver' \subseteq LeftOver
    BY <2>1, <2>2, <2>3, <2>5 DEF LeftOver, Unfinished
  <2>7. Counted'
    BY <2>1, <2>6, <1>i, NothingCounted
  <2>8. FinalizingReceipt'
    BY <2>1, <2>2, <2>3 DEF FinalizingReceipt
  <2>9. ReceiptsOfOpen'
    BY <2>1, <2>2, <2>3, <1>i DEF ReceiptsOfOpen, Item
  <2>10. QED
    BY <2>3, <2>7, <2>8, <2>9, <1>n DEF RampInv
<1>2. ASSUME NEW s \in SourceId, NEW session \in Sessions, NEW learn \in BOOLEAN,
             ConfirmRecovers(s, session, learn)
      PROVE  RampInv'
  <2>1. UNCHANGED <<receipts, items, learned, earned, crashes>> /\ cmd.pc \notin Finalizing
    BY <1>2, <1>c DEF ConfirmRecovers
  <2>2. PICK receipt \in RecoveryReceipts(s, session) :
          Finalize("confirm", s, items[s].category, receipt,
                   learn /\ receipt.learn /\ items[s].kind = "category")
    BY <1>2 DEF ConfirmRecovers
  <2>3. cmd'.pc = "seen" /\ cmd'.sid = s /\ cmd'.receipt = receipt /\ LockIsFree'
    BY <2>2, <1>f
  <2>4. LeftOver' \subseteq LeftOver
    BY <2>1 DEF LeftOver, Covered, Finalizing, Unfinished
  <2>5. Counted'
    BY <2>1, <2>4, <1>i, NothingCounted
  <2>6. FinalizingReceipt'
    BY <2>1, <2>2, <2>3 DEF FinalizingReceipt, RecoveryReceipts
  <2>7. ReceiptsOfOpen'
    BY <2>1, <2>3, <1>i DEF ReceiptsOfOpen
  <2>8. QED
    BY <2>3, <2>5, <2>6, <2>7, <1>n DEF RampInv
<1>3. ASSUME NEW s \in SourceId, NEW category \in Categories, CorrectPosts(s, category) PROVE RampInv'
  <2>1. /\ UNCHANGED <<receipts, items, learned, earned, crashes>> /\ cmd.pc \notin Finalizing
        /\ Finalize("correct", s, category, NoReceipt, TRUE)
    BY <1>3, <1>i DEF CorrectPosts, LockIsFree, Finalizing
  <2>2. cmd'.pc = "seen" /\ cmd'.receipt = NoReceipt /\ LockIsFree'
    BY <2>1, <1>f
  <2>3. LeftOver' \subseteq LeftOver
    BY <2>1 DEF LeftOver, Covered, Finalizing, Unfinished
  <2>4. Counted' /\ FinalizingReceipt'
    BY <2>1, <2>2, <2>3, <1>i, NothingCounted DEF FinalizingReceipt
  <2>5. ReceiptsOfOpen'
    BY <2>1, <2>2, <1>i DEF ReceiptsOfOpen
  <2>6. QED
    BY <2>2, <2>4, <2>5, <1>n DEF RampInv
<1>4. QED
  BY <1>1, <1>2, <1>3 DEF Confirm

\* The learned context: a confirmation is counted for the first time, or was left
\* over and is not any more.
LEMMA LearnConfirmedRamp ==
  ASSUME IInv, RampInv, LearnConfirmed
  PROVE  RampInv'
<1> USE DEF store, files, history
<1> DEFINE c == Counterparty(cmd.sid)
<1>i. /\ TypeOK /\ cmd \in Command /\ items \in [SourceId -> Item] /\ receipts \subseteq Receipt
      /\ learned \in [Counterparties -> Learned] /\ earned \in [Counterparties -> SUBSET Receipt]
      /\ LockIsFree /\ FinalizingReceipt /\ ReceiptsOfOpen /\ Counted /\ CommandNamesItem
  BY DEF IInv, TypeInv, TypeOK, RampInv
<1>1. /\ UNCHANGED <<receipts, items, crashes>> /\ cmd.pc = "learn" /\ cmd.receipt # NoReceipt
      /\ cmd'.pc = "save" /\ cmd'.sid = cmd.sid /\ cmd'.receipt = cmd.receipt /\ cmd'.op = cmd.op
  BY <1>i DEF LearnConfirmed, Command
<1>2. /\ cmd.sid \in SourceId /\ c \in Counterparties
      /\ cmd.receipt \in receipts /\ cmd.receipt.sid = cmd.sid /\ cmd.receipt.item = items[cmd.sid]
  BY <1>1, <1>i, ConstantsAssumption DEF CommandNamesItem, FinalizingReceipt, Finalizing, Counterparty, SourceId
<1>3. Covered' /\ (Covered <=> cmd.receipt \notin earned[c])
  BY <1>1 DEF Covered, Finalizing
<1>4. LeftOver' = LeftOver \ {cmd.sid} /\ (cmd.sid \in LeftOver <=> cmd.receipt \in earned[c])
  BY <1>1, <1>2, <1>3 DEF LeftOver, Unfinished
<1>5. ASSUME UNCHANGED <<learned, earned>> PROVE Counted'
  <2>1. LeftOver' \subseteq LeftOver /\ receipts \subseteq receipts' /\ UNCHANGED <<learned, earned, crashes>>
    BY <1>1, <1>4, <1>5
  <2>2. QED
    BY <2>1, <1>i, NothingCounted
<1>6. ASSUME learned' = [learned EXCEPT ![c] = [category |-> cmd.category, count |-> @.count + 1,
                                               reset |-> FALSE, last |-> cmd.receipt]],
             earned' = [earned EXCEPT ![c] = @ \cup {cmd.receipt}], learned[c].last # cmd.receipt
      PROVE  Counted'
  <2> DEFINE left == Cardinality(LeftOver)  left2 == Cardinality(LeftOver')
             known == Cardinality(earned[c])  known2 == Cardinality(earned'[c])
             count == learned[c].count  count2 == learned'[c].count
  <2>1. /\ IsFiniteSet(LeftOver') /\ left \in Nat
        /\ left2 = IF cmd.sid \in LeftOver THEN left - 1 ELSE left
    BY <1>4, <1>i, FS_RemoveElement, FS_CardinalityType DEF Counted
  <2>2. left2 \in Nat
    BY <2>1, FS_CardinalityType
  <2>3. earned'[c] = earned[c] \cup {cmd.receipt} /\ count2 = count + 1 /\ learned'[c].last = cmd.receipt
    BY <1>2, <1>6, <1>i
  <2>4. CountedFor(c) /\ known \in Nat /\ count \in Nat /\ crashes \in Nat
    BY <1>2, <1>i, FS_CardinalityType, CountsAreNumbers DEF Counted, CountedFor
  <2>5. IsFiniteSet(earned'[c]) /\ known2 = IF cmd.receipt \in earned[c] THEN known ELSE known + 1
    BY <2>3, <2>4, FS_AddElement DEF CountedFor
  <2>6. cmd.receipt \in earned[c] => known # 0 /\ known # 1
    <3>1. cmd.receipt \in earned[c] => learned[c].last \in earned[c]
      BY <2>4 DEF CountedFor
    <3>2. (known = 0 => earned[c] = {}) /\ (known = 1 => \E x : earned[c] = {x})
      BY <2>4, FS_EmptySet, FS_Singleton DEF CountedFor
    <3> HIDE DEF known
    <3>3. QED
      BY <3>1, <3>2, <1>6
  <2>7. /\ known <= count /\ (known <= 1 => count = known) /\ count + left <= known + crashes
    BY <2>4 DEF CountedFor
  <2>8. /\ known2 <= count2 /\ (known2 <= 1 => count2 = known2) /\ count2 + left2 <= known2 + crashes
    <3> HIDE DEF left, left2, known, known2, count, count2
    <3>1. CASE cmd.receipt \in earned[c]
      <4>1. known2 = known /\ left2 = left - 1 /\ known > 1
        BY <3>1, <1>4, <2>1, <2>4, <2>5, <2>6
      <4>2. QED
        BY <4>1, <2>1, <2>3, <2>4, <2>7
    <3>2. CASE cmd.receipt \notin earned[c]
      <4>1. known2 = known + 1 /\ left2 = left
        BY <3>2, <1>4, <2>1, <2>5
      <4>2. QED
        BY <4>1, <2>1, <2>3, <2>4, <2>7
    <3>3. QED
      BY <3>1, <3>2
  <2>9. ASSUME NEW d \in Counterparties, d = c PROVE CountedFor(d)'
    BY <1>1, <1>2, <2>9, <2>3, <2>4, <2>5, <2>8 DEF CountedFor
  <2>10. ASSUME NEW d \in Counterparties, d # c PROVE CountedFor(d)'
    <3> DEFINE others == Cardinality(earned[d])
    <3>1. learned'[d] = learned[d] /\ earned'[d] = earned[d]
      BY <2>10, <1>6, <1>i
    <3>2. CountedFor(d) /\ others \in Nat /\ learned[d].count \in Nat
      BY <1>i, FS_CardinalityType, CountsAreNumbers DEF Counted, CountedFor
    <3>3. learned[d].count + left2 <= others + crashes
      <4>1. learned[d].count + left <= others + crashes
        BY <3>2 DEF CountedFor
      <4> HIDE DEF left, left2, others
      <4>2. QED
        BY <4>1, <2>1, <2>2, <2>4, <3>2
    <3>4. QED
      BY <1>1, <3>1, <3>2, <3>3 DEF CountedFor
  <2>11. QED
    BY <2>1, <2>9, <2>10 DEF Counted
<1>7. Counted'
  BY <1>5, <1>6 DEF LearnConfirmed
<1>8. LockIsFree' /\ FinalizingReceipt' /\ ReceiptsOfOpen' /\ PlannedIsEarned'
  BY <1>1, <1>2, <1>i DEF LockIsFree, FinalizingReceipt, ReceiptsOfOpen, PlannedIsEarned
<1>9. QED
  BY <1>7, <1>8 DEF RampInv

\* A correction starts the count again.
LEMMA LearnCorrectedRamp ==
  ASSUME IInv, RampInv, LearnCorrected
  PROVE  RampInv'
<1> USE DEF store, files, history
<1> DEFINE c == Counterparty(cmd.sid)
<1>i. /\ TypeOK /\ cmd \in Command /\ learned \in [Counterparties -> Learned]
      /\ earned \in [Counterparties -> SUBSET Receipt]
      /\ LockIsFree /\ FinalizingReceipt /\ ReceiptsOfOpen /\ Counted /\ CommandNamesItem
  BY DEF IInv, TypeInv, TypeOK, RampInv
<1>1. /\ UNCHANGED <<receipts, items, crashes>> /\ cmd.pc = "learn" /\ cmd.receipt = NoReceipt
      /\ cmd'.pc = "save" /\ cmd'.sid = cmd.sid /\ cmd'.receipt = cmd.receipt /\ cmd'.op = cmd.op
  BY <1>i DEF LearnCorrected, Command
<1>2. c \in Counterparties
  BY <1>1, <1>i, ConstantsAssumption DEF CommandNamesItem, Counterparty, SourceId
<1>3. LeftOver' \subseteq LeftOver
  BY <1>1 DEF LeftOver, Unfinished, Covered
<1> DEFINE left == Cardinality(LeftOver)  left2 == Cardinality(LeftOver')
<1>4. IsFiniteSet(LeftOver') /\ left2 <= left /\ left \in Nat /\ left2 \in Nat
  BY <1>3, <1>i, FS_Subset, FS_CardinalityType DEF Counted
<1>5. ASSUME NEW d \in Counterparties PROVE CountedFor(d)'
  <2> DEFINE known == Cardinality(earned[d])  count == learned[d].count
  <2>1. CountedFor(d) /\ known \in Nat /\ count \in Nat /\ crashes \in Nat
    BY <1>i, FS_CardinalityType, CountsAreNumbers DEF Counted, CountedFor
  <2>2. known <= count /\ count + left <= known + crashes
    BY <2>1 DEF CountedFor
  <2>3. count + left2 <= known + crashes /\ left2 <= crashes
    <3> HIDE DEF left, left2, known, count
    <3>1. QED
      BY <2>1, <2>2, <1>4
  <2>4. CASE d = c
    <3>1. earned'[c] = {} /\ learned'[c].count = 0
      BY <1>2, <1>i DEF LearnCorrected, Learned
    <3>2. Cardinality(earned'[c]) = 0 /\ IsFiniteSet(earned'[c])
      BY <3>1, FS_EmptySet
    <3> HIDE DEF left, known, count
    <3>3. 0 + left2 <= 0 + crashes
      BY <2>3, <2>1, <1>4
    <3>4. QED
      BY <1>1, <2>4, <3>1, <3>2, <3>3 DEF CountedFor
  <2>5. CASE d # c
    <3>1. earned'[d] = earned[d] /\ learned'[d] = learned[d]
      BY <2>5, <1>i DEF LearnCorrected
    <3>2. QED
      BY <1>1, <2>1, <2>3, <3>1 DEF CountedFor
  <2>6. QED
    BY <2>4, <2>5
<1>6. LockIsFree' /\ FinalizingReceipt' /\ ReceiptsOfOpen' /\ PlannedIsEarned'
  BY <1>1, <1>i DEF LockIsFree, FinalizingReceipt, ReceiptsOfOpen, PlannedIsEarned
<1>7. QED
  BY <1>4, <1>5, <1>6 DEF RampInv, Counted

\* The rest of a finalization, a stop, which may leave one confirmation, and a stutter.
LEMMA FinalizationRamp ==
  ASSUME IInv, RampInv,
         FinalizeMarksSeen \/ FinalizeUnqueues \/ FinalizeSavesItem \/ Crash \/ UNCHANGED vars
  PROVE  RampInv'
<1> USE DEF store, files, history
<1>i. /\ TypeOK /\ cmd \in Command /\ items \in [SourceId -> Item] /\ receipts \subseteq Receipt
      /\ LockIsFree /\ FinalizingReceipt /\ ReceiptsOfOpen /\ Counted /\ PlannedIsEarned /\ CommandNamesItem
  BY DEF IInv, TypeInv, TypeOK, RampInv
<1>1. CASE FinalizeMarksSeen \/ FinalizeUnqueues
  <2>1. /\ UNCHANGED <<receipts, items, learned, earned, crashes>> /\ cmd.pc \in {"seen", "unqueue"}
        /\ cmd'.pc \in {"unqueue", "learn"}
        /\ cmd'.sid = cmd.sid /\ cmd'.receipt = cmd.receipt /\ cmd'.op = cmd.op
    BY <1>1, <1>i DEF FinalizeMarksSeen, FinalizeUnqueues, Command
  <2>2. LeftOver' \subseteq LeftOver
    BY <2>1 DEF LeftOver, Unfinished, Covered, Finalizing
  <2>3. Counted'
    BY <2>1, <2>2, <1>i, NothingCounted
  <2>4. LockIsFree' /\ FinalizingReceipt' /\ ReceiptsOfOpen' /\ PlannedIsEarned'
    BY <2>1, <1>i DEF LockIsFree, FinalizingReceipt, Finalizing, ReceiptsOfOpen, PlannedIsEarned
  <2>5. QED
    BY <2>3, <2>4 DEF RampInv
<1>2. CASE FinalizeSavesItem
  <2>1. /\ UNCHANGED <<receipts, learned, earned, crashes>> /\ cmd.pc = "save" /\ cmd'.pc \in {"idle", "next"}
        /\ LockIsFree'
    BY <1>2 DEF FinalizeSavesItem, LockIsFree, Idle
  <2>2. cmd.sid \in SourceId
    BY <2>1, <1>i DEF CommandNamesItem
  <2>3. /\ items'[cmd.sid].status # "open" /\ items'[cmd.sid].rev = items[cmd.sid].rev
        /\ \A s \in SourceId \ {cmd.sid} : items'[s] = items[s]
    BY <1>2, <2>2, <1>i DEF FinalizeSavesItem, Item
  <2>4. ~Covered'
    BY <2>1 DEF Covered, Finalizing
  <2>5. LeftOver' \subseteq LeftOver
    BY <2>1, <2>3, <2>4, <1>i DEF LeftOver, Unfinished, ReceiptsOfOpen
  <2>6. Counted' /\ FinalizingReceipt'
    BY <2>1, <2>5, <1>i, NothingCounted DEF FinalizingReceipt, Finalizing
  <2>7. ReceiptsOfOpen' /\ PlannedIsEarned'
    BY <2>1, <2>3, <1>i DEF ReceiptsOfOpen, Receipt, PlannedIsEarned
  <2>8. QED
    BY <2>1, <2>6, <2>7 DEF RampInv
<1>3. CASE Crash
  <2>1. /\ UNCHANGED <<receipts, items, learned, earned>> /\ crashes' = crashes + 1
        /\ cmd'.pc = "idle" /\ LockIsFree'
    BY <1>3, IdleTyped DEF Crash, LockIsFree
  <2> DEFINE more == LeftOver \cup {cmd.sid}
             left == Cardinality(LeftOver)  left2 == Cardinality(LeftOver')  most == Cardinality(more)
  <2>2. LeftOver' \subseteq more
    BY <2>1 DEF LeftOver, Unfinished
  <2>3. IsFiniteSet(more) /\ most \in {left, left + 1} /\ left \in Nat
    BY <1>i, FS_AddElement, FS_CardinalityType DEF Counted
  <2>4. IsFiniteSet(LeftOver') /\ left2 <= most /\ left2 \in Nat
    <3> HIDE DEF more
    <3>1. QED
      BY <2>2, <2>3, FS_Subset, FS_CardinalityType
  <2>5. ASSUME NEW c \in Counterparties PROVE CountedFor(c)'
    <3> DEFINE known == Cardinality(earned[c])
    <3>1. CountedFor(c) /\ known \in Nat /\ learned[c].count \in Nat /\ crashes \in Nat
      BY <1>i, FS_CardinalityType, CountsAreNumbers DEF Counted, CountedFor
    <3>2. learned[c].count + left <= known + crashes
      BY <3>1 DEF CountedFor
    <3>3. learned[c].count + left2 <= known + crashes'
      <4> HIDE DEF left, left2, known, most
      <4>1. QED
        BY <2>1, <2>3, <2>4, <3>1, <3>2
    <3>4. QED
      BY <2>1, <3>1, <3>3 DEF CountedFor
  <2>6. FinalizingReceipt' /\ ReceiptsOfOpen' /\ PlannedIsEarned'
    BY <2>1, <1>i DEF FinalizingReceipt, Finalizing, ReceiptsOfOpen, PlannedIsEarned
  <2>7. QED
    BY <2>1, <2>4, <2>5, <2>6 DEF RampInv, Counted
<1>4. CASE UNCHANGED vars
  <2>1. UNCHANGED <<receipts, items, learned, earned, crashes, cmd>>
    BY <1>4 DEF vars
  <2>2. LeftOver' \subseteq LeftOver
    BY <2>1 DEF LeftOver, Unfinished, Covered
  <2>3. Counted'
    BY <2>1, <2>2, <1>i, NothingCounted
  <2>4. QED
    BY <2>1, <2>3, <1>i DEF RampInv, LockIsFree, FinalizingReceipt, ReceiptsOfOpen, PlannedIsEarned, Counterparty
<1>5. QED
  BY <1>1, <1>2, <1>3, <1>4

\* Nothing is counted before the first command.
LEMMA InitRamp == Init => RampInv
<1> SUFFICES ASSUME Init PROVE RampInv
  OBVIOUS
<1>1. LeftOver = {}
  BY DEF Init, LeftOver, Unfinished
<1>2. IsFiniteSet({}) /\ Cardinality({}) = 0
  BY FS_EmptySet
<1>3. Counted
  BY <1>1, <1>2 DEF Init, Counted, CountedFor, NoLearned
<1>4. QED
  BY <1>3, IdleTyped DEF Init, RampInv, LockIsFree, FinalizingReceipt, Finalizing, ReceiptsOfOpen, PlannedIsEarned

\* Every step of every command, and a stop, keeps the count.
LEMMA RampStep == IInv /\ RampInv /\ [Next]_vars => RampInv'
BY ImportRamp, ProposalRamp, FinalizeRamp, LearnConfirmedRamp, LearnCorrectedRamp, FinalizationRamp
   DEF Next, Continue

\* What the invariant says of one step of the trust ramp.
LEMMA EarnedStep ==
  ASSUME IInv, RampInv, RampInv', TypeOK', [Next]_vars
  PROVE  /\ \A c \in Counterparties :
              /\ learned'[c].count \in Cardinality(earned'[c])..Cardinality(earned'[c]) + crashes'
              /\ Cardinality(earned'[c]) <= 1 => learned'[c].count = Cardinality(earned'[c])
         /\ \A e \in ledger' \ ledger : e.by = "auto" /\ QueueAll =>
              Cardinality(earned[Counterparty(e.sid)]) + crashes >= Threshold
<1>1. ASSUME NEW c \in Counterparties
      PROVE  /\ learned'[c].count \in Cardinality(earned'[c])..Cardinality(earned'[c]) + crashes'
             /\ Cardinality(earned'[c]) <= 1 => learned'[c].count = Cardinality(earned'[c])
  <2> DEFINE left == Cardinality(LeftOver')  known == Cardinality(earned'[c])  count == learned'[c].count
  <2>1. CountedFor(c)' /\ left \in Nat /\ known \in Nat /\ count \in Nat /\ crashes' \in Nat
    BY FS_CardinalityType, ConstantsAssumption DEF RampInv, Counted, CountedFor, TypeOK, Learned
  <2>2. known <= count /\ (known <= 1 => count = known) /\ count + left <= known + crashes'
    BY <2>1 DEF CountedFor
  <2>3. count \in known..known + crashes'
    <3> DEFINE stopped == crashes'
    <3>1. /\ known <= count /\ count + left <= known + stopped
          /\ left \in Nat /\ known \in Nat /\ count \in Nat /\ stopped \in Nat
      BY <2>1, <2>2
    <3> HIDE DEF left, known, count, stopped
    <3>2. known <= count /\ count <= known + stopped
      BY <3>1
    <3>3. count \in known..known + stopped
      BY <3>1, <3>2
    <3>4. QED
      BY <3>3 DEF stopped
  <2>4. QED
    BY <2>2, <2>3
<1>2. ASSUME NEW e \in ledger' \ ledger, e.by = "auto", QueueAll
      PROVE  Cardinality(earned[Counterparty(e.sid)]) + crashes >= Threshold
  <2>1. ImportPosts
    <3> USE DEF store, files, history
    <3>1. ledger' # ledger
      BY <1>2
    <3>2. ASSUME NEW s \in SourceId, Confirm(s) PROVE FALSE
      BY <1>2, <3>2 DEF Confirm, ConfirmPosts, ConfirmRecovers
    <3>3. ASSUME NEW s \in SourceId, NEW category \in Categories, CorrectPosts(s, category) PROVE FALSE
      BY <1>2, <3>3 DEF CorrectPosts
    <3>4. QED
      BY <3>1, <3>2, <3>3 DEF Next, Continue, vars, ImportStart, ImportSkipsKnownRow, ImportCategorizesRow,
           ImportQueuesRow, ImportMarksSeen, ImportReturns, StampRelated, FinalizeMarksSeen, FinalizeUnqueues,
           LearnConfirmed, LearnCorrected, FinalizeSavesItem, ConfirmGroupEnds, propose, ProposeRelated,
           withdraw, ConfirmGroupStart, Crash
  <2> DEFINE c == Counterparty(e.sid)
             left == Cardinality(LeftOver)  known == Cardinality(earned[c])  count == learned[c].count
  <2>2. e \in cmd.out /\ cmd.pc = "rows" /\ e \in Entry
    BY <1>2, <2>1 DEF ImportPosts, IInv, TypeInv, TypeOK, Command
  <2>3. c \in Counterparties
    BY <2>2, ConstantsAssumption DEF Counterparty, Entry, SourceId
  <2>4. count >= Threshold
    BY <1>2, <2>2 DEF RampInv, PlannedIsEarned
  <2>5. CountedFor(c) /\ left \in Nat /\ known \in Nat /\ count \in Nat /\ crashes \in Nat /\ Threshold \in Nat
    BY <2>3, FS_CardinalityType, ConstantsAssumption DEF RampInv, Counted, CountedFor, IInv, TypeInv, TypeOK, Learned
  <2>6. count + left <= known + crashes
    BY <2>5 DEF CountedFor
  <2> HIDE DEF left, known, count
  <2>7. known + crashes >= Threshold
    BY <2>4, <2>5, <2>6
  <2>8. QED
    BY <2>7 DEF known
<1>3. QED
  BY <1>1, <1>2

\* Through stops and repetitions, a counterparty is never counted more often too many
\* than commands were stopped.
THEOREM RampInvariance == Spec => []RampInv
<1>1. Init => RampInv
  BY InitRamp
<1>2. IInv /\ RampInv /\ [Next]_vars => RampInv'
  BY RampStep
<1>3. QED
  BY <1>1, <1>2, Invariance, PTL DEF Spec

\* _update_learned_context counts every confirmation, a single one once, and the import
\* posts with nobody looking only what was confirmed as often as the policy asks, less
\* the stops.
THEOREM RampEarned == Spec => TrustIsEarned
<1>1. IInv /\ IInv' /\ RampInv /\ RampInv' /\ [Next]_vars =>
        [/\ \A c \in Counterparties :
             /\ learned'[c].count \in Cardinality(earned'[c])..Cardinality(earned'[c]) + crashes'
             /\ Cardinality(earned'[c]) <= 1 => learned'[c].count = Cardinality(earned'[c])
         /\ \A e \in ledger' \ ledger : e.by = "auto" /\ QueueAll =>
              Cardinality(earned[Counterparty(e.sid)]) + crashes >= Threshold]_vars
  <2>1. IInv' => TypeOK'
    BY DEF IInv, TypeInv
  <2>2. QED
    BY <2>1, EarnedStep
<1>2. QED
  BY <1>1, Invariance, RampInvariance, PTL DEF Spec, TrustIsEarned

-----------------------------------------------------------------------------

--------------------------------------------------------------------------------
(* THE INVARIANT *)

\* Saved rules, previews and receipts keep their form.
RulesTypeOK ==
  /\ rules \in [Targets -> Rule \union {None}]
  /\ plans \subseteq PlanOf /\ ruleReceipts \in Seq(PlanOf)
  /\ run \in plans \union {None} /\ now \in Nat

\* A clear leaves no rule.
ClearsToNothing == \A p \in plans : p.request.kind = "clear" => p.after = None

\* The rule of the command that runs is written, and its receipt is not.
RunWritten == run # None => rules[run.request.target] = run.after /\ _receipt_for(run.request.id) = {}

\* There is no rule and no receipt about a target; or its rule is the one of the last.
Silent(t) == rules[t] = None /\ \A j \in DOMAIN ruleReceipts : ruleReceipts[j].request.target # t
Shows(t) ==
  \E i \in DOMAIN ruleReceipts :
    /\ ruleReceipts[i].request.target = t /\ rules[t] = ruleReceipts[i].after
    /\ \A j \in DOMAIN ruleReceipts : ruleReceipts[j].request.target = t => j <= i
\* The rule was written and its receipt was not.
Unreceipted(p) == \A j \in DOMAIN ruleReceipts : ruleReceipts[j].request.id # p.request.id
Repeatable(t) == \E p \in plans : p.request.target = t /\ p.after = rules[t] /\ Unreceipted(p)
AllExplained == \A t \in Targets : Silent(t) \/ Shows(t) \/ Repeatable(t)

\* Two company rules with one match and one threshold.
Twin(t, u) ==
  /\ t \in Targets \ Suppliers /\ u \in Targets \ Suppliers /\ t < u
  /\ rules[t] # None /\ rules[u] # None
  /\ rules[t].match = rules[u].match /\ rules[t].threshold = rules[u].threshold
Warned(t, u) ==
  \E p \in plans : \/ p.request.target = t /\ p.after = rules[t] /\ u \in p.warns
                   \/ p.request.target = u /\ p.after = rules[u] /\ t \in p.warns
TwinsWarned == \A t, u \in Targets : Twin(t, u) => Warned(t, u)

RulesInv == RulesTypeOK /\ ClearsToNothing /\ RunWritten /\ AllExplained /\ TwinsWarned

\* Proposals follow the smaller id: both rules reach the same rows with one score.
LEMMA SmallerFollowed ==
  ASSUME NEW t, NEW u, Twin(t, u), NEW f \in Facts, NEW s \in proposal_stamp(f)
  PROVE  s.id # u
<1> DEFINE fit  == {v \in Targets \ Suppliers : rules[v] # None /\ _company_applies(rules[v], f)}
           best == {v \in fit : \A w \in fit : ~Below(Score(rules[v], f), Score(rules[w], f))}
<1>1. t \in Int /\ u \in Int /\ t < u /\ u \notin Suppliers /\ t \in Targets \ Suppliers
  BY RulesAssumption DEF Twin
<1>2. SUFFICES ASSUME u \in match(f) PROVE FALSE
  <2>1. PICK v \in match(f) : s = [id |-> v, treatment |-> rules[v].says, source |-> rules[v].source]
    BY DEF proposal_stamp
  <2>2. s.id = v
    BY <2>1
  <2> QED
    BY <2>2
<1>3. u \in best /\ \A v \in best : u <= v
  BY <1>1, <1>2 DEF match
<1>4. _company_applies(rules[t], f) <=> _company_applies(rules[u], f)
  BY DEF Twin, _company_applies, Reaches
<1>5. Score(rules[t], f) = Score(rules[u], f)
  BY DEF Twin, Score
<1>6. t \in fit
  BY <1>1, <1>3, <1>4 DEF Twin
<1>7. t \in best
  BY <1>3, <1>5, <1>6
<1> QED
  BY <1>1, <1>3, <1>7

--------------------------------------------------------------------------------
(* STEPS *)

\* A preview is of the form it is kept in.
LEMMA PlanForm ==
  ASSUME RulesTypeOK, NEW q \in Requests, NEW at \in Nat
  PROVE  /\ _plan(q, at) \in PlanOf /\ _plan(q, at).request = q
         /\ q.kind = "clear" => _plan(q, at).after = None
<1>1. q.target \in Targets /\ rules[q.target] \in Rule \union {None}
  BY DEF RulesTypeOK, Targets
<1>2. _rule_body(q, at) \in Rule
  BY DEF _rule_body, Rule
<1>3. Twins(q) \in SUBSET Targets
  BY DEF Twins
<1>4. q.kind = "set" => _plan(q, at) \in PlanOf /\ _plan(q, at).request = q
  BY <1>1, <1>2, <1>3 DEF _plan, _build_set, PlanOf
<1>5. q.kind = "clear" => _plan(q, at) \in PlanOf /\ _plan(q, at).request = q /\ _plan(q, at).after = None
  BY <1>1 DEF _plan, _build_clear, PlanOf
<1> QED
  BY <1>4, <1>5, RulesAssumption

\* What an apply writes is new: nothing, or the request as it was previewed, with the
\* twins it has now as its warnings.
LEMMA Written ==
  ASSUME RulesTypeOK, NEW p \in plans, Reviewed(p), ~Finishing(p), p.after # None
  PROVE  /\ p.after.match = p.request.match /\ p.after.threshold = p.request.threshold
         /\ p.warns = Twins(p.request)
<1> DEFINE q == p.request
<1>1. p \in PlanOf /\ q \in Requests /\ p.at \in Nat
  BY DEF RulesTypeOK, PlanOf
<1>2. Buildable(q) /\ _plan(q, p.at) = p
  BY DEF Reviewed
<1>3. q.kind = "set"
  BY <1>1, <1>2, RulesAssumption, PlanForm
<1>4. p = _build_set(q, p.at)
  BY <1>2, <1>3 DEF _plan
<1>5. p.after # rules[q.target]
  BY <1>2 DEF Finishing
<1>6. p.after = _rule_body(q, p.at) /\ p.warns = Twins(q)
  BY <1>4, <1>5 DEF _build_set
<1> QED
  BY <1>6 DEF _rule_body

--------------------------------------------------------------------------------
(* THE INVARIANT IS INDUCTIVE *)

LEMMA RulesInitInv == RulesInit => RulesInv
<1> SUFFICES ASSUME RulesInit PROVE RulesInv
  OBVIOUS
<1>1. RulesTypeOK /\ ClearsToNothing /\ RunWritten
  BY EmptySeq DEF RulesInit, RulesTypeOK, ClearsToNothing, RunWritten
<1>2. AllExplained
  BY DEF RulesInit, AllExplained, Silent
<1>3. TwinsWarned
  BY DEF RulesInit, TwinsWarned, Twin
<1> QED
  BY <1>1, <1>2, <1>3 DEF RulesInv

\* A preview changes no rule and no receipt.
LEMMA PreviewKeeps ==
  ASSUME RulesInv, NEW q \in Requests, Preview(q)
  PROVE  RulesInv'
<1>1. /\ _plan(q, now) \in PlanOf /\ (q.kind = "clear" => _plan(q, now).after = None)
      /\ _plan(q, now).request = q
  BY PlanForm DEF RulesInv, RulesTypeOK
<1>2. RulesTypeOK' /\ ClearsToNothing'
  BY <1>1 DEF RulesInv, RulesTypeOK, ClearsToNothing, Preview
<1>3. RunWritten'
  BY DEF RulesInv, RunWritten, Preview, _receipt_for
<1>4. AllExplained'
  BY DEF RulesInv, Preview, AllExplained, Silent, Shows, Repeatable, Unreceipted
<1>5. TwinsWarned'
  BY DEF RulesInv, Preview, TwinsWarned, Twin, Warned
<1> QED
  BY <1>2, <1>3, <1>4, <1>5 DEF RulesInv

\* The rule that is written is the plan's, which can be repeated until its receipt is
\* there, and warned of the twins that the rule has now.
LEMMA WriteKeeps ==
  ASSUME RulesInv, NEW p \in plans, _write_target(p)
  PROVE  RulesInv'
<1> DEFINE t == p.request.target
<1>1. /\ p \in PlanOf /\ p.request \in Requests /\ t \in Targets /\ p.after \in Rule \union {None}
      /\ p # None
  BY RulesAssumption DEF RulesInv, RulesTypeOK, PlanOf, Targets
<1>2. /\ rules' = [rules EXCEPT ![t] = p.after] /\ run' = p
      /\ UNCHANGED <<ruleReceipts, plans, now>>
      /\ Applicable(p) /\ Reviewed(p) /\ ~Finishing(p)
  BY DEF _write_target
<1>3. rules'[t] = p.after /\ \A v \in Targets : v # t => rules'[v] = rules[v]
  BY <1>1, <1>2 DEF RulesInv, RulesTypeOK
<1>4. RulesTypeOK' /\ ClearsToNothing'
  BY <1>1, <1>2 DEF RulesInv, RulesTypeOK, ClearsToNothing
<1>5. Unreceipted(p)
  BY <1>2 DEF Applicable, _receipt_for, Unreceipted
<1>6. RunWritten'
  BY <1>2, <1>3, <1>5 DEF RunWritten, Applicable, _receipt_for
<1>7. AllExplained'
  <2> SUFFICES ASSUME NEW v \in Targets PROVE (Silent(v) \/ Shows(v) \/ Repeatable(v))'
    BY DEF AllExplained
  <2>1. CASE v = t
    BY <2>1, <1>2, <1>3, <1>5 DEF Repeatable, Unreceipted
  <2>2. CASE v # t
    BY <2>2, <1>2, <1>3 DEF RulesInv, AllExplained, Silent, Shows, Repeatable, Unreceipted
  <2> QED
    BY <2>1, <2>2
<1>8. TwinsWarned'
  <2> SUFFICES ASSUME NEW v \in Targets, NEW w \in Targets, Twin(v, w)' PROVE Warned(v, w)'
    BY DEF TwinsWarned
  <2>1. v # w /\ v \notin Suppliers /\ w \notin Suppliers
    BY RulesAssumption DEF Twin
  <2>2. CASE v # t /\ w # t
    BY <2>2, <1>2, <1>3 DEF RulesInv, TwinsWarned, Twin, Warned
  <2>3. CASE v = t \/ w = t
    <3>1. p.after # None
      BY <2>3, <1>3 DEF Twin
    <3>2. /\ p.after.match = p.request.match /\ p.after.threshold = p.request.threshold
          /\ p.warns = Twins(p.request)
      BY <3>1, <1>2, Written DEF RulesInv
    <3>3. CASE v = t
      <4>1. rules[w] # None /\ rules[w].match = p.request.match /\ rules[w].threshold = p.request.threshold
        BY <3>3, <3>2, <2>1, <1>3 DEF Twin
      <4>2. w \in p.warns
        BY <4>1, <3>2, <3>3, <2>1 DEF Twins
      <4> QED
        BY <4>2, <3>3, <1>2, <1>3 DEF Warned
    <3>4. CASE w = t
      <4>1. rules[v] # None /\ rules[v].match = p.request.match /\ rules[v].threshold = p.request.threshold
        BY <3>4, <3>2, <2>1, <1>3 DEF Twin
      <4>2. v \in p.warns
        BY <4>1, <3>2, <3>4, <2>1 DEF Twins
      <4> QED
        BY <4>2, <3>4, <1>2, <1>3 DEF Warned
    <3> QED
      BY <2>3, <3>3, <3>4
  <2> QED
    BY <2>2, <2>3
<1> QED
  BY <1>4, <1>6, <1>7, <1>8 DEF RulesInv

\* A receipt for a plan whose rule is the saved one.
LEMMA ReceiptExplains ==
  ASSUME RulesInv, NEW p \in plans, rules[p.request.target] = p.after,
         ruleReceipts' = Append(ruleReceipts, p), UNCHANGED <<rules, plans>>
  PROVE  AllExplained' /\ ruleReceipts' \in Seq(PlanOf)
<1> DEFINE n == Len(ruleReceipts)
<1>1. p \in PlanOf /\ p.request \in Requests /\ ruleReceipts \in Seq(PlanOf) /\ plans \subseteq PlanOf
  BY DEF RulesInv, RulesTypeOK, PlanOf
<1>2. /\ n \in Nat /\ DOMAIN ruleReceipts = 1..n /\ DOMAIN ruleReceipts' = 1..(n + 1)
      /\ \A j \in 1..n : ruleReceipts'[j] = ruleReceipts[j]
      /\ ruleReceipts'[n + 1] = p
  BY <1>1
<1>3. ruleReceipts' \in Seq(PlanOf)
  BY <1>1
<1>4. SUFFICES ASSUME NEW t \in Targets PROVE (Silent(t) \/ Shows(t) \/ Repeatable(t))'
  BY <1>3 DEF AllExplained
<1>5. CASE t = p.request.target
  BY <1>5, <1>2 DEF Shows
<1>6. CASE t # p.request.target
  <2>1. CASE Silent(t)
    BY <2>1, <1>2, <1>6 DEF Silent
  <2>2. CASE Shows(t)
    BY <2>2, <1>2, <1>6 DEF Shows
  <2>3. CASE Repeatable(t)
    <3>1. PICK r \in plans : r.request.target = t /\ r.after = rules[t] /\ Unreceipted(r)
      BY <2>3 DEF Repeatable
    <3>2. r.request.id # p.request.id
      BY <3>1, <1>1, <1>6, RulesAssumption DEF PlanOf
    <3>3. Unreceipted(r)'
      BY <3>1, <3>2, <1>2 DEF Unreceipted
    <3> QED
      BY <3>1, <3>3 DEF Repeatable
  <2> QED
    BY <2>1, <2>2, <2>3 DEF RulesInv, AllExplained
<1> QED
  BY <1>5, <1>6

\* The receipt comes after the rule, in the command or in its repetition.
LEMMA ReceiptKeeps ==
  ASSUME RulesInv, WriteReceipt \/ \E p \in plans : Finish(p)
  PROVE  RulesInv'
<1>1. PICK p \in plans : /\ rules[p.request.target] = p.after
                         /\ ruleReceipts' = Append(ruleReceipts, p) /\ run' = None
                         /\ UNCHANGED <<rules, plans, now>>
  <2>1. CASE WriteReceipt
    BY <2>1 DEF RulesInv, RulesTypeOK, RunWritten, WriteReceipt
  <2>2. CASE \E p \in plans : Finish(p)
    <3>1. PICK p \in plans : Finish(p)
      BY <2>2
    <3>2. rules[p.request.target] = p.after
      BY <3>1 DEF Finish, Finishing, RulesInv, ClearsToNothing
    <3> QED
      BY <3>1, <3>2 DEF Finish, Applicable
  <2> QED
    BY <2>1, <2>2
<1>2. AllExplained' /\ ruleReceipts' \in Seq(PlanOf)
  BY <1>1, ReceiptExplains
<1>3. RulesTypeOK' /\ ClearsToNothing' /\ RunWritten'
  BY <1>1, <1>2 DEF RulesInv, RulesTypeOK, ClearsToNothing, RunWritten
<1>4. TwinsWarned'
  BY <1>1 DEF RulesInv, TwinsWarned, Twin, Warned
<1> QED
  BY <1>2, <1>3, <1>4 DEF RulesInv

\* A stop and the clock touch no file.
LEMMA OthersKeep ==
  ASSUME RulesInv, Stop \/ _now \/ UNCHANGED ruleVars
  PROVE  RulesInv'
<1>1. UNCHANGED <<rules, ruleReceipts, plans>> /\ run' \in {run, None} /\ now' \in {now, now + 1}
  BY DEF Stop, _now, ruleVars
<1>2. RulesTypeOK' /\ ClearsToNothing'
  BY <1>1 DEF RulesInv, RulesTypeOK, ClearsToNothing
<1>3. RunWritten'
  BY <1>1 DEF RulesInv, RunWritten, _receipt_for
<1>4. AllExplained'
  BY <1>1 DEF RulesInv, AllExplained, Silent, Shows, Repeatable, Unreceipted
<1>5. TwinsWarned'
  BY <1>1 DEF RulesInv, TwinsWarned, Twin, Warned
<1> QED
  BY <1>2, <1>3, <1>4, <1>5 DEF RulesInv

--------------------------------------------------------------------------------
(* THEOREMS *)

\* What is saved, previewed, written and receipted agrees, through every stop.
THEOREM RulesInvariance == RulesSpec => []RulesInv
<1>1. RulesInv /\ [RulesNext]_ruleVars => RulesInv'
  <2> SUFFICES ASSUME RulesInv, [RulesNext]_ruleVars PROVE RulesInv'
    OBVIOUS
  <2>1. ASSUME NEW q \in Requests, Preview(q) PROVE RulesInv'
    BY <2>1, PreviewKeeps
  <2>2. ASSUME NEW p \in plans, _write_target(p) PROVE RulesInv'
    BY <2>2, WriteKeeps
  <2>3. CASE WriteReceipt \/ \E p \in plans : Finish(p)
    BY <2>3, ReceiptKeeps
  <2>4. CASE Stop \/ _now \/ UNCHANGED ruleVars
    BY <2>4, OthersKeep
  <2> QED
    BY <2>1, <2>2, <2>3, <2>4 DEF RulesNext
<1> QED
  BY <1>1, RulesInitInv, PTL DEF RulesSpec

\* rules.py: a saved rule is what a reviewed preview said.  It is explained by its last
\* receipt or can still be repeated, and two rules that reach the same rows were shown to
\* each other, the smaller id being followed.
THEOREM SavedAsReviewed == RulesSpec => []RulesAsReviewed
<1>1. RulesInv => RulesAsReviewed
  <2> SUFFICES ASSUME RulesInv PROVE RulesAsReviewed
    OBVIOUS
  <2>1. Explained
    <3> SUFFICES ASSUME NEW t \in Targets, Silent(t) \/ Shows(t) \/ Repeatable(t)
                 PROVE  \/ LET about == {i \in DOMAIN ruleReceipts : ruleReceipts[i].request.target = t}
                           IN \/ about = {} /\ rules[t] = None
                              \/ \E i \in about : rules[t] = ruleReceipts[i].after /\ \A j \in about : j <= i
                        \/ \E p \in plans : /\ p.request.target = t /\ p.after = rules[t]
                                            /\ _receipt_for(p.request.id) = {}
      BY DEF RulesInv, AllExplained, Explained
    <3>1. CASE Silent(t)
      BY <3>1 DEF Silent
    <3>2. CASE Shows(t)
      BY <3>2 DEF Shows
    <3>3. CASE Repeatable(t)
      BY <3>3 DEF Repeatable, Unreceipted, _receipt_for
    <3> QED
      BY <3>1, <3>2, <3>3
  <2>2. TwinsWereShown
    <3> SUFFICES ASSUME NEW t \in Targets \ Suppliers, NEW u \in Targets \ Suppliers, Twin(t, u)
                 PROVE  Warned(t, u) /\ \A f \in Facts : \A s \in proposal_stamp(f) : s.id # u
      BY DEF TwinsWereShown, Twin, Warned
    <3> QED
      BY SmallerFollowed DEF RulesInv, TwinsWarned
  <2> QED
    BY <2>1, <2>2 DEF RulesAsReviewed
<1> QED
  BY <1>1, RulesInvariance, PTL
=============================================================================
