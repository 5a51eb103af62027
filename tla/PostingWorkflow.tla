------------------------- MODULE PostingWorkflow -------------------------
(***************************************************************************)
(* How a bank row becomes a ledger entry: the importer                     *)
(* (bookkeeping/ledger/importer.py) and the review queue                   *)
(* (bookkeeping/queue.py).                                                 *)
(*                                                                         *)
(* One company folder holds one SQLite ledger and several JSON files. A    *)
(* ledger write is one SQLite transaction and a JSON write is one          *)
(* os.replace, but a command performs several of them in a row and the     *)
(* process can stop between any two. Every action below ends at one        *)
(* durable write, so a Crash can fall between every two writes.            *)
(*                                                                         *)
(* Every command runs inside the exclusive entity lock, so at most one is  *)
(* in progress: cmd is the program state of the lock holder. The lock is   *)
(* an flock, which a stopped process gives up.                             *)
(*                                                                         *)
(* Caller controls (self-approval, enforced ask-first, taught categories)  *)
(* refuse a call before its first write. A refused call changes nothing,   *)
(* so it is a stuttering step here and the calls below may all succeed.    *)
(***************************************************************************)
EXTENDS Integers, FiniteSets

CONSTANTS
  Rows,            \* posted rows of the bank feed
  Spellings,       \* the spellings of one row's id: "abc" and "banksync:abc"
  Counterparties,
  CounterpartyOf,  \* normalized counterparty key of a row
  Categories,      \* accounts of the catalog
  Sessions,        \* session ids a caller may pass
  HeldRows,        \* rows above the ask-first amount, or needing an accrual treatment
  Threshold,       \* auto_post_threshold of trust-policy.json
  QueueAll,        \* queue_all_until_confirmed of trust-policy.json
  MaxRev,          \* bound: proposals written per queue item
  MaxCrashes       \* bound: process stops

SourceId == Rows \X Spellings

NoId == << >>
NoCategory == "no category"
NoSession == "no session"
NoReceipt == [sid |-> NoId]

ASSUME ConstantsAssumption ==
  /\ CounterpartyOf \in [Rows -> Counterparties]
  /\ HeldRows \subseteq Rows
  /\ NoCategory \notin Categories
  /\ Threshold \in Nat /\ QueueAll \in BOOLEAN
  /\ MaxRev \in Nat /\ MaxCrashes \in Nat

VARIABLES
  ledger,     \* entries that carry a source id
  receipts,   \* queue-finalization-intent audit events
  seen,       \* staging/seen-ids.json
  queued,     \* staging/pending-categorization.json
  items,      \* review-queue/<source id>.json
  learned,    \* learned-context/counterparties.json
  cmd,        \* the command that holds the entity lock
  crashes,    \* process stops so far
  delivered,  \* history: rows handed to an import that returned
  earned,     \* history: per counterparty, the confirmations counted since its last correction
  intended    \* history: proposals begun as related-entity proposals

files == <<seen, queued, items, learned>>
store == <<ledger, receipts>>
history == <<delivered, earned, intended>>
vars == <<ledger, receipts, seen, queued, items, learned, cmd, crashes, delivered, earned, intended>>

-----------------------------------------------------------------------------
(* Records *)

ItemStatus == {"none", "open", "confirmed", "corrected", "withdrawn"}

\* One queue file. rev stands for its timestamps: every proposal differs from
\* the one before, also when it names the same category. "none": no file.
Item == [status: ItemStatus, category: Categories \cup {NoCategory},
         kind: {"category", "related"}, rev: 0..MaxRev]
NoItem == [status |-> "none", category |-> NoCategory, kind |-> "category", rev |-> 0]

\* _finalization_receipt: the item as it was proposed (its hash), the session
\* and whether to learn. The record itself plays the part of operation_hash.
Receipt == [sid: SourceId, item: Item, session: Sessions, learn: BOOLEAN]

Entry == [sid: SourceId, category: Categories, by: {"auto", "confirm", "correct"}]

\* A learned counterparty; category is NoCategory while it has no entry.
Learned == [category: Categories \cup {NoCategory}, count: Nat, reset: BOOLEAN,
            last: Receipt \cup {NoReceipt}]
NoLearned == [category |-> NoCategory, count |-> 0, reset |-> FALSE, last |-> NoReceipt]

\* The lock holder. batch: the rows of the import; todo: rows or group members
\* not handled yet; ids: new rows so far; out: entries to post; sid, category, receipt: the item being
\* finalized; learn: whether it teaches the trust ramp.
Command == [op: {"none", "import", "confirm", "correct", "group", "related"},
            pc: {"idle", "rows", "mark", "next", "seen", "unqueue", "learn", "save", "stamp"},
            batch: SUBSET SourceId, todo: SUBSET SourceId, ids: SUBSET SourceId, out: SUBSET Entry,
            sid: SourceId \cup {NoId}, category: Categories \cup {NoCategory},
            receipt: Receipt \cup {NoReceipt}, learn: BOOLEAN, session: Sessions \cup {NoSession}]
Idle == [op |-> "none", pc |-> "idle", batch |-> {}, todo |-> {}, ids |-> {}, out |-> {},
         sid |-> NoId, category |-> NoCategory, receipt |-> NoReceipt, learn |-> FALSE,
         session |-> NoSession]

-----------------------------------------------------------------------------
(* Lookups *)

source_id_variants(s) == {s[1]} \X Spellings
PostedIds == {e.sid : e \in ledger}
source_exists(s) == source_id_variants(s) \cap PostedIds # {}
Counterparty(s) == CounterpartyOf[s[1]]

\* Wrong variant: one confirmation too few.
EligibleTooEarly(s) ==
  /\ s[1] \notin HeldRows
  /\ learned[Counterparty(s)].category # NoCategory /\ ~learned[Counterparty(s)].reset
  /\ QueueAll => learned[Counterparty(s)].count + 1 >= Threshold

\* The trust ramp: what may post with nobody looking.
eligible_for_autopost(s) ==
  LET entry == learned[Counterparty(s)] IN
  /\ s[1] \notin HeldRows
  /\ entry.category # NoCategory
  /\ ~entry.reset
  /\ QueueAll => entry.count >= Threshold

\* Wrong variant: a lookup that forgets the other spelling.
AlreadyKnownExactly(s) == s \in seen \cup cmd.ids \cup PostedIds \cup queued

\* is_seen, the batch, the ledger and the review queue, each under both spellings.
AlreadyKnown(s) == source_id_variants(s) \cap (seen \cup cmd.ids \cup PostedIds \cup queued) # {}

Init ==
  /\ ledger = {} /\ receipts = {}
  /\ seen = {} /\ queued = {}
  /\ items = [s \in SourceId |-> NoItem]
  /\ learned = [c \in Counterparties |-> NoLearned]
  /\ cmd = Idle
  /\ crashes = 0
  /\ delivered = {}
  /\ earned = [c \in Counterparties |-> {}]
  /\ intended = {}
-----------------------------------------------------------------------------
(* Import *)

\* import_transactions: take the lock, heal seen-ids.json from the ledger.
\* A trusted runner passes no categorizer (intake only), and then nothing posts.
ImportStart(batch, intakeOnly) ==
  /\ cmd.op = "none"
  /\ batch # {}
  /\ seen' = seen \cup PostedIds
  /\ cmd' = [Idle EXCEPT !.op = "import", !.pc = "rows", !.batch = batch, !.todo = batch,
                         !.learn = ~intakeOnly]
  /\ UNCHANGED <<store, queued, items, learned, crashes, history>>

NextRow(s) ==
  /\ cmd.pc = "rows"
  /\ s \in cmd.todo

ImportSkipsKnownRow(s) ==
  /\ NextRow(s)
  /\ AlreadyKnown(s)
  /\ cmd' = [cmd EXCEPT !.todo = @ \ {s}]
  /\ UNCHANGED <<store, files, crashes, history>>

\* make_categorizer named an account: the row joins the entries of this import.
\* (cmd.learn: the import has a categorizer.)
ImportCategorizesRow(s) ==
  /\ NextRow(s)
  /\ ~AlreadyKnown(s)
  /\ cmd.learn /\ eligible_for_autopost(s)
  /\ cmd' = [cmd EXCEPT !.todo = @ \ {s}, !.ids = @ \cup {s},
                        !.out = @ \cup {[sid |-> s, category |-> learned[Counterparty(s)].category,
                                         by |-> "auto"]}]
  /\ UNCHANGED <<store, files, crashes, history>>

\* Wrong variant: the row is marked seen while it waits.
QueuesAndMarksSeen(s) ==
  /\ NextRow(s) /\ ~AlreadyKnown(s)
  /\ ~(cmd.learn /\ eligible_for_autopost(s))
  /\ queued' = queued \cup {s} /\ seen' = seen \cup {s}
  /\ cmd' = [cmd EXCEPT !.todo = @ \ {s}, !.ids = @ \cup {s}]
  /\ UNCHANGED <<store, items, learned, crashes, history>>

\* No account: the row waits in pending-categorization.json, written at once.
ImportQueuesRow(s) ==
  /\ NextRow(s)
  /\ ~AlreadyKnown(s)
  /\ ~(cmd.learn /\ eligible_for_autopost(s))
  /\ queued' = queued \cup {s}
  /\ cmd' = [cmd EXCEPT !.todo = @ \ {s}, !.ids = @ \cup {s}]
  /\ UNCHANGED <<store, seen, items, learned, crashes, history>>

\* _atomic_ledger_write: every entry of the import, in one transaction.
ImportPosts ==
  /\ cmd.pc = "rows" /\ cmd.todo = {} /\ cmd.out # {}
  /\ ledger' = ledger \cup cmd.out
  /\ cmd' = [cmd EXCEPT !.pc = "mark"]
  /\ UNCHANGED <<receipts, files, crashes, history>>

ImportMarksSeen ==
  /\ cmd.pc = "mark"
  /\ seen' = seen \cup {e.sid : e \in cmd.out}
  /\ delivered' = delivered \cup cmd.batch
  /\ cmd' = Idle
  /\ UNCHANGED <<store, queued, items, learned, crashes, earned, intended>>

ImportReturns ==
  /\ cmd.pc = "rows" /\ cmd.todo = {} /\ cmd.out = {}
  /\ delivered' = delivered \cup cmd.batch
  /\ cmd' = Idle
  /\ UNCHANGED <<store, files, crashes, earned, intended>>

-----------------------------------------------------------------------------
(* Proposals *)

Proposable(s) ==
  /\ cmd.op = "none"
  /\ s \in queued
  /\ items[s].rev < MaxRev

\* _category_proposal_item replaces whatever the queue file held before.
Proposal(s, category) ==
  [status |-> "open", category |-> category, kind |-> "category", rev |-> items[s].rev + 1]

propose(s, category) ==
  /\ Proposable(s)
  /\ items' = [items EXCEPT ![s] = Proposal(s, category)]
  /\ UNCHANGED <<store, seen, queued, learned, cmd, crashes, history>>

\* propose_related_entity and propose_intercompany save a plain category
\* proposal first and mark it with its proposal type in a second write.
ProposeRelated(s, category) ==
  /\ Proposable(s)
  /\ items' = [items EXCEPT ![s] = Proposal(s, category)]
  /\ cmd' = [Idle EXCEPT !.op = "related", !.pc = "stamp", !.sid = s]
  /\ intended' = intended \cup {[sid |-> s, rev |-> items[s].rev + 1]}
  /\ UNCHANGED <<store, seen, queued, learned, crashes, delivered, earned>>

StampRelated ==
  /\ cmd.pc = "stamp"
  /\ items' = [items EXCEPT ![cmd.sid].kind = "related"]
  /\ cmd' = Idle
  /\ UNCHANGED <<store, seen, queued, learned, crashes, history>>

\* Wrong variant: withdrawing takes the staged row away.
WithdrawUnqueues(s) ==
  /\ cmd.op = "none" /\ items[s].status = "open"
  /\ items' = [items EXCEPT ![s].status = "withdrawn"]
  /\ queued' = queued \ {s}
  /\ UNCHANGED <<store, seen, learned, cmd, crashes, history>>

withdraw(s) ==
  /\ cmd.op = "none"
  /\ items[s].status = "open"
  /\ items' = [items EXCEPT ![s].status = "withdrawn"]
  /\ UNCHANGED <<store, seen, queued, learned, cmd, crashes, history>>

-----------------------------------------------------------------------------
(* Finalization *)

\* confirm_group: one lock, one session, its open members one after the other.
ConfirmGroupStart(category, session) ==
  LET members == {s \in SourceId : items[s].status = "open" /\ items[s].category = category} IN
  /\ cmd.op = "none"
  /\ members # {}
  /\ cmd' = [Idle EXCEPT !.op = "group", !.pc = "next", !.todo = members, !.session = session]
  /\ UNCHANGED <<store, files, crashes, history>>

\* confirm is called on its own, or by confirm_group for its next member.
\* A group confirms with learn=True.
Called(s, session, learn) ==
  /\ items[s].status = "open"
  /\ \/ cmd.op = "none"
     \/ cmd.pc = "next" /\ s \in cmd.todo /\ session = cmd.session /\ learn

FinalizationReceipt(s, session, learn) ==
  [sid |-> s, item |-> items[s], session |-> session, learn |-> learn]

\* What follows the ledger write, whether it happened now or before a stop.
Finalize(op, s, category, receipt, learn) ==
  cmd' = [cmd EXCEPT !.op = IF cmd.op = "group" THEN "group" ELSE op, !.pc = "seen",
                     !.todo = @ \ {s}, !.sid = s, !.category = category,
                     !.receipt = receipt, !.learn = learn]

\* Wrong variant: a related-entity item teaches its counterparty.
ConfirmPostsAndTeaches(s, session, learn) ==
  LET receipt == FinalizationReceipt(s, session, learn) IN
  /\ Called(s, session, learn)
  /\ ~source_exists(s) /\ s \in queued
  /\ ledger' = ledger \cup {[sid |-> s, category |-> items[s].category, by |-> "confirm"]}
  /\ receipts' = receipts \cup {receipt}
  /\ Finalize("confirm", s, items[s].category, receipt, learn)
  /\ UNCHANGED <<files, crashes, history>>

\* The row is not posted under any spelling and is still staged: the entry and
\* its receipt commit in one transaction.
ConfirmPosts(s, session, learn) ==
  LET receipt == FinalizationReceipt(s, session, learn) IN
  /\ Called(s, session, learn)
  /\ ~source_exists(s)
  /\ s \in queued
  /\ ledger' = ledger \cup {[sid |-> s, category |-> items[s].category, by |-> "confirm"]}
  /\ receipts' = receipts \cup {receipt}
  /\ Finalize("confirm", s, items[s].category, receipt, learn /\ items[s].kind = "category")
  /\ UNCHANGED <<files, crashes, history>>

\* Wrong variant: any receipt of the row will do.
AnyReceiptOfRow(s, session) == {r \in receipts : r.sid = s /\ r.session = session}

\* _recover_finalization: the receipt of exactly this item and session.
RecoveryReceipts(s, session) ==
  {r \in receipts : r.sid = s /\ r.item = items[s] /\ r.session = session}

\* The row is posted: finish what an earlier confirm of the same item began.
ConfirmRecovers(s, session, learn) ==
  /\ Called(s, session, learn)
  /\ source_exists(s)
  /\ \E receipt \in RecoveryReceipts(s, session) :
       Finalize("confirm", s, items[s].category, receipt,
                learn /\ receipt.learn /\ items[s].kind = "category")
  /\ UNCHANGED <<store, files, crashes, history>>

\* correct has no receipt and asks the ledger nothing: only the unique index on
\* source ids stands between a stopped correct and a second entry.
CorrectPosts(s, category) ==
  /\ cmd.op = "none"
  /\ items[s].status = "open" /\ items[s].kind = "category"
  /\ s \in queued
  /\ s \notin PostedIds
  /\ ledger' = ledger \cup {[sid |-> s, category |-> category, by |-> "correct"]}
  /\ Finalize("correct", s, category, NoReceipt, TRUE)
  /\ UNCHANGED <<receipts, files, crashes, history>>

FinalizeMarksSeen ==
  /\ cmd.pc = "seen"
  /\ seen' = seen \cup {cmd.sid}
  /\ cmd' = [cmd EXCEPT !.pc = "unqueue"]
  /\ UNCHANGED <<store, queued, items, learned, crashes, history>>

FinalizeUnqueues ==
  /\ cmd.pc = "unqueue"
  /\ queued' = queued \ {cmd.sid}
  /\ cmd' = [cmd EXCEPT !.pc = "learn"]
  /\ UNCHANGED <<store, seen, items, learned, crashes, history>>

\* Wrong variant: last_operation_hash is not compared.
LearnConfirmedAgain ==
  LET c == Counterparty(cmd.sid) IN
  /\ cmd.pc = "learn" /\ cmd.receipt # NoReceipt
  /\ IF cmd.learn
     THEN /\ learned' = [learned EXCEPT ![c] = [category |-> cmd.category, count |-> @.count + 1,
                                                reset |-> FALSE, last |-> cmd.receipt]]
          /\ earned' = [earned EXCEPT ![c] = @ \cup {cmd.receipt}]
     ELSE UNCHANGED <<learned, earned>>
  /\ cmd' = [cmd EXCEPT !.pc = "save"]
  /\ UNCHANGED <<store, seen, queued, items, crashes, delivered, intended>>

\* _update_learned_context after a confirm. last_operation_hash remembers one
\* operation of the counterparty, and only that one is not counted again.
LearnConfirmed ==
  LET c == Counterparty(cmd.sid)
      repeated == learned[c].last = cmd.receipt
  IN
  /\ cmd.pc = "learn" /\ cmd.receipt # NoReceipt
  /\ IF cmd.learn /\ ~repeated
     THEN /\ learned' = [learned EXCEPT ![c] = [category |-> cmd.category, count |-> @.count + 1,
                                                reset |-> FALSE, last |-> cmd.receipt]]
          /\ earned' = [earned EXCEPT ![c] = @ \cup {cmd.receipt}]
     ELSE UNCHANGED <<learned, earned>>
  /\ cmd' = [cmd EXCEPT !.pc = "save"]
  /\ UNCHANGED <<store, seen, queued, items, crashes, delivered, intended>>

\* Wrong variant: a correction keeps the count.
LearnCorrectedKeepsCount ==
  LET c == Counterparty(cmd.sid) IN
  /\ cmd.pc = "learn" /\ cmd.receipt = NoReceipt
  /\ learned' = [learned EXCEPT ![c].category = cmd.category, ![c].reset = TRUE]
  /\ earned' = [earned EXCEPT ![c] = {}]
  /\ cmd' = [cmd EXCEPT !.pc = "save"]
  /\ UNCHANGED <<store, seen, queued, items, crashes, delivered, intended>>

\* _update_learned_context after a correction: the ramp starts again.
LearnCorrected ==
  LET c == Counterparty(cmd.sid) IN
  /\ cmd.pc = "learn" /\ cmd.receipt = NoReceipt
  /\ learned' = [learned EXCEPT ![c].category = cmd.category, ![c].count = 0, ![c].reset = TRUE]
  /\ earned' = [earned EXCEPT ![c] = {}]
  /\ cmd' = [cmd EXCEPT !.pc = "save"]
  /\ UNCHANGED <<store, seen, queued, items, crashes, delivered, intended>>

\* Wrong variant: the command ends without the item's final save.
FinalizeSavesNothing ==
  /\ cmd.pc = "save"
  /\ cmd' = IF cmd.op = "group"
            THEN [Idle EXCEPT !.op = "group", !.pc = "next", !.todo = cmd.todo, !.session = cmd.session]
            ELSE Idle
  /\ UNCHANGED <<store, files, crashes, history>>

FinalizeSavesItem ==
  LET final == IF cmd.op = "correct" THEN "corrected" ELSE "confirmed" IN
  /\ cmd.pc = "save"
  /\ items' = [items EXCEPT ![cmd.sid].status = final, ![cmd.sid].category = cmd.category]
  /\ cmd' = IF cmd.op = "group"
            THEN [Idle EXCEPT !.op = "group", !.pc = "next", !.todo = cmd.todo, !.session = cmd.session]
            ELSE Idle
  /\ UNCHANGED <<store, seen, queued, learned, crashes, history>>

\* The group is done, or its next member is refused and the error ends it.
ConfirmGroupEnds ==
  /\ cmd.pc = "next"
  /\ \/ cmd.todo = {}
     \/ \E s \in cmd.todo : IF source_exists(s) THEN RecoveryReceipts(s, cmd.session) = {}
                                                ELSE s \notin queued
  /\ cmd' = Idle
  /\ UNCHANGED <<store, files, crashes, history>>

-----------------------------------------------------------------------------
\* The process stops, or a write of the command fails: the lock is released
\* and everything that is not on disk is gone.
Crash ==
  /\ cmd.op # "none"
  /\ crashes < MaxCrashes
  /\ crashes' = crashes + 1
  /\ cmd' = Idle
  /\ UNCHANGED <<store, files, history>>

\* The next step of the command that holds the lock.
Continue ==
  \/ \E s \in SourceId :
       ImportSkipsKnownRow(s) \/ ImportCategorizesRow(s) \/ ImportQueuesRow(s)
  \/ ImportPosts \/ ImportMarksSeen \/ ImportReturns
  \/ StampRelated
  \/ FinalizeMarksSeen \/ FinalizeUnqueues
  \/ LearnConfirmed \/ LearnCorrected \/ FinalizeSavesItem
  \/ ConfirmGroupEnds

\* confirm, called by a person or by the group in progress.
Confirm(s) ==
  \E session \in Sessions, learn \in BOOLEAN :
    ConfirmPosts(s, session, learn) \/ ConfirmRecovers(s, session, learn)

Next ==
  \/ Continue
  \/ \E batch \in SUBSET SourceId, intakeOnly \in BOOLEAN : ImportStart(batch, intakeOnly)
  \/ \E s \in SourceId, category \in Categories :
       propose(s, category) \/ ProposeRelated(s, category) \/ CorrectPosts(s, category)
  \/ \E s \in SourceId : withdraw(s) \/ Confirm(s)
  \/ \E category \in Categories, session \in Sessions : ConfirmGroupStart(category, session)
  \/ Crash

Spec == Init /\ [][Next]_vars
-----------------------------------------------------------------------------
(* Properties *)

TypeOK ==
  /\ ledger \subseteq Entry /\ receipts \subseteq Receipt
  /\ seen \subseteq SourceId /\ queued \subseteq SourceId
  /\ items \in [SourceId -> Item] /\ learned \in [Counterparties -> Learned]
  /\ cmd \in Command /\ crashes \in 0..MaxCrashes
  /\ delivered \subseteq SourceId /\ earned \in [Counterparties -> SUBSET Receipt]
  /\ intended \subseteq [sid: SourceId, rev: 0..MaxRev]

\* A bank row is posted at most once, whichever spelling of its id it arrived
\* under and however many imports, confirms, corrections and restarts handled
\* it. The unique index of the store only compares equal strings; the rest is
\* the work of every duplicate lookup (source_id_variants).
RowPostedOnce == \A e, f \in ledger : e.sid[1] = f.sid[1] => e = f

\* A row of an import that returned is in the ledger or waits for review: no
\* stop between the ledger commit, seen-ids.json and the queue loses it.
NoRowLost == \A s \in delivered : source_id_variants(s) \cap (PostedIds \cup queued) # {}

\* seen-ids.json names posted rows only. A row marked seen before its entry
\* committed would be skipped by every later import.
SeenIsPosted == seen \subseteq PostedIds

\* Review holds a row under one spelling, and never a row the importer posted:
\* a queued row that is posted was posted from the queue itself.
ReviewHoldsEachRowOnce ==
  \A s \in queued :
    /\ queued \cap source_id_variants(s) = {s}
    /\ \A e \in ledger : e.sid[1] = s[1] => e.sid = s /\ e.by # "auto"

\* A queue item that says how it was decided agrees with the ledger: its row is
\* posted, and to the category the item shows.
FinalItemMatchesLedger ==
  \A s \in SourceId : items[s].status \in {"confirmed", "corrected"} =>
    \E e \in ledger : e.sid = s /\ e.category = items[s].category

\* last_operation_hash "prevents duplicate learning during recovery": the trust ramp
\* counts every confirmation, a single one once however often it is stopped and
\* repeated, and never more too many than there were stops. Nothing posts unattended
\* before the owner confirmed the counterparty auto_post_threshold times since its
\* last correction, less those stops.
TrustIsEarned ==
  [][/\ \A c \in Counterparties :
          /\ learned'[c].count \in Cardinality(earned'[c])..Cardinality(earned'[c]) + crashes'
          /\ Cardinality(earned'[c]) <= 1 => learned'[c].count = Cardinality(earned'[c])
     /\ \A e \in ledger' \ ledger : e.by = "auto" /\ QueueAll =>
          Cardinality(earned[Counterparty(e.sid)]) + crashes >= Threshold]_vars

\* "Related-entity policies remain explicit for every item": what was proposed
\* as a related-entity item never teaches its counterparty a category.
RelatedNeverLearned ==
  \A c \in Counterparties : \A r \in earned[c] : [sid |-> r.sid, rev |-> r.item.rev] \notin intended

\* The owner repeats a confirm that stopped part way.
RetryConfirm(s) == \E session \in Sessions : ConfirmRecovers(s, session, TRUE)

FairSpec == Spec /\ WF_vars(Continue) /\ \A s \in SourceId : SF_vars(RetryConfirm(s))

\* The entry of a confirm is in the ledger while its item still asks for review.
Unfinished(s) == \E r \in receipts : r.sid = s /\ r.item = items[s]

\* A confirm that reached the ledger is finished by repeating it, wherever it
\* stopped, unless the item was proposed again or withdrawn in between.
ConfirmedPostingIsFinished == \A s \in SourceId : Unfinished(s) ~> ~Unfinished(s)
=============================================================================
