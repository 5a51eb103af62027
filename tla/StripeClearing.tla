--------------------------- MODULE StripeClearing ---------------------------
(* Balance transactions of a payment processor on their way into the books: a   *)
(* host captures them with their authority graph, stages them, approves a plan, *)
(* and applies it in one ledger transaction, after which the rows leave Review. *)
(* The plan binds the ledger, the evidence and the policy; an apply that        *)
(* stopped behind its commit is finished by a later one, from its receipt.      *)
(* Payouts go through a transit account, which the bank deposit closes. Owners  *)
(* confirm and reverse rows meanwhile, and an invoice import may claim them.    *)
EXTENDS Integers, FiniteSets

CONSTANTS Movements,   \* balance transactions, numbered in the order of their ids
          KindOf,      \* of a movement: "charge", "payout" or "zero" (a payout of nothing)
          Deposits,    \* rows of the bank feed that may be the arrival of a payout
          Resembles,   \* rows that look like the open receivable (its amount, or its words)
          AccountRoles, \* how many accounts a policy names
          Older,       \* charges that an engine without receipts posted before
          Budget       \* how many changes of evidence or policy, stops, and commands of owners in all

ASSUME ClearingAssumption ==
  /\ Movements \cap Deposits = {}
  /\ Older \subseteq {m \in Movements : KindOf[m] = "charge"}

VARIABLES opened, mapping, policy, captured, books, saved, pending, seen, owned, claims, invoice,
          receipts, approved, run, used

clearingVars == <<opened, mapping, policy, captured, books, saved, pending, seen, owned, claims, invoice,
          receipts, approved, run, used>>
hostVars  == <<opened, mapping, policy, captured>>
ledgerVars == <<books, saved, claims, invoice, receipts>>
reviewVars == <<pending, seen, owned>>

NoPlan == [none |-> TRUE]
NoPolicy == [version |-> 0, enabled |-> FALSE]  \* of an entry that no policy posted
NoRun   == [step |-> "idle"]
Graphs == {"pending", "available", "ambiguous"}

Over(g, f)    == [k \in DOMAIN g \cup DOMAIN f |-> IF k \in DOMAIN g THEN g[k] ELSE f[k]]
Put(f, k, v)  == Over([x \in {k} |-> v], f)
Without(f, S) == [k \in DOMAIN f \ S |-> f[k]]
Free          == run.step = "idle"
Spend         == used < Budget /\ used' = used + 1

Live(s)   == s \in DOMAIN books /\ books[s].live
Reversed  == {s \in DOMAIN books : ~books[s].live}
Posted    == DOMAIN books \cup seen
Treatment(s) == invoice = "open" /\ s \in Resembles
Fact(e)   == [by |-> e.by, fin |-> e.fin, policy |-> e.policy, pays |-> e.pays]
-----------------------------------------------------------------------------
(* The plan *)

EffectSaved(m) == m \in DOMAIN saved /\ saved[m].effect # "none"
KnownFin(m)    == IF m \in DOMAIN pending THEN pending[m].fin
                  ELSE IF m \in DOMAIN saved THEN saved[m].fin ELSE captured[m].fin

SettledById(m) ==
  IF m \in DOMAIN claims
  THEN IF claims[m] = captured[m].fin /\ Live(m) THEN "invoice_settlement_recorded"
       ELSE "changed_invoice_payment_source"
  ELSE IF m \in Reversed THEN "reversed"
  ELSE IF EffectSaved(m) THEN "recorded"
  ELSE IF m \in Posted THEN "already_posted" ELSE "new"

\* What owns a movement already, in the order in which the plan asks.
Settled(m) ==
  IF m \in DOMAIN claims
  THEN IF claims[m] = captured[m].fin /\ Live(m) THEN "invoice_settlement_recorded"
       ELSE "changed_invoice_payment_source"
  ELSE IF m \in Reversed THEN "reversed"
  ELSE IF KnownFin(m) # captured[m].fin THEN "changed_source"
  ELSE IF EffectSaved(m)
  THEN IF saved[m].effect = captured[m].graph THEN "recorded" ELSE "changed_no_effect_evidence"
  ELSE IF m \in Posted THEN "already_posted" ELSE "new"

Holds(m) == \/ ~policy.enabled \/ m \in owned \/ Treatment(m)
            \/ captured[m].graph = "ambiguous"
            \/ KindOf[m] = "zero" /\ (m \in DOMAIN saved \/ captured[m].graph # "available")

Verdict(m) ==
  IF Settled(m) # "new" THEN Settled(m)
  ELSE IF Holds(m) THEN "held"
  ELSE IF KindOf[m] = "zero" THEN "no_effect" ELSE "post"

\* The deposit that the host bound to a payout: its arrival, already there, or a conflict.
Arrival(p, d) ==
  IF d \in Posted
  THEN IF Live(d) /\ books[d].by = "stripe" /\ books[d].pays = p THEN "already_posted" ELSE "conflict"
  ELSE IF d \notin DOMAIN pending \/ Treatment(d) \/ d \in owned \/ ~policy.enabled THEN "conflict" ELSE "post"

AlreadyApplied(p) == p \in Posted \ Reversed /\ p \in DOMAIN saved /\ saved[p].fin = captured[p].fin

\* A deposit that was booked otherwise holds the whole batch: its detail must not come on top of it.
Plan(ms, bound) ==
  LET verdict  == [m \in ms |-> Verdict(m)]
      posts    == {m \in ms : verdict[m] = "post"}
      matched  == {b \in bound : b[1] \in ms /\ (b[1] \in posts \/ AlreadyApplied(b[1]))}
      conflict == \E b \in matched : Arrival(b[1], b[2]) = "conflict"
      arriving == {b \in matched : Arrival(b[1], b[2]) = "post"}
  IN [none |-> FALSE, movements |-> ms, bound |-> bound, verdict |-> verdict, policy |-> policy,
      actions  |-> IF conflict THEN {} ELSE posts \cup {b[2] : b \in arriving},
      arrived  |-> {b[2] : b \in {x \in matched : Arrival(x[1], x[2]) = "already_posted"}},
      captures |-> [s \in ms \cup {b[2] : b \in bound} |->
                      IF s \in ms THEN <<captured[s]>>
                      ELSE LET b == CHOOSE x \in bound : x[2] = s IN <<captured[b[1]], b>>],
      ledger   |-> <<books, saved, claims, invoice>>]

Again == Plan(approved.movements, approved.bound)
Plannable == mapping = "clearing"
Batches == {ms \in SUBSET DOMAIN captured :
              ms # {} /\ \A m \in DOMAIN captured : (\E x, y \in ms : x <= m /\ m <= y) => m \in ms}
Bindings(ms) ==
  {b \in SUBSET ({m \in ms : KindOf[m] = "payout"} \X Deposits) :
     \A x, y \in b : (x[1] = y[1] \/ x[2] = y[2]) => x = y}

\* stripe_stage: the movements nothing owns yet become rows; the plan is the one the host approves.
StageRows(ms, bound) ==
  LET new == {m \in ms : Settled(m) = "new"} \ (Posted \cup DOMAIN pending) IN
  /\ run.step = "idle" /\ Plannable
  /\ pending' = [s \in DOMAIN pending \cup new |->
                   IF s \in new THEN [fin |-> captured[s].fin, hold |-> FALSE] ELSE pending[s]]
  /\ approved' = Plan(ms, bound)
  /\ UNCHANGED <<hostVars, ledgerVars, seen, owned, run, used>>
-----------------------------------------------------------------------------
(* Applying the approved plan *)

Staged(plan) == plan.actions \subseteq DOMAIN pending
Current == Plannable /\ Again = approved

ReceiptsOf(s) == {r \in receipts : r.policy = approved.policy /\ s \in DOMAIN r.sources}

\* A receipt proves a posted row when capture, row, entry and saved source are the ones it names.
Exact(s, r) ==
  LET src == r.sources[s] IN
  /\ src.capture = approved.captures[s]
  /\ pending[s].fin = src.row
  /\ s \in DOMAIN books /\ Fact(books[s]) = src.entry
  /\ s \in DOMAIN saved /\ saved[s].fin = src.entry.fin

\* An entry without a receipt is one an older engine posted under the same policy.
PostedBefore(s) ==
  /\ s \in DOMAIN books /\ books[s].by = "stripe" /\ books[s].policy = approved.policy
  /\ s \in DOMAIN saved /\ books[s].fin = saved[s].fin /\ pending[s].fin = saved[s].fin

ProvenByEntry(s) == s \in DOMAIN books
Proven(s)   == IF ReceiptsOf(s) = {} THEN PostedBefore(s) ELSE \A r \in ReceiptsOf(s) : Exact(s, r)
Unfinished  == DOMAIN pending \cap (approved.arrived \cup
                 {m \in approved.movements : approved.verdict[m] = "already_posted"})

StartApplyAsApproved ==
  /\ Free /\ ~approved.none /\ Staged(approved)
  /\ run' = [step |-> "commit", recovered |-> {s \in Unfinished : Proven(s)}]
  /\ pending' = [s \in DOMAIN pending |->
                   IF s \in Unfinished /\ ~Proven(s) THEN [pending[s] EXCEPT !.hold = TRUE] ELSE pending[s]]
  /\ UNCHANGED <<hostVars, ledgerVars, seen, owned, approved, used>>

\* Under the lock the plan is made again and must be the approved one (the same check in front of the
\* lock refuses no more); rows whose posting cannot be proven are held for a person.
StartApply ==
  /\ Free /\ ~approved.none /\ Current /\ Staged(approved)
  /\ run' = [step |-> "commit", recovered |-> {s \in Unfinished : Proven(s)}]
  /\ pending' = [s \in DOMAIN pending |->
                   IF s \in Unfinished /\ ~Proven(s) THEN [pending[s] EXCEPT !.hold = TRUE] ELSE pending[s]]
  /\ UNCHANGED <<hostVars, ledgerVars, seen, owned, approved, used>>

Pays(s)   == IF s \in Deposits THEN (CHOOSE b \in approved.bound : b[2] = s)[1] ELSE 0
Fin(s)    == IF s \in Deposits THEN pending[s].fin ELSE captured[s].fin
Entry(s)  == [by |-> "stripe", fin |-> Fin(s), policy |-> approved.policy, pays |-> Pays(s), live |-> TRUE]
Receipt   == [policy |-> approved.policy,
              sources |-> [s \in approved.actions |->
                 [capture |-> approved.captures[s], row |-> pending[s].fin, entry |-> Fact(Entry(s))]]]

\* The entries, their sources and the receipt are one transaction.
Commit ==
  /\ run.step = "commit"
  /\ run' = [run EXCEPT !.step = "effects"]
  /\ books' = Over([s \in approved.actions |-> Entry(s)], books)
  /\ saved' = Over([s \in approved.actions |-> [fin |-> Fin(s), effect |-> "none"]], saved)
  /\ receipts' = IF approved.actions = {} THEN receipts ELSE receipts \cup {Receipt}
  /\ UNCHANGED <<hostVars, claims, invoice, reviewVars, approved, used>>

WithoutEffect == {m \in approved.movements : approved.verdict[m] = "no_effect"}
RecordEffects ==
  /\ run.step = "effects"
  /\ run' = [run EXCEPT !.step = "seen"]
  /\ saved' = Over([m \in WithoutEffect |-> [fin |-> captured[m].fin, effect |-> captured[m].graph]], saved)
  /\ UNCHANGED <<hostVars, books, claims, invoice, receipts, reviewVars, approved, used>>

Handled == run.recovered \cup approved.actions \cup
             {m \in approved.movements : approved.verdict[m] \in {"no_effect", "recorded"}}
MarkSeen ==
  /\ run.step = "seen"
  /\ run' = [run EXCEPT !.step = "remove"]
  /\ seen' = seen \cup Handled
  /\ UNCHANGED <<hostVars, ledgerVars, pending, owned, approved, used>>

RemoveRows ==
  /\ run.step = "remove"
  /\ run' = NoRun /\ approved' = NoPlan
  /\ pending' = Without(pending, Handled)
  /\ UNCHANGED <<hostVars, ledgerVars, seen, owned, used>>

ApplyStops ==
  /\ run.step # "idle" /\ Spend
  /\ run' = NoRun
  /\ UNCHANGED <<hostVars, ledgerVars, reviewVars, approved>>

\* stripe_dismiss_held: a person has checked the live entry of a held row that no open item names.
Dismiss(s) ==
  /\ Free /\ s \in DOMAIN pending /\ pending[s].hold /\ Live(s) /\ s \notin owned
  /\ seen' = seen \cup {s} /\ pending' = Without(pending, {s})
  /\ UNCHANGED <<hostVars, ledgerVars, owned, approved, run, used>>
-----------------------------------------------------------------------------
(* The host and the provider *)

\* stripe_prepare opens the accounts one by one; repeated, it goes on where it stopped.
Prepare ==
  /\ opened < AccountRoles /\ opened' = opened + 1
  /\ UNCHANGED <<mapping, policy, captured, ledgerVars, reviewVars, approved, run, used>>

\* stripe_configure: no other feed may be mapped to a processor account.
Configure ==
  /\ opened = AccountRoles /\ mapping \in {"none", "moved"} /\ Free
  /\ mapping' = "clearing"
  /\ UNCHANGED <<opened, policy, captured, ledgerVars, reviewVars, approved, run, used>>

MoveMapping ==
  /\ mapping = "clearing" /\ Free /\ Spend /\ mapping' = "moved"
  /\ UNCHANGED <<opened, policy, captured, ledgerVars, reviewVars, approved, run>>

ChangePolicy ==
  /\ Free /\ Spend
  /\ \E on \in BOOLEAN : policy' = [version |-> policy.version + 1, enabled |-> on]
  /\ UNCHANGED <<opened, mapping, captured, ledgerVars, reviewVars, approved, run>>

Capture(m) ==
  /\ m \notin DOMAIN captured /\ Free /\ mapping # "none"
  /\ captured' = Put(captured, m, [fin |-> 1, graph |-> IF KindOf[m] = "zero" THEN "available" ELSE "pending"])
  /\ UNCHANGED <<opened, mapping, policy, ledgerVars, reviewVars, approved, run, used>>

\* The next capture shows a movement with another status, other related objects, or other money.
Recapture(m) ==
  /\ m \in DOMAIN captured /\ Free /\ Spend
  /\ \/ captured' = [captured EXCEPT ![m].fin = 2]
     \/ \E g \in Graphs \ {captured[m].graph} : captured' = [captured EXCEPT ![m].graph = g]
  /\ UNCHANGED <<opened, mapping, policy, ledgerVars, reviewVars, approved, run>>

BankArrives(d) ==
  /\ Free /\ mapping # "none" /\ d \notin Posted \cup DOMAIN pending
  /\ pending' = Put(pending, d, [fin |-> 1, hold |-> FALSE])
  /\ UNCHANGED <<hostVars, ledgerVars, seen, owned, approved, run, used>>
-----------------------------------------------------------------------------
(* Owners: the review queue, the ledger commands, and the invoices *)

Propose(s) ==
  /\ Free /\ s \in DOMAIN pending \ owned /\ Spend /\ owned' = owned \cup {s}
  /\ UNCHANGED <<hostVars, ledgerVars, pending, seen, approved, run>>

Withdraw(s) ==
  /\ Free /\ s \in owned /\ owned' = owned \ {s}
  /\ UNCHANGED <<hostVars, ledgerVars, pending, seen, approved, run, used>>

\* A confirm books the row as the owner says; it may stop before the row leaves Review.
Confirm(s) ==
  /\ Free /\ s \in owned \cap DOMAIN pending /\ s \notin DOMAIN books /\ ~Treatment(s)
  /\ s \in Movements => KindOf[s] # "zero"
  /\ books' = Put(books, s, [by |-> "owner", fin |-> pending[s].fin, policy |-> NoPolicy, pays |-> 0, live |-> TRUE])
  /\ saved' = Put(saved, s, [fin |-> pending[s].fin, effect |-> "none"])
  /\ \/ /\ pending' = Without(pending, {s}) /\ seen' = seen \cup {s} /\ owned' = owned \ {s} /\ UNCHANGED used
     \/ /\ Spend /\ UNCHANGED reviewVars
  /\ UNCHANGED <<hostVars, claims, invoice, receipts, approved, run>>

\* Repeated, it finishes, unless the row was held since: the hold is part of what its receipt names.
ConfirmAgain(s) ==
  /\ Free /\ s \in owned \cap DOMAIN pending /\ s \in DOMAIN books /\ books[s].by = "owner" /\ ~pending[s].hold
  /\ pending' = Without(pending, {s}) /\ seen' = seen \cup {s} /\ owned' = owned \ {s}
  /\ UNCHANGED <<hostVars, ledgerVars, approved, run, used>>

Reverse(s) ==
  /\ Free /\ Live(s) /\ Spend
  /\ books' = [books EXCEPT ![s].live = FALSE]
  /\ UNCHANGED <<hostVars, saved, claims, invoice, receipts, reviewVars, approved, run>>

IssueInvoice ==
  /\ Free /\ invoice = "none" /\ Spend /\ invoice' = "open"
  /\ UNCHANGED <<hostVars, books, saved, claims, receipts, reviewVars, approved, run>>

\* An invoice import settles the receivable with a charge: a new entry under the charge's id, or its live entry.
ImportPayment(m) ==
  /\ Free /\ invoice = "open" /\ m \in DOMAIN captured /\ KindOf[m] = "charge"
  /\ m \in DOMAIN books => Live(m)
  /\ invoice' = "settled" /\ claims' = Put(claims, m, captured[m].fin)
  /\ IF m \in DOMAIN books THEN UNCHANGED <<books, saved>>
     ELSE /\ books' = Put(books, m, [by |-> "invoice", fin |-> captured[m].fin, policy |-> NoPolicy, pays |-> 0, live |-> TRUE])
          /\ saved' = Put(saved, m, [fin |-> captured[m].fin, effect |-> "none"])
  /\ pending' = Without(pending, {m}) /\ seen' = seen \cup {m} /\ owned' = owned \ {m}
  /\ UNCHANGED <<hostVars, receipts, approved, run, used>>
-----------------------------------------------------------------------------
Sources == Movements \cup Deposits

NewBooks(old) ==
  /\ opened = 0 /\ mapping = "none" /\ policy = [version |-> 1, enabled |-> TRUE]
  /\ captured = [m \in old |-> [fin |-> 1, graph |-> "available"]]
  /\ books = [m \in old |-> [by |-> "stripe", fin |-> 1, policy |-> policy, pays |-> 0, live |-> TRUE]]
  /\ saved = [m \in old |-> [fin |-> 1, effect |-> "none"]]
  /\ pending = [m \in old |-> [fin |-> 1, hold |-> FALSE]]
  /\ seen = {} /\ owned = {} /\ claims = [m \in {} |-> 0] /\ invoice = "none"
  /\ receipts = {} /\ approved = NoPlan /\ run = NoRun /\ used = 0

\* The books may hold an entry of an engine that wrote no receipts and stopped before its cleanup.
ClearingInit == \E old \in SUBSET Older : NewBooks(old)

ClearingNext ==
  \/ Prepare \/ Configure \/ MoveMapping \/ ChangePolicy
  \/ \E m \in Movements : Capture(m) \/ Recapture(m) \/ ImportPayment(m)
  \/ \E d \in Deposits : BankArrives(d)
  \/ \E ms \in Batches : \E bound \in Bindings(ms) : StageRows(ms, bound)
  \/ StartApply \/ Commit \/ RecordEffects \/ MarkSeen \/ RemoveRows \/ ApplyStops
  \/ \E s \in Sources : Dismiss(s) \/ Propose(s) \/ Withdraw(s) \/ Confirm(s) \/ ConfirmAgain(s) \/ Reverse(s)
  \/ IssueInvoice

ClearingSpec == ClearingInit /\ [][ClearingNext]_clearingVars
-----------------------------------------------------------------------------
\* A row leaves Review only when the books have, in force or reversed, an entry made of
\* these very facts, when it is a payout of nothing that was recorded as such, or because
\* a person dismissed it. An apply removes only rows that an apply posted, and none whose
\* evidence changed since under the same policy.
LeavesBooked(s) ==
  \/ /\ s \in DOMAIN books' /\ books'[s].fin = pending[s].fin
     /\ ~Free => /\ books[s].by = "stripe"
                 /\ \A r \in ReceiptsOf(s) : r.sources[s].capture = approved.captures[s]
  \/ s \in DOMAIN saved' /\ saved'[s].effect # "none"
  \/ s \in DOMAIN claims'
  \/ pending[s].hold /\ Free

\* What an apply posts was claimed by no invoice, and where the host bound a deposit to
\* a payout that is in the books as captured, no owner has booked that deposit: the same
\* money is not booked as income and again as its parts. A deposit closes a payout in the books.
PostsOnce(s) ==
  /\ s \notin DOMAIN claims
  /\ \A b \in approved.bound :
       (b[1] \in DOMAIN books' /\ books'[b[1]].live /\ books'[b[1]].fin = captured[b[1]].fin /\ b[2] \in DOMAIN books)
         => Live(b[2]) /\ books[b[2]].pays = b[1]
  /\ s \in Deposits => books'[s].pays \in DOMAIN books'

\* Rows of a payment processor leave Review only booked as they are, and no movement is
\* booked twice: as its parts and again as an invoice payment or as a bank deposit.
RowsAreSettledOnce ==
  [][/\ \A s \in DOMAIN pending \ DOMAIN pending' : LeavesBooked(s)
     /\ \A s \in DOMAIN books' \ DOMAIN books : books'[s].by = "stripe" => PostsOnce(s)]_clearingVars
=============================================================================
