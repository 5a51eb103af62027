--------------------------- MODULE AccrualSchedules ---------------------------
(* Recognition schedules of accrual books: prepaid expenses, deferred revenue   *)
(* and depreciation (accrual/schedules.py), the support that accrual/reports.py *)
(* reconstructs for any past day, and the local period locks.                   *)
(*                                                                             *)
(* A preview is bound to the ledger it was compiled from, and its effects, its *)
(* receipt and its records are one transaction, so that preview and apply are   *)
(* one step here (OpenItems has the stale preview and the replay of a document; *)
(* every request of this module cites a document of its own).  Money is in      *)
(* cents, a date is a day number, a month is named by its first day.            *)
EXTENDS Integers, Sequences, FiniteSets, FiniteSetsExt, Functions

CONSTANTS
  Schedules,    \* ids of schedules
  LastDay,      \* days are 1..LastDay
  MonthStarts,  \* the first days of the months
  Terms,        \* set of [kind, method, first, last]: what may be scheduled
  CustomPlans,  \* installment lists of method custom: functions of days to amounts
  Amount,       \* cents of the funding payment
  Salvages,     \* salvage values of depreciation
  PaidOn,       \* day of the posted payment or opening balance
  PaidLines,    \* lines of a payment that stands in the books, or <<>> for none
  Dates,        \* days a caller may date an operation
  Refunds,      \* cents of a refund, and of its recognized part
  MaxChanges,   \* bound on the changes of one schedule
  MaxReopens    \* bound on reopening a period

Days      == 1..LastDay
Kinds     == {"prepaid", "deferred", "depreciation"}
Methods   == {"actual_day", "equal_month", "custom"}

\* Amounts of money are positive, salvage values and parts of a refund may be zero, and
\* the payment that stands in the books is of the amount, on one account and the bank.
ASSUME SchedAssumption ==
  /\ LastDay \in Nat /\ 1 \in MonthStarts /\ MonthStarts \subseteq Days
  /\ Terms \subseteq [kind : Kinds, method : Methods, first : Days, last : Days]
  /\ \A plan \in CustomPlans : DOMAIN plan \subseteq Days /\ plan \in [DOMAIN plan -> Nat \ {0}]
  /\ Amount \in Nat \ {0} /\ Salvages \subseteq Nat /\ Refunds \subseteq Nat
  /\ PaidOn \in Days /\ Dates \subseteq Days /\ MaxChanges \in Nat /\ MaxReopens \in Nat
  /\ IsFiniteSet(Schedules)
  /\ \A p \in PaidLines : \A a \in DOMAIN p : p[a] \in {Amount, -Amount}

Month(d)  == Max({m \in MonthStarts : m <= d})
MonthEnd(m) == Min({LastDay} \union {n - 1 : n \in {x \in MonthStarts : x > m}})

VARIABLES
  schedules,   \* [subset of Schedules -> record with its history of changes]
  schedAllocs, \* [id -> [schedule, date, amount, recognized]]: accrual_allocations
  schedLedger, \* [id -> [date, lines]]
  closed,      \* months closed by a local period close
  reopens

schedVars == <<schedules, schedAllocs, schedLedger, closed, reopens>>

\* f on its domain and g elsewhere: what a transaction writes, over what there was.
Over(f, g) == [x \in DOMAIN f \union DOMAIN g |-> IF x \in DOMAIN f THEN f[x] ELSE g[x]]

--------------------------------------------------------------------------------
NormalSign(r)    == IF r.kind = "deferred" THEN -1 ELSE 1                \* _normal_sign
ControlOf(r) == CASE r.kind = "prepaid" -> "Prepaid"
                [] r.kind = "deferred" -> "Deferred"
                [] r.kind = "depreciation" -> "Equipment"
Category(r)      == IF r.kind = "deferred" THEN "Income" ELSE "Expense"
CreditControl(r) == ControlOf(r)
CreditAccount(r) == IF r.kind = "depreciation" THEN "Accumulated" ELSE ControlOf(r)
ScheduleAccounts == {"Prepaid", "Deferred", "Equipment", "Accumulated", "Income", "Expense",
             "Depreciation", "Bank"}

Lines(f)  == [a \in ScheduleAccounts |-> IF a \in DOMAIN f THEN f[a] ELSE 0]
Two(a, n, b) == Lines([x \in {a, b} |-> IF x = a THEN n ELSE -n])     \* _entry

(* --- installments ------------------------------------------------------------ *)
(* The service from recognition_start is cut at the months.  Each part gets its *)
(* floor share of the base, the last one the residual; a part of no cents is    *)
(* left out.                                                                    *)
Segments(r)      == {d \in r.start..r.last : d = r.start \/ d \in MonthStarts}
SegmentEnd(r, d) == Min({r.last, MonthEnd(Month(d))})
Weight(r, d)     == IF r.method = "equal_month" THEN 1 ELSE SegmentEnd(r, d) - d + 1
Denominator(r)   == IF r.method = "equal_month" THEN Cardinality(Segments(r)) ELSE r.last - r.start + 1
Share(r, d)      == (r.base * Weight(r, d)) \div Denominator(r)
CentsByShare(r, d) == Share(r, d)
Cents(r, d) ==
  IF SegmentEnd(r, d) < r.last THEN Share(r, d)
  ELSE r.base - SumFunction([x \in Segments(r) \ {d} |-> Share(r, x)])

Installments(r) ==
  IF r.method = "custom"
  THEN {[date |-> d, from |-> d, amount |-> r.plan[d]] : d \in {x \in DOMAIN r.plan : x >= r.start}}
  ELSE {[date |-> SegmentEnd(r, d), from |-> d, amount |-> Cents(r, d)] :
          d \in {x \in Segments(r) : Cents(r, x) # 0}}

WholeMonths(first, last) == first \in MonthStarts /\ last \in {MonthEnd(m) : m \in MonthStarts}

(* _check_service: the dates fit the method, and a custom list adds up, both as *)
(* a whole and from recognition_start on.                                       *)
CheckService(method, first, last, start, plan, total, remaining) ==
  /\ first <= start /\ start <= last
  /\ method = "equal_month" => WholeMonths(first, last) /\ start \in MonthStarts
  /\ IF method = "custom"
     THEN /\ plan # <<>> /\ DOMAIN plan \subseteq first..last
          /\ SumFunction(plan) = total
          /\ SumFunctionOnSet(plan, {d \in DOMAIN plan : d >= start}) = remaining
     ELSE plan = <<>>

(* _check_dates: nothing is dated in a closed month. *)
OpenForSome(D) == \E d \in D : Month(d) \notin closed
OpenDates(D) == \A d \in D : Month(d) \notin closed

Id(kind, s, n, d) == <<kind, s, n, d>>
Posted(e)    == Over(e, schedLedger)
Allocated(a) == Over(a, schedAllocs)
Saved(R)     == Over(R, schedules)

(* --- _schedule_effect and _origin_effect -------------------------------------- *)
Planned(q) ==
  LET base == Amount - q.salvage IN
  /\ base > 0 /\ q.recognized < base
  /\ CheckService(q.terms.method, q.terms.first, q.terms.last, q.start, q.plan,
                  base, base - q.recognized)

FromPayment(mode) ==    \* a new or an existing payment: nothing is recognized yet
  {q \in UNION {[id : Schedules, terms : {w}, plan : CustomPlans \union {<<>>}, recognized : {0},
                 salvage : IF w.kind = "depreciation" THEN Salvages ELSE {0}, start : {w.first},
                 mode : {mode}, date : Dates \union {PaidOn}] : w \in Terms} : Planned(q)}
Opened ==         \* an opening balance, part of it recognized earlier; no carried fixed assets
  {q \in UNION {[id : Schedules, terms : {w}, plan : CustomPlans \union {<<>>},
                 recognized : {0} \union Refunds, salvage : {0}, start : w.first..w.last,
                 mode : {"opening"}, date : {PaidOn}] :
                w \in {x \in Terms : x.kind # "depreciation"}} : Planned(q)}
ScheduleRequests(mode) == IF mode = "opening" THEN Opened ELSE FromPayment(mode)

Record(q) ==
  LET base == Amount - q.salvage - q.recognized IN
  [kind |-> q.terms.kind, method |-> q.terms.method, plan |-> q.plan,
   first |-> q.terms.first, last |-> q.terms.last, start |-> q.start,
   base |-> base, remaining |-> base, recognized |-> q.recognized, initial |-> q.recognized,
   refunded |-> 0, recognizedRefund |-> 0, ended |-> 0, transferred |-> 0,
   reserved |-> IF q.mode = "opening" THEN base ELSE Amount,
   originDate |-> IF q.mode = "new" THEN q.date ELSE PaidOn, effectiveFrom |-> 0,
   supersedes |-> {}, generation |-> 0, status |-> "active", history |-> <<>>]

(* The payment, when the books already hold it: a posting to the control account *)
(* of the schedule, or to the category it is reclassified from.                  *)
Payment == Id("payment", 0, 0, 0)
Paid(a) == IF Payment \in DOMAIN schedLedger THEN schedLedger[Payment].lines[a] ELSE 0
OnControl(r)  == Paid(ControlOf(r)) = NormalSign(r) * Amount
OnCategory(r) == Paid(Category(r)) = NormalSign(r) * Amount
FundedOn(a) == {s \in DOMAIN schedules : schedules[s].supersedes = {} /\ ControlOf(schedules[s]) = a}
ReservedBy(a) == SumFunction([s \in FundedOn(a) |-> schedules[s].reserved])

Offered(mode) ==
  CASE mode = "new" -> Payment \notin DOMAIN schedLedger
    [] mode = "existing" -> Payment \in DOMAIN schedLedger /\ DOMAIN schedules = {}
    [] mode = "opening" -> Payment \in DOMAIN schedLedger /\ DOMAIN schedules # Schedules
CanFund(q, r) ==
  CASE q.mode = "new"      -> TRUE
    [] q.mode = "existing" -> /\ q.date >= PaidOn
                              /\ IF OnControl(r) THEN q.date = PaidOn ELSE OnCategory(r)
    [] q.mode = "opening"  -> ReservedBy(ControlOf(r)) + r.remaining <= NormalSign(r) * Paid(ControlOf(r))

Funding(q, r) ==
  CASE q.mode = "new" ->
         [x \in {Payment} |-> [date |-> q.date, lines |-> Two(ControlOf(r), NormalSign(r) * Amount, "Bank")]]
    [] q.mode = "existing" /\ ~OnControl(r) ->
         [x \in {Id("reclass", q.id, 0, 0)} |->
            [date |-> q.date, lines |-> Two(ControlOf(r), NormalSign(r) * Amount, Category(r))]]
    [] OTHER -> <<>>

Create(q) ==
  LET r == Record(q)  e == Funding(q, r) IN
  /\ q.id \notin DOMAIN schedules /\ Offered(q.mode)
  /\ CanFund(q, r)
  /\ OpenDates({r.originDate} \union {e[x].date : x \in DOMAIN e})
  /\ schedules' = Saved([x \in {q.id} |-> r])
  /\ schedLedger' = Posted(e)
  /\ UNCHANGED <<schedAllocs, closed, reopens>>

(* --- _due_effect ---------------------------------------------------------------- *)
Active == {s \in DOMAIN schedules : schedules[s].status = "active"}
RecognitionId(s, r, p) == Id("recognition", s, r.generation, p.date)
Unposted(s, r) == {p \in Installments(r) : RecognitionId(s, r, p) \notin DOMAIN schedAllocs}
Due(s, t) == {p \in Unposted(s, schedules[s]) : p.date <= t}
Sum(P) == SumFunction([p \in P |-> p.amount])

(* _recognition_entry, and the allocation that goes with it. *)
RecognitionLines(r, n) ==
  Two(IF r.kind = "depreciation" THEN "Depreciation" ELSE Category(r), NormalSign(r) * n, CreditAccount(r))
PartsOf(s, P) == {[schedule |-> s, part |-> p] : p \in P}
PartId(q) == RecognitionId(q.schedule, schedules[q.schedule], q.part)
PartWith(Q, x) == CHOOSE q \in Q : PartId(q) = x
Entries(Q) ==
  [x \in {PartId(q) : q \in Q} |->
     LET q == PartWith(Q, x)
     IN  [date |-> q.part.date, lines |-> RecognitionLines(schedules[q.schedule], q.part.amount)]]
Allocations(Q) ==
  [x \in {PartId(q) : q \in Q} |->
     LET q == PartWith(Q, x)
     IN  [schedule |-> q.schedule, date |-> q.part.date, from |-> q.part.from,
          amount |-> q.part.amount, refund |-> 0]]

AfterDue(r, n) ==
  [r EXCEPT !.recognized = @ + n, !.remaining = @ - n,
            !.status = IF r.remaining = n THEN "completed" ELSE "active"]

(* One batch for all schedules: it is refused as a whole when one installment    *)
(* falls into a closed month or exceeds its balance.                             *)
PostDue(t) ==
  LET S == {s \in Active : Due(s, t) # {}}
      Q == UNION {PartsOf(s, Due(s, t)) : s \in S}
  IN /\ S # {}
     /\ \A s \in S : Sum(Due(s, t)) <= schedules[s].remaining
     /\ OpenDates({q.part.date : q \in Q})
     /\ schedules' = Saved([s \in S |-> AfterDue(schedules[s], Sum(Due(s, t)))])
     /\ schedLedger' = Posted(Entries(Q))
     /\ schedAllocs' = Allocated(Allocations(Q))
     /\ UNCHANGED <<closed, reopens>>

(* --- _change_effect --------------------------------------------------------------- *)
Kept(r) == [r EXCEPT !.history = <<>>]
Noted(r, when, action, after) ==
  [after EXCEPT !.history = Append(r.history, [date |-> when, action |-> action, record |-> Kept(r)])]

PostedDates(s) == {schedAllocs[x].date : x \in {y \in DOMAIN schedAllocs : y[1] = "recognition" /\ y[2] = s}}
ChangeId(s) == Id("change", s, Len(schedules[s].history) + 1, 0)

(* A change may not precede the origin of the balance, nor a posted recognition. *)
MayChange(s, when, guard) ==
  LET r == schedules[s] IN
  /\ Len(r.history) < MaxChanges
  /\ when >= Max({r.originDate, r.effectiveFrom})
  /\ \A d \in PostedDates(s) : guard >= d

Change(s, when, action, after, e, a) ==
  /\ OpenDates({when} \union {e[x].date : x \in DOMAIN e})
  /\ schedules' = Saved([x \in {s} |-> Noted(schedules[s], when, action, after)])
  /\ schedLedger' = Posted(e)
  /\ schedAllocs' = Allocated(a)
  /\ UNCHANGED <<closed, reopens>>

(* A balance handed back: what is left of the service, and with a refund also    *)
(* part of what was already recognized.                                          *)
Release(s, when, left, back) ==
  LET r == schedules[s] IN
  [x \in {y \in {ChangeId(s)} : left + back > 0} |->
     [date |-> when,
      lines |-> Lines([a \in {ControlOf(r), "Bank", Category(r)} |->
                         CASE a = ControlOf(r) -> -(NormalSign(r) * left)
                           [] a = "Bank"       -> NormalSign(r) * (left + back)
                           [] a = Category(r)  -> -(NormalSign(r) * back)])]]
Returned(s, when, left, back) ==
  [x \in {ChangeId(s)} |-> [schedule |-> s, date |-> when, from |-> when, amount |-> left, refund |-> back]]

Cancel(s, when) ==
  LET r == schedules[s] IN
  /\ r.status = "active" /\ r.kind # "depreciation"
  /\ MayChange(s, when, when)
  /\ Change(s, when, "cancel",
            [r EXCEPT !.remaining = 0, !.ended = @ + r.remaining, !.status = "cancelled"],
            Release(s, when, r.remaining, 0), Returned(s, when, r.remaining, 0))

(* A partial refund spreads what is left over the service after its date, in a   *)
(* new generation; a refund of the whole rest completes the schedule.            *)
RespreadFromStart(r, when, rest) == [r EXCEPT !.base = rest, !.remaining = rest, !.generation = @ + 1]
Respread(r, when, rest) ==
  [r EXCEPT !.start = Max({r.start, when + 1}), !.base = rest, !.remaining = rest,
            !.generation = @ + 1]

RefundableTooMuch(r, left, back) == back + r.recognizedRefund <= r.recognized
RefundableAgain(r, left, back)   == left <= r.remaining /\ back <= r.recognized
Refundable(r, left, back) ==
  left <= r.remaining /\ back + r.recognizedRefund <= r.recognized

Refund(s, when, left, back) ==
  LET r == schedules[s]
      paid(x) == [x EXCEPT !.refunded = @ + left, !.recognizedRefund = @ + back]
  IN /\ r.status \in {"active", "completed"} /\ r.kind # "depreciation"
     /\ left + back > 0
     /\ MayChange(s, when, when)
     /\ Refundable(r, left, back)
     /\ left # r.remaining =>
          /\ r.method # "custom" /\ Max({r.start, when + 1}) <= r.last
          /\ r.method = "equal_month" => Max({r.start, when + 1}) \in MonthStarts
     /\ Change(s, when, "refund",
               IF left = r.remaining THEN paid([r EXCEPT !.remaining = 0, !.status = "completed"])
               ELSE paid(Respread(r, when, r.remaining - left)),
               Release(s, when, left, back), Returned(s, when, left, back))

(* A replacement takes over the balance under terms of its own, and every other *)
(* field of the record it replaces.                                             *)
Supersede(s, when, n, terms, plan) ==
  LET r == schedules[s]
      successor == [Kept(r) EXCEPT
        !.method = terms.method, !.plan = plan, !.first = terms.first, !.last = terms.last,
        !.start = terms.first, !.base = r.remaining, !.remaining = r.remaining, !.recognized = 0,
        !.initial = 0,
        !.effectiveFrom = when, !.generation = 0, !.supersedes = {s}]
  IN /\ r.status = "active" /\ r.kind # "depreciation"
     /\ n \notin DOMAIN schedules
     /\ MayChange(s, when, when)
     /\ terms.first >= when
     /\ CheckService(terms.method, terms.first, terms.last, terms.first, plan, r.remaining, r.remaining)
     /\ OpenDates({when})
     /\ schedules' = Saved([x \in {n, s} |->
            IF x = n THEN successor
            ELSE Noted(r, when, "supersede",
                       [r EXCEPT !.remaining = 0, !.transferred = r.remaining, !.status = "superseded"])])
     /\ UNCHANGED <<schedLedger, schedAllocs, closed, reopens>>

(* --- _terminate: recognize the service through `effective`, release the rest.  *)
Prorated(r, p, effective) ==
  (p.amount * (effective - p.from + 1)) \div (p.date - p.from + 1)

EarnedParts(s, effective) ==
  LET r == schedules[s] IN
  {p \in Unposted(s, r) : p.date <= effective}
  \union
  {[date |-> effective, from |-> p.from, amount |-> Prorated(r, p, effective)] :
     p \in {y \in Installments(r) : /\ r.method # "custom" /\ y.from <= effective /\ y.date > effective
                                    /\ Prorated(r, y, effective) # 0}}

Terminate(s, when, effective) ==
  LET r == schedules[s]
      P == EarnedParts(s, effective)
      unearned == r.remaining - Sum(P)
      over == r.kind = "depreciation"
  IN /\ r.status = "active"
     /\ MayChange(s, when, effective)
     /\ r.start <= effective /\ effective < r.last /\ effective <= when
     /\ unearned >= 0
     /\ Change(s, when, "terminate",
               [r EXCEPT !.remaining = 0, !.recognized = @ + Sum(P), !.ended = unearned,
                         !.status = "terminated"],
               Over(Entries(PartsOf(s, P)), IF over THEN <<>> ELSE Release(s, when, unearned, 0)),
               Over(Allocations(PartsOf(s, P)), Returned(s, when, unearned, 0)))

--------------------------------------------------------------------------------
(* --- accrual/reports.py: the figures of a past day ------------------------------ *)
(* _at_history: the record before the earliest change that is later than d.        *)
Later(r, d) == {k \in DOMAIN r.history : r.history[k].date > d}
Earliest(r, K) == CHOOSE k \in K : \A j \in K :
                    \/ r.history[k].date < r.history[j].date
                    \/ r.history[k].date = r.history[j].date /\ k <= j
AtHistoryNow(r, d) == r
AtHistory(r, d) == IF Later(r, d) = {} THEN r ELSE r.history[Earliest(r, Later(r, d))].record
FirstRecord(r) == AtHistory(r, 0)

StartsOn(r) == IF r.effectiveFrom # 0 THEN r.effectiveFrom ELSE r.originDate       \* _origin_date
AllocatedBy(s, d) == {x \in DOMAIN schedAllocs : schedAllocs[x].schedule = s /\ schedAllocs[x].date <= d}
Handed(s, d) == \E k \in DOMAIN schedules[s].history :
                  schedules[s].history[k].action = "supersede" /\ schedules[s].history[k].date <= d

(* _managed_support: what is left of a schedule on day d, from its first record    *)
(* and its allocations.                                                            *)
RemainingAsOf(s, d) ==
  IF Handed(s, d) THEN 0
  ELSE FirstRecord(schedules[s]).base - SumFunction([x \in AllocatedBy(s, d) |-> schedAllocs[x].amount])
RecognizedAsOf(s, d) ==
  FirstRecord(schedules[s]).initial
  + SumFunction([x \in {y \in AllocatedBy(s, d) : y[1] = "recognition"} |-> schedAllocs[x].amount])

SupportOf(s, a, d) ==
  LET r == schedules[s] IN
  IF StartsOn(r) > d THEN 0
  ELSE CASE r.kind = "depreciation" /\ a = "Equipment" -> Amount
         [] r.kind = "depreciation" /\ a = "Accumulated" -> -RecognizedAsOf(s, d)
         [] r.kind # "depreciation" /\ a = ControlOf(r) -> NormalSign(r) * RemainingAsOf(s, d)
         [] OTHER -> 0
Support(a, d) == SumFunction([s \in DOMAIN schedules |-> SupportOf(s, a, d)])
BalanceAsOf(a, d) == SumFunction([e \in {x \in DOMAIN schedLedger : schedLedger[x].date <= d} |-> schedLedger[e].lines[a]])

(* An account is held to its support as soon as a schedule of the day is on it.    *)
Backed(a, d) == \E s \in DOMAIN schedules :
                  StartsOn(schedules[s]) <= d
                  /\ a \in {ControlOf(schedules[s]), CreditAccount(schedules[s])}
ReconciledAsOf(a, d) == Backed(a, d) => Support(a, d) = BalanceAsOf(a, d)

(* unresolved, the recognition_due issues: by the record of the day, an installment *)
(* that no allocation of the day covers.                                            *)
DueAsOf(d) ==
  UNION {LET r == AtHistory(schedules[s], d) IN
           {<<s, p.date>> : p \in {x \in Installments(r) :
               /\ x.date <= d
               /\ \A y \in AllocatedBy(s, d) : y # RecognitionId(s, r, x)}} :
         s \in {x \in DOMAIN schedules : /\ AtHistory(schedules[x], d).status = "active"
                                         /\ StartsOn(schedules[x]) <= d}}

(* --- local periods: apply_period --------------------------------------------------- *)
ReadyToClose(m) ==
  /\ DueAsOf(MonthEnd(m)) = {}
  /\ \A a \in ScheduleAccounts : ReconciledAsOf(a, MonthEnd(m))

Close(m) ==
  /\ m \notin closed /\ ReadyToClose(m)
  /\ closed' = closed \union {m}
  /\ UNCHANGED <<schedules, schedAllocs, schedLedger, reopens>>

Reopen(m) ==
  /\ m \in closed /\ reopens < MaxReopens
  /\ closed' = closed \ {m} /\ reopens' = reopens + 1
  /\ UNCHANGED <<schedules, schedAllocs, schedLedger>>

--------------------------------------------------------------------------------
SchedInit ==
  /\ schedules = <<>> /\ schedAllocs = <<>> /\ closed = {} /\ reopens = 0
  /\ schedLedger \in {<<>>} \union {[x \in {Payment} |-> [date |-> PaidOn, lines |-> Lines(p)]] : p \in PaidLines}

SchedNext ==
  \/ \E mode \in {"new", "existing", "opening"} : Offered(mode) /\ \E q \in ScheduleRequests(mode) : Create(q)
  \/ \E t \in Dates : PostDue(t)
  \/ \E s \in DOMAIN schedules, d \in Dates :
       \/ Cancel(s, d)
       \/ \E left, back \in Refunds \union {schedules[s].remaining} : Refund(s, d, left, back)
       \/ \E n \in Schedules \ DOMAIN schedules, w \in Terms, p \in CustomPlans \union {<<>>} : Supersede(s, d, n, w, p)
       \/ \E e \in Dates : Terminate(s, d, e)
  \/ \E m \in MonthStarts : Close(m) \/ Reopen(m)

SchedSpec == SchedInit /\ [][SchedNext]_schedVars
--------------------------------------------------------------------------------
(* PROPERTIES *)

(* Every record stays inside its type, and its allocations are its own. *)
SchedTypeOK ==
  /\ DOMAIN schedules \subseteq Schedules /\ closed \subseteq MonthStarts
  /\ \A s \in DOMAIN schedules :
       LET r == schedules[s] IN
         /\ r.kind \in Kinds /\ r.status \in {"active", "completed", "cancelled", "superseded", "terminated"}
         /\ r.remaining \in 0..r.base /\ r.recognized \in 0..Amount
         /\ r.first <= r.start /\ r.start <= r.last
  /\ \A x \in DOMAIN schedAllocs : schedAllocs[x].schedule \in DOMAIN schedules /\ schedAllocs[x].date \in Days

(* The stored remainder of an active schedule is its base less what its current  *)
(* generation has recognized, and it is the sum of what is still to be posted:    *)
(* no sequence of partial runs, refunds and replacements loses a cent, posts more *)
(* than the balance, or leaves a remainder that no installment will recognize.    *)
RemainderIsScheduled ==
  \A s \in Active : LET r == schedules[s] IN
    /\ r.remaining > 0
    /\ r.remaining = Sum(Unposted(s, r))

(* What the records hold and what the ledger holds of every control account is the *)
(* same, whatever was recognized, refunded, handed over or ended early.            *)
Stored(r, a) ==
  CASE r.kind # "depreciation" /\ a = ControlOf(r) -> NormalSign(r) * r.remaining
    [] r.kind = "depreciation" /\ a = "Accumulated" -> -r.recognized
    [] r.kind = "depreciation" /\ a = "Equipment" -> Amount
    [] OTHER -> 0
Unlinked(a) ==
  IF Payment \in DOMAIN schedLedger /\ a # "Bank"
  THEN Paid(a) - SumFunction([s \in FundedOn(a) |->
                    IF OnControl(schedules[s]) THEN NormalSign(schedules[s]) * schedules[s].reserved ELSE 0])
  ELSE 0
ControlsMatchRecords ==
  \A a \in {"Prepaid", "Deferred", "Equipment", "Accumulated"} :
    BalanceAsOf(a, LastDay) = SumFunction([s \in DOMAIN schedules |-> Stored(schedules[s], a)]) + Unlinked(a)

(* A day of service is recognized once: the services of the recognitions of one    *)
(* schedule never overlap, across partial refunds and early ends.                  *)
Recognitions(s) == {x \in DOMAIN schedAllocs : x[1] = "recognition" /\ x[2] = s}
DaysRecognizedOnce ==
  \A s \in DOMAIN schedules : \A x, y \in Recognitions(s) :
    x # y => schedAllocs[x].date < schedAllocs[y].from \/ schedAllocs[y].date < schedAllocs[x].from

(* Recognized revenue and expense are never given back twice: over the whole line  *)
(* of replacements the refunds of recognized service stay inside what was          *)
(* recognized.                                                                     *)
RefundsOfRecognized(s) ==
  SumFunction([x \in {y \in DOMAIN schedAllocs : schedAllocs[y].schedule = s} |-> schedAllocs[x].refund])
RefundsStayRecognized ==
  \A s \in DOMAIN schedules : RefundsOfRecognized(s) <= schedules[s].recognized

(* Installments, refunds and early ends leave no cent over and post none twice. *)
ServiceIsRecognizedOnce == SchedTypeOK /\ RemainderIsScheduled /\ DaysRecognizedOnce /\ ControlsMatchRecords

(* When a month and all before it are closed, no step but a reopening changes what *)
(* the ledger or the reconstructed support says of them: nothing recognized,       *)
(* refunded, replaced or ended later reaches back, as long as the changes of each  *)
(* schedule are entered in the order of their dates.                               *)
ClosedPast(d) == \A m \in MonthStarts : m <= d => m \in closed
Figures(d) == [a \in ScheduleAccounts |-> <<BalanceAsOf(a, d), Support(a, d)>>]
ChangesInOrder(s) ==
  LET H == schedules[s].history IN \A k \in DOMAIN H : k > 1 => H[k].date >= H[k - 1].date
ClosedPastKeepsItsFigures ==
  [][(\A s \in DOMAIN schedules : ChangesInOrder(s))' =>
       \A d \in Days : ClosedPast(d) /\ ClosedPast(d)' => Figures(d)' = Figures(d)]_schedVars

(* The support of a control account is reconstructed for every day: on each of      *)
(* them it equals the ledger balance of that day.                                   *)
SupportMatchesLedger == \A a \in ScheduleAccounts, d \in Days : ReconciledAsOf(a, d)

(* It holds of books whose payment is linked to schedules as a whole, and whose      *)
(* payment, service and changes are dated in order.                                  *)
InOrder(s) ==
  LET r == schedules[s] IN
  /\ ChangesInOrder(s)
  /\ FirstRecord(r).start >= StartsOn(r)
  /\ Id("reclass", s, 0, 0) \in DOMAIN schedLedger => schedLedger[Id("reclass", s, 0, 0)].date = r.originDate
OrderedSupportMatches ==
  (/\ \A a \in {"Prepaid", "Deferred", "Equipment", "Accumulated"} : Unlinked(a) = 0
   /\ \A s \in DOMAIN schedules : InOrder(s)) => SupportMatchesLedger

(* Every recognition the period check names as due can still be posted.              *)
DueIsPostable ==
  \A d \in Days : \A x \in DueAsOf(d) : x[1] \in Active /\ \E p \in Due(x[1], d) : p.date = x[2]
================================================================================
