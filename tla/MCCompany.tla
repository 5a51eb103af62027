------------------------------ MODULE MCCompany ------------------------------
(* The components of accrual books and of the company around them, each on a   *)
(* small instance of its own.  A behaviour is a behaviour of one of them, which *)
(* the first state picks, and the others stay in an initial state of theirs:    *)
(* the components compared here do not touch each other's state.                *)
EXTENDS OpenItems, AccrualSchedules, TLC

CONSTANTS p1, i1, c1, o1, o2, o3, n1, e1

VARIABLES part

(* OpenItems: a receipt of one cent in cash and one kept as a fee, an invoice, a *)
(* customer credit, a document and three operations.                            *)
OneCash   == p1 :> 1
OneFee    == p1 :> 1
TwoShares == [Sales |-> 1, Services |-> 1]

(* AccrualSchedules: two months of three days, a payment of five cents, a       *)
(* schedule of each kind and each method, two changes.                          *)
Term(k, m, f, l) == [kind |-> k, method |-> m, first |-> f, last |-> l]
PaidTo(a, n) == [x \in {a, "Bank"} |-> IF x = a THEN n ELSE -n]
SmallTerms == {Term("prepaid", "equal_month", 1, 6), Term("deferred", "actual_day", 2, 6),
               Term("prepaid", "custom", 2, 5), Term("depreciation", "actual_day", 2, 6)}
SmallPlans == {3 :> 2 @@ 5 :> 3, 4 :> 4}
SmallPayments == {PaidTo("Prepaid", 5), PaidTo("Expense", 5), PaidTo("Deferred", -5)}
--------------------------------------------------------------------------------
(* Where a component that does not move stays. *)
ItemsIdle ==
  /\ items = <<>> /\ allocs = {} /\ ledger = <<>> /\ claims = <<>> /\ receipts = <<>>
  /\ held = NoPlan /\ job = NoJob /\ crashes = 0 /\ pending = {}
  /\ queueItem = [p \in Payments |-> "none"]
SchedulesIdle ==
  schedules = <<>> /\ schedAllocs = <<>> /\ schedLedger = <<>> /\ closed = {} /\ reopens = 0

CompanyInit ==
  \/ part = "items" /\ Init /\ pending \subseteq {<<p1, "raw">>} /\ SchedulesIdle
  \/ part = "schedules" /\ SchedInit /\ ItemsIdle

(* Operation ids are interchangeable and every property treats them alike, so it *)
(* is enough to follow the behaviours that take them in one order; a preview may *)
(* hold any that is free.  (TLC's own symmetry is not sound for liveness.)       *)
OpsInOrder == DOMAIN receipts' \in {{}, {o1}, {o1, o2}, Ops}

CompanyNext ==
  /\ UNCHANGED part
  /\ \/ part = "items" /\ Next /\ OpsInOrder /\ UNCHANGED schedVars
     \/ part = "schedules" /\ SchedNext /\ UNCHANGED vars

(* The command in progress keeps running, and the caller of a settlement that was *)
(* stopped repeats it, as the command asks.                                       *)
Company ==
  /\ CompanyInit /\ [][CompanyNext]_<<part, vars, schedVars>>
  /\ WF_vars(part = "items" /\ CleanQueue) /\ WF_vars(part = "items" /\ CleanPending)
  /\ \A o \in Ops : WF_vars(part = "items" /\ Retry(o))
  /\ \A p \in Payments : SF_vars(part = "items" /\ ResolveGroup(p))
================================================================================
