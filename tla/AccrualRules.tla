----------------------------- MODULE AccrualRules -----------------------------
(* Saved accrual rules: what to propose for a supplier, or for a kind of cost    *)
(* (accrual/rules.py).  A set or clear is previewed without a lock.  It is       *)
(* applied later under the queue's lock, which writes the rule and then the      *)
(* receipt; it may stop in between and be repeated.  Only the match and the      *)
(* threshold of a company rule decide which rows it reaches.  The validation of  *)
(* accounts and terms and the text of a draft are left out, and so is the limit  *)
(* of a thousand receipts.                                                       *)
EXTENDS Integers, Sequences, FiniteSets

CONSTANTS
  Requests,   \* [id, kind, target, match, threshold, says, source]; kind is set or clear
  Suppliers,  \* the targets that are suppliers or customers; the other numbers are ids of company rules
  Facts,      \* of bank rows: [key, amount, found], where found[match] = <<depth, hits>>
  None, MaxPlans, MaxReceipts, MaxRuleStops

VARIABLES
  rules,         \* by target, the saved rule or None
  ruleReceipts,  \* the plans that were applied, oldest first
  plans,         \* previews that were handed out
  run,           \* the plan whose rule is written and whose receipt is not yet, or None
  now, ruleStops

ruleVars == <<rules, ruleReceipts, plans, run, now, ruleStops>>

Targets == {q.target : q \in Requests}

\* What is saved for a target, and what a preview hands out.
Rule ==
  [match: {q.match : q \in Requests}, threshold: {q.threshold : q \in Requests}, says: {q.says : q \in Requests},
   source: {q.source : q \in Requests}, set_at: Nat]
PlanOf ==
  [request: Requests, at: Nat, before: Rule \union {None}, after: Rule \union {None}, warns: SUBSET Targets]

\* An operation id names one request: the caller takes a new one for a new change.
ASSUME RulesAssumption ==
  /\ \A q, r \in Requests : q.id = r.id => q = r
  /\ \A q \in Requests : q.kind \in {"set", "clear"}
  /\ Targets \subseteq Int
  /\ None \notin Rule /\ None \notin PlanOf
-----------------------------------------------------------------------------
(* Match: the rule of the supplier, or of the most specific kind of cost         *)

Reaches(r, f) == f.amount >= r.threshold
_company_applies(r, f) ==
  /\ r.match.accounts => f.found[r.match][1] > 0
  /\ r.match.keywords => f.found[r.match][2] > 0
  /\ Reaches(r, f)
Score(r, f) ==
  <<Cardinality({c \in {"accounts", "keywords"} : r.match[c]}) + (IF r.threshold > 0 THEN 1 ELSE 0),
    f.found[r.match][1], f.found[r.match][2], r.threshold>>
Below(a, b) == \E i \in 1..4 : a[i] < b[i] /\ \A j \in 1..i - 1 : a[j] = b[j]

\* A row below the threshold of its own supplier's rule is not matched to company rules.
match(f) ==
  LET own  == {s \in Suppliers : s = f.key /\ rules[s] # None}
      fit  == {t \in Targets \ Suppliers : rules[t] # None /\ _company_applies(rules[t], f)}
      best == {t \in fit : \A u \in fit : ~Below(Score(rules[t], f), Score(rules[u], f))}
  IN IF own # {} THEN {s \in own : Reaches(rules[s], f)}
     ELSE {t \in best : \A u \in best : t <= u}
proposal_stamp(f) == {[id |-> t, treatment |-> rules[t].says, source |-> rules[t].source] : t \in match(f)}
-----------------------------------------------------------------------------
(* Previews *)

_rule_body(q, at) ==
  [match |-> q.match, threshold |-> q.threshold, says |-> q.says, source |-> q.source, set_at |-> at]
_same_decision(r, s) == [r EXCEPT !.set_at = 0] = [s EXCEPT !.set_at = 0]
Protected(before, q) == before # None /\ before.source = "person" /\ q.source = "agent"

\* The company rules that the preview warns of: the smaller id wins.
Twins(q) ==
  {t \in Targets \ (Suppliers \union {q.target}) :
     /\ q.target \notin Suppliers /\ rules[t] # None
     /\ rules[t].match = q.match /\ rules[t].threshold = q.threshold}

_build_set(q, at) ==
  LET before == rules[q.target] IN
  [request |-> q, at |-> at, before |-> before,
   after |-> IF before # None /\ _same_decision(before, _rule_body(q, at)) THEN before ELSE _rule_body(q, at),
   warns |-> Twins(q)]
_build_clear(q, at) == [request |-> q, at |-> at, before |-> rules[q.target], after |-> None, warns |-> {}]

Buildable(q) == ~Protected(rules[q.target], q) /\ (q.kind = "clear" => rules[q.target] # None)
_plan(q, at) == IF q.kind = "set" THEN _build_set(q, at) ELSE _build_clear(q, at)

Preview(q) ==
  /\ Buildable(q) /\ Cardinality(plans) < MaxPlans
  /\ plans' = plans \union {_plan(q, now)}
  /\ UNCHANGED <<rules, ruleReceipts, run, now, ruleStops>>
-----------------------------------------------------------------------------
(* Apply *)

_receipt_for(id) == {i \in DOMAIN ruleReceipts : ruleReceipts[i].request.id = id}
Applicable(p) == run = None /\ _receipt_for(p.request.id) = {} /\ Len(ruleReceipts) < MaxReceipts

\* An apply that stopped wrote what the plan says, and only the receipt is missing.
Finishing(p) ==
  IF Buildable(p.request)
  THEN p.after = rules[p.request.target] /\ _plan(p.request, p.at).after = p.after
  ELSE p.request.kind = "clear" /\ rules[p.request.target] = None

\* Mutant: only the rule before the change is compared.
SameBefore(p) == Buildable(p.request) /\ rules[p.request.target] = p.before

\* What the plan shows, warnings included, is what it would do now.
Reviewed(p) == Buildable(p.request) /\ _plan(p.request, p.at) = p

\* Mutant: the receipt is written before the rule.
ReceiptFirst(p) ==
  /\ Applicable(p) /\ Reviewed(p) /\ ~Finishing(p)
  /\ ruleReceipts' = Append(ruleReceipts, p) /\ run' = p
  /\ UNCHANGED <<rules, plans, now, ruleStops>>
_write_target(p) ==
  /\ Applicable(p) /\ Reviewed(p) /\ ~Finishing(p)
  /\ rules' = [rules EXCEPT ![p.request.target] = p.after] /\ run' = p
  /\ UNCHANGED <<ruleReceipts, plans, now, ruleStops>>
WriteReceipt ==
  /\ run # None /\ ruleReceipts' = Append(ruleReceipts, run) /\ run' = None
  /\ UNCHANGED <<rules, plans, now, ruleStops>>
Finish(p) ==
  /\ Applicable(p) /\ Finishing(p) /\ ruleReceipts' = Append(ruleReceipts, p)
  /\ UNCHANGED <<rules, plans, run, now, ruleStops>>
Stop ==
  /\ run # None /\ ruleStops < MaxRuleStops /\ run' = None /\ ruleStops' = ruleStops + 1
  /\ UNCHANGED <<rules, ruleReceipts, plans, now>>

\* Seconds pass between previews.
_now ==
  /\ \E p \in plans : p.at = now
  /\ now' = now + 1 /\ UNCHANGED <<rules, ruleReceipts, plans, run, ruleStops>>

RulesInit ==
  /\ rules = [t \in Targets |-> None] /\ ruleReceipts = <<>> /\ plans = {} /\ run = None
  /\ now = 0 /\ ruleStops = 0
RulesNext ==
  \/ \E q \in Requests : Preview(q)
  \/ \E p \in plans : _write_target(p) \/ Finish(p)
  \/ WriteReceipt \/ Stop \/ _now
RulesSpec == RulesInit /\ [][RulesNext]_ruleVars
-----------------------------------------------------------------------------
\* The rule of a target is the one its last receipt shows, except where an apply wrote
\* it and has not come to its receipt; that one can still be repeated.
Explained ==
  \A t \in Targets :
    \/ LET about == {i \in DOMAIN ruleReceipts : ruleReceipts[i].request.target = t}
       IN \/ about = {} /\ rules[t] = None
          \/ \E i \in about : rules[t] = ruleReceipts[i].after /\ \A j \in about : j <= i
    \/ \E p \in plans : p.request.target = t /\ p.after = rules[t] /\ _receipt_for(p.request.id) = {}

\* Of two company rules that reach the same rows, one was reviewed with a warning of
\* the other, and it is the smaller id that proposals follow.
TwinsWereShown ==
  \A t, u \in Targets \ Suppliers :
    (t < u /\ rules[t] # None /\ rules[u] # None
       /\ rules[t].match = rules[u].match /\ rules[t].threshold = rules[u].threshold)
    => /\ \E p \in plans : \/ p.request.target = t /\ p.after = rules[t] /\ u \in p.warns
                           \/ p.request.target = u /\ p.after = rules[u] /\ t \in p.warns
       /\ \A f \in Facts : \A s \in proposal_stamp(f) : s.id # u

\* A rule is what a reviewed preview said, and is explained by its receipt.
RulesAsReviewed == Explained /\ TwinsWereShown
=============================================================================
