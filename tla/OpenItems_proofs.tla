--------------------------- MODULE OpenItems_proofs ---------------------------
(***************************************************************************)
(* Theorems about OpenItems, for any payments, items, callers, evidence,   *)
(* amounts and documents, and any number of commands and stops.            *)
(*                                                                         *)
(* ItemsMatchBooks and CashPostedOnce assume that callers name a row by    *)
(* the spelling it was posted with (~AnySpelling); the run of              *)
(* OpenItems_spelled shows that they are false otherwise. Neither is       *)
(* inductive. What explains a control account is a sum over entries of a   *)
(* sum over items, so that a step keeps it only when the new entry, the    *)
(* new items and the amounts they lower belong to one movement; that in    *)
(* turn needs that a movement is posted under one spelling (OneSpelling),  *)
(* that allocations share its sign and stay inside it (WithinPayment), and *)
(* that a settlement which posts a movement uses all of it (NewUsesAll).   *)
(* Evidence and receipts tie a repeated settlement to the first (Forms).   *)
(* A preview was compiled from older books: HeldHolds says that it is      *)
(* still possible as long as nothing was posted since.                     *)
(*                                                                         *)
(* EvidencePaysOnce holds for any spelling, from HeldHolds and Owned: a    *)
(* document stays bound to one treatment, and what cites it either has     *)
(* that treatment or is a batch of the movement that treatment pays.       *)
(***************************************************************************)
EXTENDS OpenItems, Sums

Controls == {"Receivable", "Deposits"}
Feed(s) == <<"feed", s>>

Finite ==
  IsFiniteSet(DOMAIN items) /\ IsFiniteSet(allocs) /\ IsFiniteSet(DOMAIN ledger)

(* An item was made by a receipt that is kept; a credit came with a row that is posted. *)
ItemForm(i) ==
  /\ i \in Items
  /\ items[i].base \in Nat /\ items[i].remaining \in Nat /\ items[i].original \in Nat
  /\ items[i].remaining <= items[i].base
  /\ items[i].status \in {"open", "settled"}
  /\ items[i].op \in DOMAIN receipts
  /\ i \in Credits => items[i].source \in Sources /\ Feed(items[i].source) \in DOMAIN ledger
  /\ i \notin Credits => items[i].source = <<>>

AllocForm(a) ==
  /\ a.kind \in {"settlement", "unapplied_receipt", "credit", "application"}
  /\ a.item \in DOMAIN items
  /\ a.amount \in Nat /\ a.signed \in Int
  /\ a.kind \in {"settlement", "unapplied_receipt"} =>
       a.source \in Sources /\ Feed(a.source) \in DOMAIN ledger
  /\ a.kind # "credit" => a.id[2] \in DOMAIN receipts
  /\ a.kind = "credit" => a.id = <<"adjustment", a.source>>

EntryForm(e) ==
  /\ \A a \in Controls : ledger[e][a] \in Int
  /\ e[1] = "feed" => \E s \in Sources : e = Feed(s)

ClaimForm(e) ==
  /\ claims[e].op \in DOMAIN receipts
  /\ LET q == receipts[claims[e].op].request IN
       /\ claims[e].treatment = Treatment(q)
       /\ q.kind = "item_settlement" /\ q.mode = "new" => Feed(q.source) \in DOMAIN ledger

(* What every item, allocation, entry, claim and receipt looks like. *)
Forms ==
  /\ DOMAIN claims \subseteq Evidence /\ DOMAIN receipts \subseteq Ops
  /\ \A i \in DOMAIN items : ItemForm(i)
  /\ \A a \in allocs : AllocForm(a)
  /\ \A e \in DOMAIN ledger : EntryForm(e)
  /\ \A e \in DOMAIN claims : ClaimForm(e)
  /\ \A o \in DOMAIN receipts : receipts[o].request \in Requests /\ receipts[o].owner \in Ops

(* A movement is posted under one spelling. *)
OneSpelling ==
  \A s, v \in Sources :
    Feed(s) \in DOMAIN ledger /\ Feed(v) \in DOMAIN ledger /\ s[1] = v[1] => s = v

(* What allocations use of a row has its sign and stays inside it. *)
WithinPayment ==
  \A s \in Sources : /\ Abs(Used(s)) <= Abs(Gross(s[1]))
                     /\ Used(s) * Gross(s[1]) >= 0

(* Items use the whole row, and credits of it no more than its entry holds for them. *)
FullyUsed(v) ==
  /\ Feed(v) \in DOMAIN ledger
  /\ Used(v) = Gross(v[1])
  /\ Cash[v[1]] > 0 \/ Gross(v[1]) <= 0
  /\ Reserved(v, "Deposits") <= ledger[Feed(v)]["Deposits"]

(* A settlement that posted a row leaves nothing of it to a later one. *)
NewUsesAll ==
  \A s \in Sources : BookedBySettlement(s) => \E v \in Variants(s) : FullyUsed(v)

(* Nothing was posted since the preview, or it is stale, or it can still be applied. *)
HeldHolds ==
  held # NoPlan =>
    /\ held.request \in Requests /\ held.op \in Ops
    /\ held.digest = <<held.digest[1], held.digest[2]>>
    /\ held.digest[1] \subseteq DOMAIN ledger /\ held.digest[2] \subseteq DOMAIN receipts
    /\ Fresh(held) => Replays(held.request) \/ Possible(held.request)

Core ==
  /\ Finite /\ Forms /\ OneSpelling /\ ItemsReconcile /\ WithinPayment /\ NewUsesAll
  /\ ControlsExplained

IInv == Core /\ HeldHolds /\ pending \subseteq Sources

--------------------------------------------------------------------------------
(* What a request of each kind holds. *)
LEMMA RequestForms ==
  ASSUME NEW r \in Requests
  PROVE  /\ r.kind \in {"item_create", "item_settlement", "item_adjustment", "item_offset"}
         /\ r.kind = "item_create" =>
              /\ r.amount \in Amounts
              /\ \/ r.item \in Receivables /\ r.mode = "new" /\ r.source = <<>>
                 \/ r.item \in Credits /\ r.mode = "existing" /\ r.source \in Sources
         /\ r.kind = "item_settlement" =>
              /\ r.mode \in {"new", "existing"} /\ r.source \in Sources
              /\ DOMAIN r.rows \subseteq Items /\ \A i \in DOMAIN r.rows : r.rows[i] \in Amounts
              /\ r.excess \in Credits \union {NoItem}
         /\ r.kind = "item_adjustment" => r.item \in Items /\ r.amount \in Amounts
         /\ r.kind = "item_offset" =>
              r.credit \in Credits /\ r.target \in Receivables /\ r.amount \in Amounts
         /\ r.evidence \in Evidence \union {NoEvidence}
<1>1. CASE r \in Creations
  BY <1>1 DEF Creations
<1>2. CASE r \in Settlements
  <2>1. r.kind = "item_settlement" /\ r.mode \in {"new", "existing"} /\ r.source \in Sources
        /\ r.excess \in Credits \union {NoItem} /\ r.evidence \in Evidence \union {NoEvidence}
        /\ r.rows \in Rows
    BY <1>2 DEF Settlements
  <2>2. PICK S \in SUBSET Items : r.rows \in [S -> Amounts]
    BY <2>1 DEF Rows
  <2>3. DOMAIN r.rows = S /\ \A i \in S : r.rows[i] \in Amounts
    BY <2>2
  <2>4. QED
    BY ONLY <2>1, <2>3
<1>3. CASE r \in Adjustments
  BY <1>3 DEF Adjustments
<1>4. CASE r \in Offsets
  BY <1>4 DEF Offsets
<1>5. QED
  BY <1>1, <1>2, <1>3, <1>4 DEF Requests

(* What a document is bound to says which movement it pays, if it pays one. *)
ForPayment(t, p) ==
  \/ t[1] = "item_settlement" /\ t[2] = p
  \/ t[1] = "existing_payment" /\ t[2][1] = p

(* A treatment pays a movement when it is that of a settlement of it. *)
LEMMA TreatmentPays ==
  ASSUME NEW r \in Requests
  PROVE  /\ r.kind = "item_settlement" => ForPayment(Treatment(r), r.source[1])
         /\ \A p : ForPayment(Treatment(r), p) => r.kind = "item_settlement" /\ r.source[1] = p
<1>1. CASE r.kind = "item_settlement" /\ r.mode = "new"
  <2>1. Treatment(r) = <<"item_settlement", r.source[1], r.rows, r.excess>>
    BY <1>1 DEF Treatment
  <2>2. Treatment(r)[1] = "item_settlement" /\ Treatment(r)[2] = r.source[1]
    BY <2>1
  <2>3. QED
    BY <1>1, <2>2 DEF ForPayment
<1>2. CASE r.kind = "item_settlement" /\ r.mode = "existing"
  <2>1. Treatment(r) = <<"existing_payment", r.source>>
    BY <1>2 DEF Treatment
  <2>2. Treatment(r)[1] = "existing_payment" /\ Treatment(r)[2] = r.source
    BY <2>1
  <2>3. QED
    BY <1>2, <2>2 DEF ForPayment
<1>3. CASE r.kind \in {"item_create", "item_adjustment", "item_offset"}
  <2>1. Treatment(r)[1] = r.kind
    BY <1>3 DEF Treatment
  <2>2. QED
    BY <1>3, <2>1 DEF ForPayment
<1>4. QED
  BY <1>1, <1>2, <1>3, RequestForms

(* Two settlements of new payments with one treatment pay the same movement. *)
LEMMA TreatmentNamesPayment ==
  ASSUME NEW r \in Requests, NEW q \in Requests, Treatment(r) = Treatment(q),
         r.kind = "item_settlement", r.mode = "new"
  PROVE  q.kind = "item_settlement" /\ q.mode = "new" /\ q.source[1] = r.source[1]
<1>1. Treatment(r) = <<"item_settlement", r.source[1], r.rows, r.excess>>
  BY DEF Treatment
<1>2. Treatment(r)[1] = "item_settlement" /\ Treatment(r)[2] = r.source[1]
  BY <1>1
<1>3. Treatment(q)[1] = "item_settlement" /\ Treatment(q)[2] = r.source[1]
  BY <1>2
<1>4. q.kind = "item_settlement" /\ q.mode = "new"
  BY <1>3, RequestForms DEF Treatment
<1>5. Treatment(q) = <<"item_settlement", q.source[1], q.rows, q.excess>>
  BY <1>4 DEF Treatment
<1>6. QED
  BY <1>3, <1>4, <1>5

(* A credit has its sign and its control account, and so has an invoice. *)
LEMMA Signs ==
  ASSUME NEW i \in Items
  PROVE  /\ i \in Credits => Sign(i) = -1 /\ Control(i) = "Deposits"
         /\ i \notin Credits => Sign(i) = 1 /\ Control(i) = "Receivable"
         /\ Sign(i) \in Int /\ Control(i) \in Controls
  BY DEF Sign, Control, Controls

(* An amount that a caller names is positive. *)
LEMMA Amount == \A n \in Amounts : n \in Nat /\ n > 0
  BY MoneyAssumption

(* The gross of a receipt is positive. *)
LEMMA GrossInt == \A p \in Payments : Gross(p) \in Int /\ Cash[p] \in Int /\ Fee[p] \in Nat
                                     /\ (Cash[p] > 0 => Gross(p) > 0)
  BY MoneyAssumption DEF Gross

(* A source names its movement and its spelling. *)
LEMMA SourcePair == \A s \in Sources : s = <<s[1], s[2]>> /\ s[1] \in Payments /\ s # <<>>
  BY DEF Sources

(* The identity of a row's entry names the row. *)
LEMMA FeedPair == \A s, v : (Feed(s) = Feed(v) <=> s = v) /\ Feed(s)[1] = "feed" /\ Feed(s)[2] = s
  BY DEF Feed

(* Where a row is posted under one spelling, that entry is the one found.        *)
LEMMA LiveIs ==
  ASSUME OneSpelling, NEW s \in Sources, Feed(s) \in DOMAIN ledger
  PROVE  LiveEntry(s) = ledger[Feed(s)]
<1> DEFINE E(e) == \E v \in Variants(s) : e = Feed(v)
<1>1. E(Feed(s))
  BY DEF Variants
<1>2. \A e \in DOMAIN ledger : E(e) => e = Feed(s)
  BY DEF OneSpelling, Variants
<1>3. (CHOOSE e \in DOMAIN ledger : E(e)) = Feed(s)
  <2> HIDE DEF E
  <2>1. QED
    BY <1>1, <1>2
<1>4. QED
  BY <1>3 DEF LiveEntry, Feed

--------------------------------------------------------------------------------
(* What every committed operation and every ordinary confirm does: it only adds. *)
Grows ==
  /\ DOMAIN items \subseteq DOMAIN items'
  /\ \A i \in DOMAIN items :
       /\ items'[i].base = items[i].base /\ items'[i].original = items[i].original
       /\ items'[i].op = items[i].op /\ items'[i].source = items[i].source
  /\ allocs \subseteq allocs'
  /\ DOMAIN ledger \subseteq DOMAIN ledger' /\ \A e \in DOMAIN ledger : ledger'[e] = ledger[e]
  /\ DOMAIN receipts \subseteq DOMAIN receipts'
  /\ \A o \in DOMAIN receipts : receipts'[o] = receipts[o]

(* A new entry changes a balance by what it posts. *)
LEMMA BalanceAdds ==
  ASSUME Finite, Forms, Finite', Forms', Grows, NEW a \in Controls,
         NEW n, DOMAIN ledger' = DOMAIN ledger \union {n}, n \notin DOMAIN ledger
  PROVE  Balance(a)' = Balance(a) + ledger'[n][a] /\ Balance(a) \in Int
<1> DEFINE f == [e \in DOMAIN ledger |-> ledger[e][a]]
           h == [e \in DOMAIN ledger' |-> ledger'[e][a]]
<1>1. Balance(a) = SumFunctionOnSet(f, DOMAIN ledger)
  BY SumAll DEF Balance
<1>2. Balance(a)' = SumFunctionOnSet(h, DOMAIN ledger \union {n})
  BY SumAll DEF Balance
<1>3. \A e \in DOMAIN ledger : f[e] \in Int
  BY DEF Forms, EntryForm
<1>4. \A e \in DOMAIN ledger \union {n} : h[e] \in Int
  BY DEF Forms, EntryForm
<1>5. \A e \in DOMAIN ledger : f[e] = h[e]
  BY DEF Grows
<1>6. h[n] = ledger'[n][a]
  OBVIOUS
<1>7. IsFiniteSet(DOMAIN ledger)
  BY DEF Finite
<1> HIDE DEF f, h
<1>8. SumFunctionOnSet(h, DOMAIN ledger \union {n}) = SumFunctionOnSet(h, DOMAIN ledger) + h[n]
  BY <1>4, <1>7, SumAdd
<1>9. SumFunctionOnSet(f, DOMAIN ledger) = SumFunctionOnSet(h, DOMAIN ledger)
  BY <1>5, <1>7, SumSame
<1>10. SumFunctionOnSet(f, DOMAIN ledger) \in Int
  BY <1>3, <1>7, SumAt
<1>11. QED
  BY <1>1, <1>2, <1>6, <1>8, <1>9, <1>10

(* Without a new entry no balance changes. *)
LEMMA BalanceStays ==
  ASSUME Finite, Forms, Grows, NEW a \in Controls, DOMAIN ledger' = DOMAIN ledger
  PROVE  Balance(a)' = Balance(a) /\ Balance(a) \in Int
<1> DEFINE f == [e \in DOMAIN ledger |-> ledger[e][a]]
           h == [e \in DOMAIN ledger' |-> ledger'[e][a]]
<1>1. Balance(a) = SumFunctionOnSet(f, DOMAIN ledger)
  BY SumAll DEF Balance
<1>2. Balance(a)' = SumFunctionOnSet(h, DOMAIN ledger)
  BY SumAll DEF Balance
<1>3. \A e \in DOMAIN ledger : f[e] \in Int
  BY DEF Forms, EntryForm
<1>5. \A e \in DOMAIN ledger : f[e] = h[e]
  BY DEF Grows
<1>7. IsFiniteSet(DOMAIN ledger)
  BY DEF Finite
<1> HIDE DEF f, h
<1>8. QED
  BY <1>1, <1>2, <1>3, <1>5, <1>7, SumSame, SumAt

--------------------------------------------------------------------------------
(* The outstanding items of a control account: what lowering items and making    *)
(* one takes from their sum.                                                      *)
Part(it, i, a) == IF Control(i) = a THEN Sign(i) * it[i].remaining ELSE 0

OutstandingSums ==
  \A a \in Controls :
    /\ Outstanding(a) = SumFunctionOnSet([i \in DOMAIN items |-> Part(items, i, a)], DOMAIN items)
    /\ Outstanding(a) \in Int

(* The outstanding items of an account, as a sum over all items. *)
LEMMA OutstandingIs == Finite /\ Forms => OutstandingSums
<1> SUFFICES ASSUME Finite, Forms, NEW a \in Controls
             PROVE  /\ Outstanding(a) = SumFunctionOnSet([i \in DOMAIN items |-> Part(items, i, a)], DOMAIN items)
                    /\ Outstanding(a) \in Int
  BY DEF OutstandingSums
<1> DEFINE T == {i \in DOMAIN items : Control(i) = a}
           f == [i \in DOMAIN items |-> Part(items, i, a)]
           g == [i \in T |-> Sign(i) * items[i].remaining]
<1>1. \A i \in DOMAIN items : f[i] \in Int
  <2> SUFFICES ASSUME NEW i \in DOMAIN items PROVE Part(items, i, a) \in Int
    OBVIOUS
  <2>1. Sign(i) \in Int /\ items[i].remaining \in Nat /\ (Sign(i) = 1 \/ Sign(i) = -1)
    BY Signs DEF Forms, ItemForm
  <2>2. QED
    BY <2>1 DEF Part
<1>2. \A i \in DOMAIN items \ T : f[i] = 0
  BY DEF Part
<1>3. \A i \in T : f[i] = g[i]
  BY DEF Part
<1>4. IsFiniteSet(DOMAIN items) /\ T \subseteq DOMAIN items /\ IsFiniteSet(T)
  BY FS_Subset DEF Finite
<1>5. Outstanding(a) = SumFunctionOnSet(g, T)
  BY SumAll DEF Outstanding
<1> HIDE DEF f, g, T
<1>6. SumFunctionOnSet(f, DOMAIN items) = SumFunctionOnSet(f, T)
  BY <1>1, <1>2, <1>4, SumOver
<1>7. SumFunctionOnSet(f, T) = SumFunctionOnSet(g, T)
  BY <1>3, <1>4, SumSame
<1>8. SumFunctionOnSet(f, DOMAIN items) \in Int
  BY <1>1, <1>4, SumAt
<1>9. QED
  BY <1>5, <1>6, <1>7, <1>8 DEF f

Taken(w, T, a) == SumFunction([i \in {i \in T : Control(i) = a} |-> Sign(i) * w[i]])

(* What lowering the items of a set takes from the sum of their account. *)
LEMMA OutstandingLowered ==
  ASSUME Finite, Forms, NEW a \in Controls, NEW T, T \subseteq DOMAIN items,
         NEW w, \A i \in T : w[i] \in Int,
         NEW it, \A i \in DOMAIN items :
           it[i].remaining = IF i \in T THEN items[i].remaining - w[i] ELSE items[i].remaining
  PROVE  /\ SumFunctionOnSet([i \in DOMAIN items |-> Part(it, i, a)], DOMAIN items)
              = Outstanding(a) - Taken(w, T, a)
         /\ Taken(w, T, a) \in Int
         /\ \A i \in DOMAIN items : Part(it, i, a) \in Int
<1> DEFINE U == {i \in T : Control(i) = a}
           D == DOMAIN items
           f == [i \in D |-> Part(items, i, a)]
           h == [i \in D |-> Part(it, i, a)]
           g == [i \in D |-> IF i \in U THEN Sign(i) * w[i] ELSE 0]
           k == [i \in U |-> Sign(i) * w[i]]
<1>0. \A i \in D : items[i].remaining \in Int /\ (Sign(i) = 1 \/ Sign(i) = -1)
  BY Signs DEF Forms, ItemForm
<1>1. \A i \in D : f[i] \in Int /\ g[i] \in Int
  <2> SUFFICES ASSUME NEW i \in D PROVE f[i] \in Int /\ g[i] \in Int
    OBVIOUS
  <2>1. QED
    BY <1>0 DEF Part
<1>2. \A i \in D : h[i] \in Int /\ f[i] = h[i] + g[i]
  <2> SUFFICES ASSUME NEW i \in D PROVE h[i] \in Int /\ f[i] = h[i] + g[i]
    OBVIOUS
  <2>1. CASE Sign(i) = 1
    BY <2>1, <1>0 DEF Part
  <2>2. CASE Sign(i) = -1
    BY <2>2, <1>0 DEF Part
  <2>3. QED
    BY <2>1, <2>2, <1>0
<1>3. IsFiniteSet(D) /\ U \subseteq D /\ IsFiniteSet(U)
  BY FS_Subset DEF Finite
<1>4. \A i \in D \ U : g[i] = 0
  OBVIOUS
<1>5. \A i \in U : g[i] = k[i]
  OBVIOUS
<1>6. Taken(w, T, a) = SumFunctionOnSet(k, U)
  BY SumAll DEF Taken
<1>7. Outstanding(a) = SumFunctionOnSet(f, D)
  BY OutstandingIs DEF OutstandingSums
<1>i. \A i \in D : Part(it, i, a) \in Int
  BY <1>2
<1> SUFFICES /\ SumFunctionOnSet(h, D) = Outstanding(a) - Taken(w, T, a)
             /\ Taken(w, T, a) \in Int
  BY <1>i
<1> HIDE DEF f, g, h, k, U, D
<1>8. SumFunctionOnSet(f, D) = SumFunctionOnSet(h, D) + SumFunctionOnSet(g, D)
  BY <1>1, <1>2, <1>3, SumPlus
<1>9. SumFunctionOnSet(g, D) = SumFunctionOnSet(g, U)
  BY <1>1, <1>3, <1>4, SumOver
<1>10. SumFunctionOnSet(g, U) = SumFunctionOnSet(k, U)
  BY <1>3, <1>5, SumSame
<1>11. SumFunctionOnSet(g, D) \in Int /\ SumFunctionOnSet(h, D) \in Int
  BY <1>1, <1>2, <1>3, SumAt
<1>12. QED
  BY <1>6, <1>7, <1>8, <1>9, <1>10, <1>11

(* Lowered items leave that much less outstanding. *)
LEMMA OutstandingStep ==
  ASSUME Finite, Forms, Finite', Forms', NEW a \in Controls, NEW T, T \subseteq DOMAIN items,
         NEW w, \A i \in T : w[i] \in Int, DOMAIN items' = DOMAIN items,
         \A i \in DOMAIN items :
           items'[i].remaining = IF i \in T THEN items[i].remaining - w[i] ELSE items[i].remaining
  PROVE  Outstanding(a)' = Outstanding(a) - Taken(w, T, a)
<1> DEFINE it == items'
           D == DOMAIN items
<1>1. Outstanding(a)' = SumFunctionOnSet([i \in D |-> Part(it, i, a)], D)
  <2>1. OutstandingSums'
    BY OutstandingIs, PTL
  <2>2. QED
    BY <2>1 DEF OutstandingSums
<1>2. \A i \in DOMAIN items :
        it[i].remaining = IF i \in T THEN items[i].remaining - w[i] ELSE items[i].remaining
  OBVIOUS
<1> HIDE DEF it
<1>3. QED
  BY <1>1, <1>2, OutstandingLowered

(* A new item is outstanding as a whole. *)
LEMMA OutstandingGains ==
  ASSUME Finite, Forms, Finite', Forms', NEW a \in Controls, NEW T, T \subseteq DOMAIN items,
         NEW w, \A i \in T : w[i] \in Int,
         NEW n, n \notin DOMAIN items, DOMAIN items' = DOMAIN items \union {n},
         \A i \in DOMAIN items :
           items'[i].remaining = IF i \in T THEN items[i].remaining - w[i] ELSE items[i].remaining
  PROVE  Outstanding(a)' = Outstanding(a) - Taken(w, T, a)
                           + (IF Control(n) = a THEN Sign(n) * items'[n].remaining ELSE 0)
<1> DEFINE it == items'
           D == DOMAIN items
           h == [i \in D \union {n} |-> Part(it, i, a)]
           f == [i \in D |-> Part(it, i, a)]
           last == Part(it, n, a)
<1>1. Outstanding(a)' = SumFunctionOnSet(h, D \union {n})
  <2>1. OutstandingSums'
    BY OutstandingIs, PTL
  <2>2. QED
    BY <2>1 DEF OutstandingSums
<1>2. \A i \in DOMAIN items :
        it[i].remaining = IF i \in T THEN items[i].remaining - w[i] ELSE items[i].remaining
  OBVIOUS
<1>3. last = (IF Control(n) = a THEN Sign(n) * items'[n].remaining ELSE 0)
  BY DEF Part
<1>n. last \in Int
  <2>1. n \in Items /\ items'[n].remaining \in Nat
    BY DEF Forms, ItemForm
  <2>2. Sign(n) = 1 \/ Sign(n) = -1
    BY <2>1, Signs
  <2>3. QED
    BY <2>1, <2>2 DEF Part
<1>4. /\ SumFunctionOnSet(f, D) = Outstanding(a) - Taken(w, T, a)
      /\ Taken(w, T, a) \in Int
      /\ \A i \in DOMAIN items : Part(it, i, a) \in Int
  <2> HIDE DEF it, last, h
  <2>1. QED
    BY <1>2, OutstandingLowered
<1>5. \A i \in D \union {n} : h[i] \in Int
  BY <1>4, <1>n
<1>6. \A i \in D : h[i] = f[i]
  OBVIOUS
<1>7. h[n] = last /\ IsFiniteSet(D)
  BY DEF Finite
<1>8. Outstanding(a) \in Int
  BY OutstandingIs DEF OutstandingSums
<1>9. SumFunctionOnSet(h, D \union {n}) = SumFunctionOnSet(h, D) + h[n]
  <2> HIDE DEF h, f, last, it
  <2>1. QED
    BY <1>5, <1>7, SumAdd
<1>10. SumFunctionOnSet(h, D) = SumFunctionOnSet(f, D)
  <2> HIDE DEF h, f, last, it
  <2>1. QED
    BY <1>6, <1>7, SumSame
<1> HIDE DEF h, f, last, it
<1>11. QED
  BY <1>1, <1>3, <1>4, <1>7, <1>9, <1>10

--------------------------------------------------------------------------------
(* What a payment has used: the allocations of its earlier batches.              *)
LEMMA UsedIs ==
  Finite /\ Forms =>
    \A s : /\ Used(s) \in Int /\ IsFiniteSet(Earlier(s))
           /\ \A x \in Earlier(s) : x.signed \in Int
           /\ Used(s) = SumFunctionOnSet([x \in Earlier(s) |-> x.signed], Earlier(s))
<1> SUFFICES ASSUME Finite, Forms, NEW s
             PROVE  /\ Used(s) \in Int /\ IsFiniteSet(Earlier(s))
                    /\ \A x \in Earlier(s) : x.signed \in Int
                    /\ Used(s) = SumFunctionOnSet([x \in Earlier(s) |-> x.signed], Earlier(s))
  OBVIOUS
<1> DEFINE E == Earlier(s)
           f == [x \in E |-> x.signed]
<1>1. IsFiniteSet(E) /\ \A x \in E : x.signed \in Int
  BY FS_Subset DEF Finite, Forms, AllocForm, Earlier
<1>2. Used(s) = SumFunctionOnSet(f, E)
  BY SumAll DEF Used
<1>3. \A x \in E : f[x] \in Int
  BY <1>1
<1>4. SumFunctionOnSet(f, E) \in Int
  <2> HIDE DEF f, E
  <2>1. QED
    BY <1>1, <1>3, SumAt
<1>5. QED
  BY <1>1, <1>2, <1>4

(* Allocations of other payments do not use this one. *)
LEMMA UsedStays ==
  ASSUME NEW s, allocs \subseteq allocs',
         \A x \in allocs' \ allocs : x.kind \in {"settlement", "unapplied_receipt"} => x.source # s
  PROVE  Used(s)' = Used(s) /\ Earlier(s)' = Earlier(s)
<1>1. Earlier(s)' = Earlier(s)
  BY DEF Earlier
<1>2. QED
  BY <1>1 DEF Used

(* New allocations of a payment use it by their sum. *)
LEMMA UsedGrows ==
  ASSUME Finite, Forms, NEW s, NEW N, IsFiniteSet(N), N \cap Earlier(s) = {},
         \A x \in N : x.signed \in Int, Earlier(s)' = Earlier(s) \cup N
  PROVE  Used(s)' = Used(s) + SumFunctionOnSet([x \in N |-> x.signed], N)
<1> DEFINE E == Earlier(s)
           h == [x \in E \cup N |-> x.signed]
           f == [x \in E |-> x.signed]
           g == [x \in N |-> x.signed]
<1>1. IsFiniteSet(E) /\ (\A x \in E : x.signed \in Int) /\ Used(s) = SumFunctionOnSet(f, E)
  BY UsedIs
<1>2. Used(s)' = SumFunctionOnSet(h, E \cup N)
  BY SumAll DEF Used
<1>3. \A x \in E \cup N : h[x] \in Int
  BY <1>1
<1>4. (\A x \in E : h[x] = f[x]) /\ (\A x \in N : h[x] = g[x]) /\ E \cap N = {}
  OBVIOUS
<1> SUFFICES Used(s)' = Used(s) + SumFunctionOnSet(g, N)
  OBVIOUS
<1> HIDE DEF E, h, f, g
<1>5. SumFunctionOnSet(h, E \cup N) = SumFunctionOnSet(h, E) + SumFunctionOnSet(h, N)
  BY <1>1, <1>3, <1>4, SumUnion
<1>6. SumFunctionOnSet(h, E) = SumFunctionOnSet(f, E) /\ SumFunctionOnSet(h, N) = SumFunctionOnSet(g, N)
  BY <1>1, <1>4, SumSame
<1>7. QED
  BY <1>1, <1>2, <1>5, <1>6

--------------------------------------------------------------------------------
(* What no item and no allocation explains, entry by entry.                      *)
RegisteredSum(s, a) == SumFunction([i \in Registered(s, a) |-> Sign(i) * items[i].original])
Rest(e, a) ==
  IF e[1] = "feed" /\ ledger[e][a] # 0 /\ ~BookedBySettlement(e[2])
  THEN ledger[e][a] + Used(e[2]) - RegisteredSum(e[2], a) ELSE 0

(* The originals of some items sum to an integer. *)
LEMMA OriginalsInt ==
  ASSUME Finite, Forms, NEW S \in SUBSET (DOMAIN items)
  PROVE  /\ \A i \in S : Sign(i) * items[i].original \in Int
         /\ SumFunction([i \in S |-> Sign(i) * items[i].original]) \in Int
         /\ IsFiniteSet(S)
<1> DEFINE f == [i \in S |-> Sign(i) * items[i].original]
<1>1. ASSUME NEW i \in S PROVE Sign(i) * items[i].original \in Int
  <2>1. items[i].original \in Nat /\ (Sign(i) = 1 \/ Sign(i) = -1)
    BY Signs DEF Forms, ItemForm
  <2>2. QED
    BY <2>1
<1>2. IsFiniteSet(S)
  BY FS_Subset DEF Finite
<1>3. \A i \in S : f[i] \in Int
  BY <1>1
<1>4. SumFunction(f) = SumFunctionOnSet(f, S)
  BY SumAll
<1>5. SumFunctionOnSet(f, S) \in Int
  <2> HIDE DEF f
  <2>1. QED
    BY <1>2, <1>3, SumAt
<1>6. QED
  BY <1>1, <1>2, <1>4, <1>5

UnexplainedSums ==
  \A a \in Controls :
    /\ Unexplained(a) = SumFunctionOnSet([e \in DOMAIN ledger |-> Rest(e, a)], DOMAIN ledger)
    /\ Unexplained(a) \in Int
    /\ \A e \in DOMAIN ledger : Rest(e, a) \in Int

(* What is unexplained, as a sum over all entries. *)
LEMMA UnexplainedIs == Finite /\ Forms => UnexplainedSums
<1> SUFFICES ASSUME Finite, Forms, NEW a \in Controls
             PROVE  /\ Unexplained(a) = SumFunctionOnSet([e \in DOMAIN ledger |-> Rest(e, a)], DOMAIN ledger)
                    /\ Unexplained(a) \in Int
                    /\ \A e \in DOMAIN ledger : Rest(e, a) \in Int
  BY DEF UnexplainedSums
<1> DEFINE D == DOMAIN ledger
           O == Ordinary(a)
           f == [e \in D |-> Rest(e, a)]
           g == [e \in O |-> ledger[e][a] + Used(e[2]) - RegisteredSum(e[2], a)]
<1>1. ASSUME NEW e \in D PROVE Rest(e, a) \in Int
  <2>1. ledger[e][a] \in Int
    BY DEF Forms, EntryForm
  <2>2. Used(e[2]) \in Int
    BY UsedIs
  <2>3. RegisteredSum(e[2], a) \in Int
    BY OriginalsInt DEF RegisteredSum, Registered, FromRow
  <2>4. QED
    BY <2>1, <2>2, <2>3 DEF Rest
<1>2. Unexplained(a) = SumFunctionOnSet(g, O)
  BY SumAll DEF Unexplained, RegisteredSum
<1>3. \A e \in D \ O : f[e] = 0
  BY DEF Rest, Ordinary
<1>4. \A e \in O : f[e] = g[e]
  BY DEF Rest, Ordinary
<1>5. \A e \in D : f[e] \in Int
  BY <1>1
<1>6. IsFiniteSet(D) /\ O \subseteq D /\ IsFiniteSet(O)
  BY FS_Subset DEF Finite, Ordinary
<1>7. SumFunctionOnSet(f, D) = SumFunctionOnSet(f, O)
  <2> HIDE DEF f, g, D, O
  <2>1. QED
    BY <1>3, <1>5, <1>6, SumOver
<1>8. SumFunctionOnSet(f, O) = SumFunctionOnSet(g, O)
  <2> HIDE DEF f, g, D, O
  <2>1. QED
    BY <1>4, <1>6, SumSame
<1>9. SumFunctionOnSet(f, D) \in Int
  <2> HIDE DEF f, g, D, O
  <2>1. QED
    BY <1>5, <1>6, SumAt
<1>10. QED
  BY <1>1, <1>2, <1>7, <1>8, <1>9

(* One entry explained by more or less changes the sum by as much. *)
LEMMA UnexplainedStep ==
  ASSUME Finite, Forms, Finite', Forms', NEW a \in Controls,
         DOMAIN ledger' = DOMAIN ledger, NEW d \in Int, NEW x,
         \A e \in DOMAIN ledger : Rest(e, a)' = IF e = x THEN Rest(e, a) + d ELSE Rest(e, a),
         d # 0 => x \in DOMAIN ledger
  PROVE  Unexplained(a)' = Unexplained(a) + d
<1> DEFINE D == DOMAIN ledger
           f == [e \in D |-> Rest(e, a)]
           h == [e \in D |-> Rest(e, a)']
<1>1. UnexplainedSums'
  BY UnexplainedIs, PTL
<1>2. Unexplained(a)' = SumFunctionOnSet(h, D) /\ \A e \in D : h[e] \in Int
  BY <1>1 DEF UnexplainedSums
<1>3. Unexplained(a) = SumFunctionOnSet(f, D) /\ \A e \in D : f[e] \in Int
  BY UnexplainedIs DEF UnexplainedSums
<1>4. \A e \in D : h[e] = IF e = x THEN f[e] + d ELSE f[e]
  OBVIOUS
<1>5. IsFiniteSet(D)
  BY DEF Finite
<1>x. d # 0 => x \in D
  OBVIOUS
<1> HIDE DEF f, h, D
<1>6. CASE x \in D
  BY <1>2, <1>3, <1>4, <1>5, <1>6, SumChange
<1>7. CASE x \notin D
  <2>1. \A e \in D : h[e] = f[e]
    BY <1>4, <1>7
  <2>2. SumFunctionOnSet(h, D) = SumFunctionOnSet(f, D)
    BY <1>5, <2>1, SumSame
  <2>3. SumFunctionOnSet(f, D) \in Int
    BY <1>3, <1>5, SumAt
  <2>4. QED
    BY <1>2, <1>3, <1>x, <1>7, <2>2, <2>3
<1>8. QED
  BY <1>6, <1>7

(* A new entry adds its own rest. *)
LEMMA UnexplainedGains ==
  ASSUME Finite, Forms, Finite', Forms', NEW a \in Controls,
         NEW n, n \notin DOMAIN ledger, DOMAIN ledger' = DOMAIN ledger \union {n},
         \A e \in DOMAIN ledger : Rest(e, a)' = Rest(e, a)
  PROVE  Unexplained(a)' = Unexplained(a) + Rest(n, a)'
<1> DEFINE D == DOMAIN ledger
           f == [e \in D |-> Rest(e, a)]
           h == [e \in D \union {n} |-> Rest(e, a)']
           last == Rest(n, a)'
<1>1. UnexplainedSums'
  BY UnexplainedIs, PTL
<1>2. Unexplained(a)' = SumFunctionOnSet(h, D \union {n}) /\ \A e \in D \union {n} : h[e] \in Int
  BY <1>1 DEF UnexplainedSums
<1>3. Unexplained(a) = SumFunctionOnSet(f, D) /\ \A e \in D : f[e] \in Int
  BY UnexplainedIs DEF UnexplainedSums
<1>4. \A e \in D : h[e] = f[e]
  OBVIOUS
<1>5. IsFiniteSet(D) /\ n \notin D /\ h[n] = last
  BY DEF Finite
<1> HIDE DEF f, h, D, last
<1>6. SumFunctionOnSet(h, D \union {n}) = SumFunctionOnSet(h, D) + h[n]
  BY <1>2, <1>5, SumAdd
<1>7. SumFunctionOnSet(h, D) = SumFunctionOnSet(f, D)
  BY <1>4, <1>5, SumSame
<1>8. QED
  BY <1>2, <1>3, <1>5, <1>6, <1>7 DEF last

(* The originals of items that came with a row: nothing rewrites them.           *)
LEMMA RegisteredStays ==
  ASSUME Finite, Forms, Grows, NEW s, NEW a \in Controls,
         \A i \in DOMAIN items' \ DOMAIN items :
           items'[i].source = s /\ Control(i) = a => receipts'[items'[i].op].request.kind # "item_create"
  PROVE  RegisteredSum(s, a)' = RegisteredSum(s, a) /\ RegisteredSum(s, a) \in Int
<1>1. \A i \in DOMAIN items : receipts'[items'[i].op] = receipts[items[i].op]
  BY DEF Grows, Forms, ItemForm
<1>2. Registered(s, a)' = Registered(s, a)
  BY <1>1 DEF Registered, FromRow, Grows
<1> DEFINE R == Registered(s, a)
           f == [i \in R |-> Sign(i) * items[i].original]
           h == [i \in R |-> Sign(i) * items'[i].original]
<1>3. R \in SUBSET (DOMAIN items)
  BY DEF Registered, FromRow
<1>4. f = h
  BY <1>3 DEF Grows
<1>5. RegisteredSum(s, a)' = SumFunction(h)
  BY <1>2 DEF RegisteredSum
<1>6. RegisteredSum(s, a) = SumFunction(f)
  BY DEF RegisteredSum
<1>7. SumFunction(f) \in Int
  <2> HIDE DEF R
  <2>1. QED
    BY <1>3, OriginalsInt
<1>8. QED
  BY <1>4, <1>5, <1>6, <1>7

(* An item made from a row adds its original to what came with that row. *)
LEMMA RegisteredGains ==
  ASSUME Finite, Forms, Finite', Forms', Grows, NEW s, NEW a \in Controls,
         NEW n, n \notin DOMAIN items, DOMAIN items' = DOMAIN items \union {n},
         items'[n].source = s, Control(n) = a, receipts'[items'[n].op].request.kind = "item_create"
  PROVE  RegisteredSum(s, a)' = RegisteredSum(s, a) + Sign(n) * items'[n].original
<1>1. \A i \in DOMAIN items : receipts'[items'[i].op] = receipts[items[i].op]
  BY DEF Grows, Forms, ItemForm
<1> DEFINE R == Registered(s, a)
           f == [i \in R |-> Sign(i) * items[i].original]
           h == [i \in R \union {n} |-> Sign(i) * items'[i].original]
<1>2. Registered(s, a)' = R \union {n}
  BY <1>1 DEF Registered, FromRow, Grows
<1>3. R \in SUBSET (DOMAIN items)
  BY DEF Registered, FromRow
<1>4. (\A i \in R : h[i] = f[i]) /\ h[n] = Sign(n) * items'[n].original
  BY <1>3 DEF Grows
<1>5. RegisteredSum(s, a)' = SumFunctionOnSet(h, R \union {n})
  BY <1>2, SumAll DEF RegisteredSum
<1>6. RegisteredSum(s, a) = SumFunctionOnSet(f, R)
  BY SumAll DEF RegisteredSum
<1>7. (\A i \in R : f[i] \in Int) /\ IsFiniteSet(R) /\ n \notin R
  <2>1. \A i \in R : Sign(i) * items[i].original \in Int
    <3> HIDE DEF R
    <3>1. QED
      BY <1>3, OriginalsInt
  <2>2. IsFiniteSet(R)
    BY <1>3, FS_Subset DEF Finite
  <2>3. QED
    BY <2>1, <2>2, <1>3
<1>8. h[n] \in Int
  <2>1. n \in Items /\ items'[n].original \in Nat
    BY DEF Forms, ItemForm
  <2>2. Sign(n) = 1 \/ Sign(n) = -1
    BY <2>1, Signs
  <2>3. QED
    BY <1>4, <2>1, <2>2
<1>9. \A i \in R \union {n} : h[i] \in Int
  BY <1>4, <1>7, <1>8
<1> HIDE DEF R, f, h
<1>10. SumFunctionOnSet(h, R \union {n}) = SumFunctionOnSet(h, R) + h[n]
  BY <1>7, <1>9, SumAdd
<1>11. SumFunctionOnSet(h, R) = SumFunctionOnSet(f, R)
  BY <1>4, <1>7, SumSame
<1>12. QED
  BY <1>4, <1>5, <1>6, <1>10, <1>11

(* A row that no item came with has nothing reserved, and another credit from it *)
(* only reserves more.                                                            *)
LEMMA ReservedFalls ==
  ASSUME Finite, Forms, Finite', Forms', Grows, NEW s,
         NEW n, DOMAIN items' \subseteq DOMAIN items \union {n}
  PROVE  /\ Reserved(s, "Deposits")' <= Reserved(s, "Deposits")
         /\ Reserved(s, "Deposits")' \in Int /\ Reserved(s, "Deposits") \in Int
<1> DEFINE R == FromRow(s, "Deposits")
           Q == FromRow(s, "Deposits")'
           f == [i \in R |-> Sign(i) * items[i].original]
           h == [i \in Q |-> Sign(i) * items'[i].original]
<1>1. R \in SUBSET (DOMAIN items) /\ Q \in SUBSET (DOMAIN items') /\ R \subseteq Q
      /\ Q \subseteq R \union {n}
  BY DEF FromRow, Grows
<1>2. Reserved(s, "Deposits") = SumFunctionOnSet(f, R) /\ Reserved(s, "Deposits")' = SumFunctionOnSet(h, Q)
  BY SumAll DEF Reserved
<1>3. \A i \in R : h[i] = f[i]
  BY <1>1 DEF Grows
<1>4. \A i \in Q : h[i] \in Int /\ h[i] <= 0
  <2> SUFFICES ASSUME NEW i \in Q PROVE h[i] \in Int /\ h[i] <= 0
    OBVIOUS
  <2>1. i \in Items /\ items'[i].original \in Nat
    BY <1>1 DEF Forms, ItemForm
  <2>2. Control(i) = "Deposits"
    BY DEF FromRow
  <2>3. Sign(i) = -1
    BY <2>1, <2>2, Signs
  <2>4. QED
    BY <2>1, <2>3
<1>5. IsFiniteSet(R) /\ IsFiniteSet(Q)
  BY <1>1, FS_Subset DEF Finite
<1>6. (Q = R \union {n} /\ n \notin R /\ n \in Q) \/ Q = R
  BY <1>1
<1> HIDE DEF R, Q, f, h
<1>7. SumFunctionOnSet(h, R) = SumFunctionOnSet(f, R)
  BY <1>3, <1>5, SumSame
<1>8. SumFunctionOnSet(h, Q) \in Int
  BY <1>4, <1>5, SumAt
<1>9. SumFunctionOnSet(f, R) \in Int
  BY <1>1, <1>3, <1>4, <1>5, SumAt
<1>10. CASE Q = R
  BY <1>2, <1>7, <1>8, <1>9, <1>10
<1>11. CASE Q = R \union {n} /\ n \notin R /\ n \in Q
  <2>1. \A i \in R \union {n} : h[i] \in Int
    BY <1>4, <1>11
  <2>2. SumFunctionOnSet(h, R \union {n}) = SumFunctionOnSet(h, R) + h[n]
    BY <1>5, <1>11, <2>1, SumAdd
  <2>3. h[n] \in Int /\ h[n] <= 0 /\ SumFunctionOnSet(h, Q) = SumFunctionOnSet(h, R) + h[n]
    BY <1>4, <1>11, <2>2
  <2>4. QED
    BY <1>2, <1>7, <1>8, <1>9, <2>3
<1>12. QED
  BY <1>6, <1>10, <1>11

(* Credits only reserve below zero. *)
LEMMA ReservedSign ==
  ASSUME Finite, Forms, NEW s
  PROVE  Reserved(s, "Deposits") \in Int /\ Reserved(s, "Deposits") <= 0
<1> DEFINE R == FromRow(s, "Deposits")
           f == [i \in R |-> Sign(i) * items[i].original]
           h == [i \in R |-> items[i].original]
<1>1. \A i \in R : items[i].original \in Nat /\ Sign(i) = -1
  <2> SUFFICES ASSUME NEW i \in R PROVE items[i].original \in Nat /\ Sign(i) = -1
    OBVIOUS
  <2>1. QED
    BY Signs DEF FromRow, Forms, ItemForm
<1>2. \A i \in R : h[i] \in Int /\ h[i] >= 0 /\ f[i] = -h[i]
  BY <1>1
<1>3. IsFiniteSet(R)
  BY FS_Subset DEF Finite, FromRow
<1>4. Reserved(s, "Deposits") = SumFunctionOnSet(f, R)
  BY SumAll DEF Reserved
<1> HIDE DEF R, f, h
<1>5. SumFunctionOnSet(f, R) = -SumFunctionOnSet(h, R)
  BY <1>2, <1>3, SumNegated
<1>6. SumFunctionOnSet(h, R) \in Int /\ SumFunctionOnSet(h, R) >= 0
  BY <1>2, <1>3, SumSigned
<1>7. QED
  BY <1>4, <1>5, <1>6

--------------------------------------------------------------------------------
(* Settlements: the rows of a receipt are all invoices, of a payment all credits. *)
LEMMA Products ==
  ASSUME NEW m \in Int, NEW n \in Int
  PROVE  /\ n > 0 /\ m * n >= 0 => m >= 0
         /\ n < 0 /\ m * n >= 0 => m <= 0
         /\ n * n >= 0
         /\ Abs(n) \in Int /\ Abs(n) >= 0
  BY DEF Abs

(* The rows of a settlement are items it may lower, all on the side of the cash. *)
LEMMA SettleRows ==
  ASSUME Finite, Forms, NEW r \in Requests, r.kind = "item_settlement", CanSettle(r)
  PROVE  /\ DOMAIN r.rows \subseteq DOMAIN items /\ IsFiniteSet(DOMAIN r.rows)
         /\ \A i \in DOMAIN r.rows : r.rows[i] \in Nat /\ r.rows[i] > 0
                                   /\ r.rows[i] <= items[i].remaining
         /\ r.source \in Sources /\ r.source[1] \in Payments
         /\ \A a \in Controls : Taken(r.rows, DOMAIN r.rows, a) \in Int
         /\ RowSum(r) \in Int
         /\ Cash[r.source[1]] > 0 =>
              /\ RowSum(r) >= 0 /\ (RowSum(r) = 0 => DOMAIN r.rows = {})
              /\ Taken(r.rows, DOMAIN r.rows, "Deposits") = 0
              /\ Taken(r.rows, DOMAIN r.rows, "Receivable") = RowSum(r)
         /\ ~(Cash[r.source[1]] > 0) =>
              /\ RowSum(r) <= 0 /\ (RowSum(r) = 0 => DOMAIN r.rows = {})
              /\ Taken(r.rows, DOMAIN r.rows, "Receivable") = 0
              /\ Taken(r.rows, DOMAIN r.rows, "Deposits") = RowSum(r)
<1> DEFINE T == DOMAIN r.rows
           w == r.rows
           p == r.source[1]
           f == [i \in T |-> Sign(i) * w[i]]
           up == [i \in T |-> w[i]]
           U(a) == {i \in T : Control(i) = a}
           g(a) == [i \in U(a) |-> Sign(i) * w[i]]
<1>1. T \subseteq DOMAIN items /\ T \subseteq Items
  BY RequestForms DEF CanSettle, Open
<1>2. \A i \in T : w[i] \in Nat /\ w[i] > 0
  BY RequestForms, Amount
<1>3. r.source \in Sources /\ p \in Payments /\ Cash[p] \in Int /\ Cash[p] # 0
  BY RequestForms, SourcePair, MoneyAssumption
<1>4. \A i \in T : w[i] <= items[i].remaining /\ Sign(i) * Cash[p] > 0
  BY DEF CanSettle
<1>5. IsFiniteSet(T)
  BY <1>1, FS_Subset DEF Finite
<1>6. \A i \in T : (Sign(i) = 1 \/ Sign(i) = -1) /\ (Sign(i) = 1 => Control(i) = "Receivable")
                   /\ (Sign(i) = -1 => Control(i) = "Deposits")
  BY <1>1, Signs
<1>7. \A i \in T : Sign(i) = IF Cash[p] > 0 THEN 1 ELSE -1
  <2> SUFFICES ASSUME NEW i \in T PROVE Sign(i) = IF Cash[p] > 0 THEN 1 ELSE -1
    OBVIOUS
  <2>1. Sign(i) * Cash[p] > 0 /\ (Sign(i) = 1 \/ Sign(i) = -1) /\ Cash[p] \in Int
    BY <1>3, <1>4, <1>6
  <2>2. QED
    BY <2>1
<1>8. RowSum(r) = SumFunctionOnSet(f, T)
  BY SumAll DEF RowSum
<1>9. \A a : Taken(r.rows, DOMAIN r.rows, a) = SumFunctionOnSet(g(a), U(a))
  BY SumAll DEF Taken
<1>10. \A i \in T : f[i] \in Int /\ up[i] \in Int /\ up[i] > 0
                    /\ (Cash[p] > 0 => f[i] = up[i]) /\ (~(Cash[p] > 0) => f[i] = -up[i])
  BY <1>2, <1>7
<1>11. \A a : \A i \in U(a) : g(a)[i] = f[i]
  OBVIOUS
<1>12. \A a : U(a) \subseteq T
  OBVIOUS
<1>13. /\ Cash[p] > 0 => U("Deposits") = {} /\ U("Receivable") = T
       /\ ~(Cash[p] > 0) => U("Receivable") = {} /\ U("Deposits") = T
  BY <1>6, <1>7
<1> SUFFICES /\ \A a : SumFunctionOnSet(g(a), U(a)) \in Int
             /\ SumFunctionOnSet(f, T) \in Int
             /\ Cash[p] > 0 =>
                  /\ SumFunctionOnSet(f, T) >= 0 /\ (SumFunctionOnSet(f, T) = 0 => T = {})
                  /\ SumFunctionOnSet(g("Deposits"), U("Deposits")) = 0
                  /\ SumFunctionOnSet(g("Receivable"), U("Receivable")) = SumFunctionOnSet(f, T)
             /\ ~(Cash[p] > 0) =>
                  /\ SumFunctionOnSet(f, T) <= 0 /\ (SumFunctionOnSet(f, T) = 0 => T = {})
                  /\ SumFunctionOnSet(g("Receivable"), U("Receivable")) = 0
                  /\ SumFunctionOnSet(g("Deposits"), U("Deposits")) = SumFunctionOnSet(f, T)
  <2> HIDE DEF f, g, U
  <2>1. QED
    BY <1>1, <1>2, <1>3, <1>4, <1>5, <1>8, <1>9
<1> HIDE DEF f, g, U, T, up, p, w
<1>14. \A a : SumFunctionOnSet(g(a), U(a)) = SumFunctionOnSet(f, U(a)) /\ IsFiniteSet(U(a))
  <2> TAKE a
  <2>1. IsFiniteSet(U(a)) /\ \A i \in U(a) : g(a)[i] = f[i]
    BY <1>5, <1>11, <1>12, FS_Subset
  <2>2. QED
    BY <2>1, SumSame
<1>15. \A a : SumFunctionOnSet(f, U(a)) \in Int
  <2> TAKE a
  <2>1. IsFiniteSet(U(a)) /\ \A i \in U(a) : f[i] \in Int
    BY <1>10, <1>12, <1>14
  <2>2. QED
    BY <2>1, SumAt
<1>16. SumFunctionOnSet(f, T) \in Int
  BY <1>5, <1>10, SumAt
<1>17. /\ SumFunctionOnSet(up, T) \in Int /\ SumFunctionOnSet(up, T) >= 0
       /\ \A i \in T : SumFunctionOnSet(up, T) >= up[i]
  <2>1. \A i \in T : up[i] \in Int /\ up[i] >= 0
    BY <1>10
  <2>2. QED
    BY <1>5, <2>1, SumSigned
<1>18. SumFunctionOnSet(up, T) = 0 => T = {}
  BY <1>10, <1>17
<1>19. CASE Cash[p] > 0
  <2>1. SumFunctionOnSet(f, T) = SumFunctionOnSet(up, T)
    BY <1>5, <1>10, <1>19, SumSame
  <2>2. SumFunctionOnSet(f, U("Deposits")) = 0 /\ SumFunctionOnSet(f, U("Receivable")) = SumFunctionOnSet(f, T)
    BY <1>13, <1>19, SumEmpty
  <2>3. QED
    BY <1>14, <1>15, <1>16, <1>17, <1>18, <1>19, <2>1, <2>2
<1>20. CASE ~(Cash[p] > 0)
  <2>0. \A i \in T : up[i] \in Int /\ f[i] = -up[i]
    BY <1>10, <1>20
  <2>1. SumFunctionOnSet(f, T) = -SumFunctionOnSet(up, T)
    BY <1>5, <2>0, SumNegated
  <2>2. SumFunctionOnSet(f, U("Receivable")) = 0 /\ SumFunctionOnSet(f, U("Deposits")) = SumFunctionOnSet(f, T)
    BY <1>13, <1>20, SumEmpty
  <2>3. QED
    BY <1>14, <1>15, <1>16, <1>17, <1>18, <1>20, <2>1, <2>2
<1>21. QED
  BY <1>19, <1>20

(* The excess of a settlement is positive and leaves a credit of a receipt. *)
LEMMA SettleExcess ==
  ASSUME Finite, Forms, NEW r \in Requests, r.kind = "item_settlement", CanSettle(r)
  PROVE  /\ Excess(r) \in Int /\ Used(r.source) \in Int /\ Gross(r.source[1]) \in Int
         /\ r.excess = NoItem => Excess(r) = 0
         /\ r.excess # NoItem =>
              /\ Excess(r) > 0 /\ Cash[r.source[1]] > 0
              /\ r.excess \in Credits /\ r.excess \notin DOMAIN items
              /\ Used(r.source) + RowSum(r) + Excess(r) = Gross(r.source[1])
         /\ Abs(Used(r.source) + RowSum(r) + Excess(r)) <= Abs(Gross(r.source[1]))
         /\ (Used(r.source) + RowSum(r) + Excess(r)) * Gross(r.source[1]) >= 0
<1> DEFINE u == Used(r.source)
           n == RowSum(r)
           x == Excess(r)
           G == Gross(r.source[1])
<1>1. u \in Int /\ n \in Int /\ G \in Int /\ Cash[r.source[1]] \in Int /\ (Cash[r.source[1]] > 0 => G > 0)
  BY UsedIs, SettleRows, GrossInt
<1>2. x = IF r.excess = NoItem THEN 0 ELSE G - u - n
  BY DEF Excess
<1>3. Abs(u + n) <= Abs(G) /\ (u + n) * G >= 0
  BY DEF CanSettle
<1>4. r.excess # NoItem => x # 0 /\ r.excess \notin DOMAIN items /\ Cash[r.source[1]] > 0
  BY DEF CanSettle
<1>5. r.excess # NoItem => r.excess \in Credits
  BY RequestForms
<1>6. G * G >= 0 /\ Abs(G) \in Int
  BY <1>1, Products
<1> HIDE DEF u, n, x, G
<1>7. CASE r.excess = NoItem
  <2>1. x = 0 /\ u + n + x = u + n
    BY <1>1, <1>2, <1>7
  <2>2. QED
    BY <1>1, <1>3, <1>7, <2>1 DEF u, n, x, G
<1>8. CASE r.excess # NoItem
  <2>1. x = G - u - n /\ x # 0 /\ G > 0
    BY <1>1, <1>2, <1>4, <1>8
  <2>2. u + n + x = G /\ x \in Int
    BY <1>1, <2>1
  <2>3. u + n >= 0
    BY <1>1, <1>3, <2>1, Products
  <2>4. u + n <= G
    BY <1>1, <1>3, <2>1, <2>3 DEF Abs
  <2>5. x > 0
    BY <1>1, <2>1, <2>4
  <2>6. Abs(u + n + x) <= Abs(G) /\ (u + n + x) * G >= 0
    BY <1>1, <1>6, <2>2
  <2>7. QED
    BY <1>1, <1>4, <1>5, <1>8, <2>2, <2>5, <2>6 DEF u, n, x, G
<1>9. QED
  BY <1>7, <1>8

(* What a settlement posts to a control account. *)
LEMMA SettlePosting ==
  ASSUME Finite, Forms, NEW r \in Requests, r.kind = "item_settlement", CanSettle(r), NEW a \in Controls
  PROVE  /\ ControlPosting(r, a)
              = (IF a = "Deposits" THEN -Excess(r) ELSE 0) - Taken(r.rows, DOMAIN r.rows, a)
         /\ ControlPosting(r, a) \in Int
<1>1. r.excess # NoItem => r.excess \in Credits /\ Control(r.excess) = "Deposits"
  BY SettleExcess DEF Control
<1>2. r.excess = NoItem => Excess(r) = 0
  BY SettleExcess
<1>3. ControlPosting(r, a) = (IF r.excess # NoItem /\ Control(r.excess) = a THEN -Excess(r) ELSE 0)
                             - Taken(r.rows, DOMAIN r.rows, a)
  BY DEF ControlPosting, Taken
<1>4. Excess(r) \in Int /\ Taken(r.rows, DOMAIN r.rows, a) \in Int
  BY SettleExcess, SettleRows
<1>5. QED
  BY <1>1, <1>2, <1>3, <1>4

(* The allocations a settlement writes. *)
RowAlloc(r, o, i) ==
  [id |-> <<"settlement", o, i>>, kind |-> "settlement", item |-> i,
   amount |-> r.rows[i], signed |-> Sign(i) * r.rows[i], source |-> r.source]
RestAlloc(r, o) ==
  [id |-> <<"unapplied", o, r.excess>>, kind |-> "unapplied_receipt", item |-> r.excess,
   amount |-> Abs(Excess(r)), signed |-> Excess(r), source |-> r.source]
SettleAllocs(r, o) ==
  {RowAlloc(r, o, i) : i \in DOMAIN r.rows} \union (IF r.excess = NoItem THEN {} ELSE {RestAlloc(r, o)})

(* A settlement uses its payment by its rows and its excess. *)
LEMMA SettleUses ==
  ASSUME Finite, Forms, NEW r \in Requests, r.kind = "item_settlement", CanSettle(r),
         NEW o, o \notin DOMAIN receipts, allocs' = allocs \union SettleAllocs(r, o)
  PROVE  /\ Used(r.source)' = Used(r.source) + RowSum(r) + Excess(r)
         /\ \A s : s # r.source => Used(s)' = Used(s)
         /\ IsFiniteSet(allocs')
<1> DEFINE T == DOMAIN r.rows
           m == [i \in T |-> RowAlloc(r, o, i)]
           A == {m[i] : i \in T}
           last == RestAlloc(r, o)
           L == IF r.excess = NoItem THEN {} ELSE {last}
           N == A \cup L
           s == r.source
           f == [x \in N |-> x.signed]
           h == [i \in T |-> Sign(i) * r.rows[i]]
<1>1. SettleAllocs(r, o) = N
  BY DEF SettleAllocs
<1>2. IsFiniteSet(T) /\ T \subseteq DOMAIN items /\ RowSum(r) \in Int /\ Excess(r) \in Int
  BY SettleRows, SettleExcess
<1>3. IsFiniteSet(A)
  <2> HIDE DEF m
  <2>1. QED
    BY <1>2, FiniteImage
<1>4. IsFiniteSet(L)
  BY FS_EmptySet, FS_Singleton
<1>5. IsFiniteSet(N)
  BY <1>3, <1>4, FS_Union
<1>r. \A i \in T : m[i].kind = "settlement" /\ m[i].source = s /\ m[i].id[2] = o /\ m[i].item = i
  BY DEF RowAlloc
<1>l. last.kind = "unapplied_receipt" /\ last.source = s /\ last.id[2] = o /\ last.signed = Excess(r)
  BY DEF RestAlloc
<1>a. \A x \in A : x.kind = "settlement" /\ x.source = s /\ x.id[2] = o
  <2> HIDE DEF m
  <2>1. QED
    BY <1>r
<1>6. \A x \in N : x.source = s /\ x.id[2] = o /\ x.kind \in {"settlement", "unapplied_receipt"}
  <2> HIDE DEF A, last
  <2>1. QED
    BY <1>a, <1>l
<1>7. Earlier(s)' = Earlier(s) \cup N
  <2> HIDE DEF N
  <2>1. QED
    BY <1>1, <1>6 DEF Earlier
<1>8. N \cap Earlier(s) = {}
  <2> SUFFICES ASSUME NEW x \in N, x \in Earlier(s) PROVE FALSE
    OBVIOUS
  <2>1. x.id[2] = o
    BY <1>6
  <2>2. x.id[2] \in DOMAIN receipts
    BY DEF Earlier, Forms, AllocForm
  <2>3. QED
    BY <2>1, <2>2
<1>9. \A i \in T : h[i] \in Int
  <2> SUFFICES ASSUME NEW i \in T PROVE h[i] \in Int
    OBVIOUS
  <2>1. r.rows[i] \in Nat /\ i \in Items
    BY <1>2, SettleRows DEF Forms, ItemForm
  <2>2. Sign(i) \in Int
    BY <2>1, Signs
  <2>3. QED
    BY <2>1, <2>2
<1>10. \A i \in T : f[m[i]] = h[i] /\ m[i] \in N
  BY DEF RowAlloc
<1>11. \A i, j \in T : m[i] = m[j] => i = j
  BY DEF RowAlloc
<1>12. r.excess # NoItem => last \in N /\ last \notin A /\ f[last] = Excess(r)
  <2>1. \A x \in A : x.kind = "settlement"
    BY <1>a
  <2>2. last.kind = "unapplied_receipt" /\ last.signed = Excess(r)
    BY <1>l
  <2>3. r.excess # NoItem => last \in N
    OBVIOUS
  <2> HIDE DEF A, last, N
  <2>4. last \notin A
    BY <2>1, <2>2
  <2>5. QED
    BY <2>2, <2>3, <2>4
<1>13. \A x \in N : x.signed \in Int
  <2> SUFFICES ASSUME NEW x \in N PROVE x.signed \in Int
    OBVIOUS
  <2>1. CASE x \in A
    <3>1. PICK i \in T : x = m[i]
      BY <2>1
    <3>2. x.signed = h[i]
      BY <3>1 DEF RowAlloc
    <3>3. QED
      BY <1>9, <3>2
  <2>2. CASE x \in L
    BY <1>2, <2>2 DEF RestAlloc
  <2>3. QED
    BY <2>1, <2>2
<1>14. \A x \in N : f[x] \in Int
  BY <1>13
<1>15. RowSum(r) = SumFunctionOnSet(h, T)
  BY SumAll DEF RowSum
<1>16. SumFunctionOnSet(f, A) = SumFunctionOnSet(h, T)
  <2>1. \A i \in T : h[i] \in Int /\ h[i] = f[m[i]]
    BY <1>9, <1>10
  <2> HIDE DEF m, f, h, T, N, L, last, s
  <2>2. QED
    BY <1>2, <1>11, <2>1, SumImage
<1>17. SumFunctionOnSet(f, N) = RowSum(r) + Excess(r)
  <2>1. CASE r.excess = NoItem
    <3>1. N = A /\ Excess(r) = 0
      BY <2>1 DEF Excess
    <3>2. SumFunctionOnSet(f, N) = SumFunctionOnSet(f, A)
      <4> HIDE DEF A, N, f
      <4>1. QED
        BY <3>1
    <3>3. QED
      BY <1>2, <1>15, <1>16, <3>1, <3>2
  <2>2. CASE r.excess # NoItem
    <3>1. N = A \cup {last}
      BY <2>2
    <3>2. last \notin A /\ \A x \in A \cup {last} : f[x] \in Int
      BY <1>12, <1>14, <2>2
    <3>3. SumFunctionOnSet(f, A \cup {last}) = SumFunctionOnSet(f, A) + f[last]
      <4> HIDE DEF A, N, f, last, L
      <4>1. QED
        BY <1>3, <3>2, SumAdd
    <3>4. SumFunctionOnSet(f, N) = SumFunctionOnSet(f, A \cup {last})
      <4> HIDE DEF A, N, f, last, L
      <4>1. QED
        BY <3>1
    <3>5. f[last] = Excess(r)
      BY <1>12, <2>2
    <3>6. QED
      BY <1>15, <1>16, <3>3, <3>4, <3>5
  <2>3. QED
    BY <2>1, <2>2
<1>18. Used(s)' = Used(s) + SumFunctionOnSet(f, N)
  <2> HIDE DEF A, L, N
  <2>1. QED
    BY <1>5, <1>7, <1>8, <1>13, UsedGrows
<1>19. Used(s) \in Int
  BY UsedIs
<1>20. ASSUME NEW v, v # s PROVE Used(v)' = Used(v)
  <2>1. allocs \subseteq allocs'
    OBVIOUS
  <2>2. \A x \in allocs' \ allocs : x.source # v
    <3> HIDE DEF N
    <3>1. QED
      BY <1>1, <1>6, <1>20
  <2>3. QED
    BY <2>1, <2>2, UsedStays
<1>21. IsFiniteSet(allocs')
  <2> HIDE DEF N
  <2>1. QED
    BY <1>1, <1>5, FS_Union DEF Finite
<1>22. Used(s)' = Used(s) + RowSum(r) + Excess(r)
  <2> HIDE DEF f, N, s
  <2>1. QED
    BY <1>2, <1>17, <1>18, <1>19
<1>23. QED
  BY <1>20, <1>21, <1>22

--------------------------------------------------------------------------------
(* What all commits share: the entries, the receipt and the claim they add.      *)
Adds(r, o, E) ==
  /\ DOMAIN E \cap DOMAIN ledger = {}
  /\ DOMAIN ledger' = DOMAIN ledger \union DOMAIN E
  /\ \A e \in DOMAIN ledger : ledger'[e] = ledger[e]
  /\ \A e \in DOMAIN E : ledger'[e] = E[e]
  /\ claims' = NewClaims(r, o)
  /\ DOMAIN receipts' = DOMAIN receipts \union {o}
  /\ receipts'[o].request = r /\ receipts'[o].owner = o
  /\ \A y \in DOMAIN receipts : receipts'[y] = receipts[y]

(* A commit adds the entries of its effect, one receipt and one claim. *)
LEMMA CommitAdds ==
  ASSUME NEW r, NEW o, o \notin DOMAIN receipts, Commit(r, o)
  PROVE  Adds(r, o, Effect(r, o).entries)
<1> DEFINE E == Effect(r, o).entries
<1>1. /\ DOMAIN E \intersect DOMAIN ledger = {}
      /\ ledger' = [e \in DOMAIN ledger \union DOMAIN E |->
                       IF e \in DOMAIN E THEN E[e] ELSE ledger[e]]
      /\ claims' = NewClaims(r, o)
      /\ receipts' = [x \in DOMAIN receipts \union {o} |->
                         IF x = o THEN [request |-> r, owner |-> o] ELSE receipts[x]]
  BY DEF Commit
<1> HIDE DEF E
<1>2. Adds(r, o, E)
  BY <1>1 DEF Adds
<1>3. QED
  BY <1>2 DEF E

(* Claims and receipts keep naming one another. *)
LEMMA ClaimsKept ==
  ASSUME Forms, NEW r \in Requests, NEW o \in Ops, o \notin DOMAIN receipts,
         claims' = NewClaims(r, o),
         DOMAIN ledger \subseteq DOMAIN ledger',
         DOMAIN receipts' = DOMAIN receipts \union {o},
         receipts'[o].request = r, receipts'[o].owner = o,
         \A x \in DOMAIN receipts : receipts'[x] = receipts[x],
         r.kind = "item_settlement" /\ r.mode = "new" => Feed(r.source) \in DOMAIN ledger'
  PROVE  /\ DOMAIN claims' \subseteq Evidence /\ DOMAIN receipts' \subseteq Ops
         /\ \A e \in DOMAIN claims' : ClaimForm(e)'
         /\ \A x \in DOMAIN receipts' : receipts'[x].request \in Requests /\ receipts'[x].owner \in Ops
<1>1. ASSUME NEW e \in DOMAIN claims, claims'[e] = claims[e] PROVE ClaimForm(e)'
  <2>1. ClaimForm(e)
    BY DEF Forms
  <2>2. receipts'[claims'[e].op] = receipts[claims[e].op] /\ claims'[e].op \in DOMAIN receipts'
    BY <1>1, <2>1 DEF ClaimForm
  <2>3. QED
    BY <1>1, <2>1, <2>2 DEF ClaimForm, Treatment, Feed
<1>2. CASE r.evidence = NoEvidence \/ Claimed(r)
  <2>1. claims' = claims
    BY <1>2 DEF NewClaims
  <2>2. QED
    BY <1>1, <2>1 DEF Forms
<1>3. CASE r.evidence # NoEvidence /\ ~Claimed(r)
  <2>1. claims' = [e \in DOMAIN claims \union {r.evidence} |->
                     IF e = r.evidence THEN [treatment |-> Treatment(r), op |-> o] ELSE claims[e]]
    BY <1>3 DEF NewClaims
  <2>2. r.evidence \in Evidence
    BY <1>3, RequestForms
  <2>3. ClaimForm(r.evidence)'
    <3>1. claims'[r.evidence] = [treatment |-> Treatment(r), op |-> o]
      BY <2>1
    <3>2. QED
      BY <3>1 DEF ClaimForm, Treatment, Feed
  <2>4. \A e \in DOMAIN claims : claims'[e] = claims[e]
    BY <1>3, <2>1 DEF Claimed
  <2>5. DOMAIN claims' = DOMAIN claims \union {r.evidence}
    BY <2>1
  <2>6. QED
    BY <1>1, <2>2, <2>3, <2>4, <2>5 DEF Forms
<1>4. QED
  BY <1>2, <1>3

(* Payments settled at once stay used up while nothing is allocated from them.   *)
LEMMA FullKept ==
  ASSUME Core, Finite', Forms', Grows, NEW n, DOMAIN items' \subseteq DOMAIN items \union {n},
         \A v \in Sources : FullyUsed(v) => Used(v)' = Used(v)
  PROVE  /\ \A v \in Sources : FullyUsed(v) => FullyUsed(v)'
         /\ \A s \in Sources : BookedBySettlement(s) => \E v \in Variants(s) : FullyUsed(v)'
<1>1. ASSUME NEW v \in Sources, FullyUsed(v) PROVE FullyUsed(v)'
  <2>1. Feed(v) \in DOMAIN ledger' /\ ledger'[Feed(v)] = ledger[Feed(v)]
    BY <1>1 DEF Grows, FullyUsed
  <2>2. Reserved(v, "Deposits")' <= Reserved(v, "Deposits")
        /\ Reserved(v, "Deposits")' \in Int /\ Reserved(v, "Deposits") \in Int
    BY ReservedFalls DEF Core
  <2>3. ledger[Feed(v)]["Deposits"] \in Int
    BY <1>1 DEF Core, Forms, EntryForm, FullyUsed, Controls
  <2>4. Reserved(v, "Deposits")' <= ledger'[Feed(v)]["Deposits"]
    <3>1. Reserved(v, "Deposits") <= ledger[Feed(v)]["Deposits"]
      BY <1>1 DEF FullyUsed
    <3> DEFINE x == Reserved(v, "Deposits")
               y == Reserved(v, "Deposits")'
               z == ledger[Feed(v)]["Deposits"]
    <3>2. y <= x /\ x <= z /\ x \in Int /\ y \in Int /\ z \in Int
      BY <2>2, <2>3, <3>1
    <3>3. y <= z
      <4> HIDE DEF x, y, z
      <4>1. QED
        BY <3>2
    <3>4. QED
      BY <2>1, <3>3
  <2>5. Used(v)' = Gross(v[1])
    BY <1>1 DEF FullyUsed
  <2>6. Cash[v[1]] > 0 \/ Gross(v[1]) <= 0
    BY <1>1 DEF FullyUsed
  <2>7. QED
    BY <2>1, <2>4, <2>5, <2>6 DEF FullyUsed, Gross, Feed
<1>2. QED
  BY <1>1 DEF Core, NewUsesAll, Variants

(* With no new payment settled, the settled ones are still used up. *)
LEMMA FullStays ==
  ASSUME Core, Finite', Forms', Grows, NEW n, DOMAIN items' \subseteq DOMAIN items \union {n},
         \A v \in Sources : FullyUsed(v) => Used(v)' = Used(v),
         \A s \in Sources : BookedBySettlement(s)' => BookedBySettlement(s)
  PROVE  NewUsesAll'
<1>1. \A s \in Sources : BookedBySettlement(s) => \E v \in Variants(s) : FullyUsed(v)'
  BY FullKept
<1>2. QED
  BY <1>1 DEF NewUsesAll, Variants, Sources

--------------------------------------------------------------------------------
(* Items keep reconciling when each lowered one gets an allocation of its own.   *)
Lowers(T, w, n, m) ==
  /\ T \subseteq DOMAIN items
  /\ \A i \in T : w[i] \in Nat /\ w[i] > 0 /\ w[i] <= items[i].remaining /\ items'[i] = Lowered(i, w[i])
  /\ \A i \in DOMAIN items \ T : items'[i] = items[i]
  /\ DOMAIN items' \subseteq DOMAIN items \union {n} /\ DOMAIN items \subseteq DOMAIN items'
  /\ n \in DOMAIN items' \ DOMAIN items =>
       items'[n].base \in Nat /\ items'[n].remaining = items'[n].base
       /\ items'[n].base > 0 /\ items'[n].status = "open"
  /\ allocs \subseteq allocs'
  /\ \A i \in T : m[i] \in allocs' /\ m[i] \notin allocs /\ m[i].item = i /\ m[i].amount = w[i]
                  /\ m[i].kind \in Reduces
  /\ \A x \in allocs' \ allocs : x.kind \in Reduces => x.item \in T /\ x = m[x.item]

(* Lowered items still reconcile with their allocations. *)
LEMMA ReconcileStep ==
  ASSUME Finite, Forms, ItemsReconcile, NEW T, NEW w, NEW n, NEW m, Lowers(T, w, n, m)
  PROVE  ItemsReconcile'
<1> USE DEF Lowers
<1>1. ASSUME NEW i \in DOMAIN items
      PROVE  AllocatedTo(i) \in Int /\ AllocatedTo(i)' = IF i \in T THEN AllocatedTo(i) + w[i] ELSE AllocatedTo(i)
  <2> DEFINE R == Reducing(i)
             Q == Reducing(i)'
             f == [x \in R |-> x.amount]
             h == [x \in Q |-> x.amount]
  <2>1. AllocatedTo(i) = SumFunctionOnSet(f, R) /\ AllocatedTo(i)' = SumFunctionOnSet(h, Q)
    BY SumAll DEF AllocatedTo
  <2>2. IsFiniteSet(R)
    BY FS_Subset DEF Finite, Reducing
  <2>3. R \subseteq Q /\ (i \notin T => Q = R) /\ (i \in T => Q = R \cup {m[i]} /\ m[i] \notin R)
    BY DEF Reducing, Reduces
  <2>4. \A x \in R : x.amount \in Int
    BY DEF Reducing, Forms, AllocForm
  <2>5. \A x \in Q : h[x] \in Int
    <3>1. i \in T => m[i].amount \in Int
      OBVIOUS
    <3>2. \A x \in Q : x \in R \/ (i \in T /\ x = m[i])
      BY <2>3
    <3> HIDE DEF R, Q
    <3>3. QED
      BY <2>4, <3>1, <3>2
  <2>6. \A x \in R : f[x] = h[x] /\ f[x] \in Int
    BY <2>3, <2>4
  <2>7. i \in T => h[m[i]] = w[i]
    BY <2>3
  <2> HIDE DEF R, Q, f, h
  <2>8. SumFunctionOnSet(f, R) \in Int /\ SumFunctionOnSet(h, R) = SumFunctionOnSet(f, R)
    BY <2>2, <2>6, SumAt, SumSame
  <2>9. CASE i \notin T
    BY <2>1, <2>3, <2>8, <2>9
  <2>10. CASE i \in T
    <3> DEFINE z == m[i]
    <3>1. Q = R \cup {z} /\ z \notin R /\ \A x \in R \cup {z} : h[x] \in Int
      BY <2>3, <2>5, <2>10
    <3>2. h[z] = w[i]
      BY <2>7, <2>10
    <3> HIDE DEF z
    <3>3. SumFunctionOnSet(h, R \cup {z}) = SumFunctionOnSet(h, R) + h[z]
      BY ONLY <2>2, <3>1, SumAdd
    <3>4. QED
      BY <2>1, <2>8, <2>10, <3>1, <3>2, <3>3
  <2>11. QED
    BY <2>9, <2>10
<1>2. ASSUME NEW i \in DOMAIN items
      PROVE  Reconciled(i)' /\ (items'[i].status = "settled" <=> items'[i].remaining = 0)
  <2>1. items[i].remaining = items[i].base - AllocatedTo(i) /\ items[i].remaining >= 0
        /\ (items[i].status = "settled" <=> items[i].remaining = 0)
        /\ items[i].base \in Nat /\ items[i].remaining \in Nat
    <3>1. items[i].base \in Nat /\ items[i].remaining \in Nat
      BY DEF Forms, ItemForm
    <3>2. Reconciled(i) /\ (items[i].status = "settled" <=> items[i].remaining = 0)
      BY DEF ItemsReconcile
    <3>3. QED
      BY <3>1, <3>2 DEF Reconciled
  <2>2. CASE i \in T
    <3>1. items'[i].remaining = items[i].remaining - w[i] /\ items'[i].base = items[i].base
          /\ items'[i].status = IF items[i].remaining = w[i] THEN "settled" ELSE "open"
      <4>1. items'[i] = [items[i] EXCEPT !.remaining = @ - w[i],
                           !.status = IF items[i].remaining = w[i] THEN "settled" ELSE "open"]
        BY <2>2 DEF Lowered
      <4>2. QED
        BY <4>1 DEF Forms, ItemForm
    <3>2. AllocatedTo(i)' = AllocatedTo(i) + w[i] /\ AllocatedTo(i) \in Int
      BY <1>1, <2>2
    <3>3. w[i] \in Nat /\ w[i] <= items[i].remaining
      BY <2>2
    <3>4. QED
      BY <2>1, <3>1, <3>2, <3>3 DEF Reconciled
  <2>3. CASE i \notin T
    BY <1>1, <2>1, <2>3 DEF Reconciled
  <2>4. QED
    BY <2>2, <2>3
<1>3. ASSUME n \notin DOMAIN items, n \in DOMAIN items'
      PROVE  Reconciled(n)' /\ (items'[n].status = "settled" <=> items'[n].remaining = 0)
  <2>1. Reducing(n)' = {}
    BY <1>3 DEF Reducing, Forms, AllocForm
  <2>2. AllocatedTo(n)' = 0
    BY <2>1, SumAll, SumEmpty DEF AllocatedTo
  <2>3. QED
    BY <1>3, <2>2 DEF Reconciled
<1>4. QED
  BY <1>2, <1>3 DEF ItemsReconcile

(* A step that only adds well-formed records keeps them all so. *)
LEMMA FormsStep ==
  ASSUME Forms, Grows,
         \A i \in DOMAIN items : /\ items'[i].remaining \in Nat /\ items'[i].remaining <= items[i].base
                                 /\ items'[i].status \in {"open", "settled"},
         \A i \in DOMAIN items' \ DOMAIN items : ItemForm(i)',
         \A x \in allocs' \ allocs : AllocForm(x)',
         \A e \in DOMAIN ledger' \ DOMAIN ledger : EntryForm(e)',
         DOMAIN claims' \subseteq Evidence, DOMAIN receipts' \subseteq Ops,
         \A e \in DOMAIN claims' : ClaimForm(e)',
         \A x \in DOMAIN receipts' : receipts'[x].request \in Requests /\ receipts'[x].owner \in Ops
  PROVE  Forms'
<1>1. ASSUME NEW i \in DOMAIN items PROVE ItemForm(i)'
  <2>1. ItemForm(i)
    BY DEF Forms
  <2>2. /\ items'[i].base = items[i].base /\ items'[i].original = items[i].original
        /\ items'[i].op = items[i].op /\ items'[i].source = items[i].source
        /\ DOMAIN receipts \subseteq DOMAIN receipts' /\ DOMAIN ledger \subseteq DOMAIN ledger'
    BY DEF Grows
  <2>3. items'[i].remaining \in Nat /\ items'[i].remaining <= items[i].base
        /\ items'[i].status \in {"open", "settled"}
    OBVIOUS
  <2>4. QED
    BY <2>1, <2>2, <2>3 DEF ItemForm, Feed
<1>2. ASSUME NEW x \in allocs PROVE AllocForm(x)'
  <2>1. AllocForm(x)
    BY DEF Forms
  <2>2. DOMAIN receipts \subseteq DOMAIN receipts' /\ DOMAIN ledger \subseteq DOMAIN ledger'
        /\ DOMAIN items \subseteq DOMAIN items'
    BY DEF Grows
  <2>3. QED
    BY <2>1, <2>2 DEF AllocForm, Feed
<1>3. ASSUME NEW e \in DOMAIN ledger PROVE EntryForm(e)'
  BY DEF Forms, EntryForm, Grows, Feed
<1>4. QED
  BY <1>1, <1>2, <1>3 DEF Forms

(* What lowering an item leaves alone. *)
LEMMA LoweredFields ==
  ASSUME Forms, NEW i \in DOMAIN items, NEW n \in Nat, n <= items[i].remaining, items'[i] = Lowered(i, n)
  PROVE  /\ items'[i].base = items[i].base /\ items'[i].original = items[i].original
         /\ items'[i].op = items[i].op /\ items'[i].source = items[i].source
         /\ items'[i].remaining = items[i].remaining - n
         /\ items'[i].remaining \in Nat /\ items'[i].remaining <= items[i].base
         /\ items'[i].status \in {"open", "settled"}
<1>1. items'[i] = [items[i] EXCEPT !.remaining = @ - n,
                     !.status = IF items[i].remaining = n THEN "settled" ELSE "open"]
  BY DEF Lowered
<1>2. items[i].base \in Nat /\ items[i].remaining \in Nat /\ items[i].remaining <= items[i].base
  BY DEF Forms, ItemForm
<1>3. QED
  BY <1>1, <1>2

(* An entry nobody allocates from or registers on keeps its rest. *)
LEMMA RestKept ==
  ASSUME Grows, NEW a, NEW e \in DOMAIN ledger, Used(e[2])' = Used(e[2]),
         BookedBySettlement(e[2])' <=> BookedBySettlement(e[2]),
         RegisteredSum(e[2], a)' = RegisteredSum(e[2], a)
  PROVE  Rest(e, a)' = Rest(e, a)
<1>1. ledger'[e] = ledger[e]
  BY DEF Grows
<1>2. QED
  BY <1>1 DEF Rest

(* An entry that the items answer for explains itself. *)
LEMMA ExplainedByEntry ==
  ASSUME Core, Finite', Forms', Grows, NEW a \in Controls,
         NEW n, n \notin DOMAIN ledger, DOMAIN ledger' = DOMAIN ledger \union {n},
         Rest(n, a)' = 0, \A e \in DOMAIN ledger : Rest(e, a)' = Rest(e, a),
         Outstanding(a)' = Outstanding(a) + ledger'[n][a]
  PROVE  Balance(a)' = Outstanding(a)' + Unexplained(a)'
<1>1. Balance(a)' = Balance(a) + ledger'[n][a] /\ Balance(a) \in Int
  BY BalanceAdds DEF Core
<1>2. Unexplained(a)' = Unexplained(a) + 0
  BY UnexplainedGains DEF Core
<1>3. Outstanding(a) \in Int /\ Unexplained(a) \in Int
  BY OutstandingIs, UnexplainedIs DEF Core, OutstandingSums, UnexplainedSums
<1>4. Balance(a) = Outstanding(a) + Unexplained(a)
  BY DEF Core, ControlsExplained, Controls
<1>5. ledger'[n][a] \in Int
  BY DEF Forms, EntryForm
<1>6. QED
  BY <1>1, <1>2, <1>3, <1>4, <1>5

(* Items lowered against an entry already there leave that much less unexplained. *)
LEMMA ExplainedByRest ==
  ASSUME Core, Finite', Forms', Grows, NEW a \in Controls, DOMAIN ledger' = DOMAIN ledger,
         NEW d \in Int, NEW x, d # 0 => x \in DOMAIN ledger,
         \A e \in DOMAIN ledger : Rest(e, a)' = IF e = x THEN Rest(e, a) + d ELSE Rest(e, a),
         Outstanding(a)' = Outstanding(a) - d
  PROVE  Balance(a)' = Outstanding(a)' + Unexplained(a)'
<1>1. Balance(a)' = Balance(a) /\ Balance(a) \in Int
  BY BalanceStays DEF Core
<1>2. Unexplained(a)' = Unexplained(a) + d
  BY UnexplainedStep DEF Core
<1>3. Outstanding(a) \in Int /\ Unexplained(a) \in Int
  BY OutstandingIs, UnexplainedIs DEF Core, OutstandingSums, UnexplainedSums
<1>4. Balance(a) = Outstanding(a) + Unexplained(a)
  BY DEF Core, ControlsExplained, Controls
<1>5. QED
  BY <1>1, <1>2, <1>3, <1>4

(* What lowering one item takes from its control account. *)
LEMMA TakenOne ==
  ASSUME NEW i \in Items, NEW w, w[i] \in Int, NEW a
  PROVE  Taken(w, {i}, a) = IF Control(i) = a THEN Sign(i) * w[i] ELSE 0
<1> DEFINE U == {j \in {i} : Control(j) = a}
           g == [j \in U |-> Sign(j) * w[j]]
<1>1. Taken(w, {i}, a) = SumFunctionOnSet(g, U)
  BY SumAll DEF Taken
<1>2. CASE Control(i) = a
  <2>1. U = {i} /\ g[i] = Sign(i) * w[i]
    BY <1>2
  <2>2. Sign(i) * w[i] \in Int
    <3>1. Sign(i) = 1 \/ Sign(i) = -1
      BY Signs
    <3>2. QED
      BY <3>1
  <2> HIDE DEF U, g
  <2>3. SumFunctionOnSet(g, {i}) = g[i]
    BY <2>1, <2>2, SumOne
  <2>4. QED
    BY <1>1, <1>2, <2>1, <2>3
<1>3. CASE Control(i) # a
  <2>1. U = {}
    BY <1>3
  <2> HIDE DEF U, g
  <2>2. QED
    BY <1>1, <1>3, <2>1, SumEmpty
<1>4. QED
  BY <1>2, <1>3

(* Which payments a settlement has booked, after one more receipt. *)
LEMMA BookedKept ==
  ASSUME NEW r, NEW o, o \notin DOMAIN receipts, DOMAIN receipts' = DOMAIN receipts \union {o},
         receipts'[o].request = r, \A x \in DOMAIN receipts : receipts'[x] = receipts[x], NEW s
  PROVE  BookedBySettlement(s)' <=>
           \/ BookedBySettlement(s)
           \/ r.kind = "item_settlement" /\ r.mode = "new" /\ r.source = s
<1>1. \A x \in DOMAIN receipts : receipts'[x].request = receipts[x].request
  OBVIOUS
<1>2. QED
  BY <1>1 DEF BookedBySettlement

--------------------------------------------------------------------------------
(* The effect of each kind of request keeps items, allocations and ledger in step. *)
LEMMA AdjustKeeps ==
  ASSUME Core, NEW r \in Requests, NEW o \in Ops, o \notin DOMAIN receipts,
         r.kind = "item_adjustment", CanAdjust(r), Commit(r, o)
  PROVE  Core' /\ Grows /\ o \in DOMAIN receipts'
<1> DEFINE n == <<"adjustment", o>>
           i == r.item
           c == r.amount
           E == Effect(r, o).entries
           x == [id |-> <<"adjustment", r.source>>, kind |-> "credit", item |-> i,
                 amount |-> c, signed |-> 0, source |-> r.source]
<1>1. i \in DOMAIN items /\ i \in Items /\ c \in Nat /\ c > 0 /\ c <= items[i].remaining
      /\ \A y \in allocs : y.id # <<"adjustment", r.source>>
  BY RequestForms, Amount DEF CanAdjust, Open
<1>2. Effect(r, o) = AdjustEffect(r, o)
  BY DEF Effect
<1>3. DOMAIN E = {n} /\ \A a \in Controls : E[n][a] = IF Control(i) = a THEN -(Sign(i) * c) ELSE 0
  <2>1. E = [e \in {n} |-> Plus(Posting(Control(i), -(Sign(i) * c)), Posting("Allowances", Sign(i) * c))]
    BY <1>2 DEF AdjustEffect
  <2>2. \A a \in Controls : Plus(Posting(Control(i), -(Sign(i) * c)), Posting("Allowances", Sign(i) * c))[a]
                            = IF Control(i) = a THEN -(Sign(i) * c) ELSE 0
    <3>1. Control(i) \in Controls /\ (Sign(i) = 1 \/ Sign(i) = -1) /\ Controls \subseteq Accounts
      BY <1>1, Signs DEF Controls, Accounts
    <3>2. QED
      BY <1>1, <3>1 DEF Plus, Posting, Zero, Controls, Accounts
  <2>3. QED
    BY <2>1, <2>2
<1>4. items' = [items EXCEPT ![i] = Lowered(i, c)] /\ allocs' = allocs \union {x}
  <2>1. items' = Effect(r, o).items /\ allocs' = allocs \union Effect(r, o).allocs
    BY DEF Commit
  <2>2. QED
    BY <1>2, <2>1 DEF AdjustEffect
<1> HIDE DEF E
<1>5. /\ DOMAIN E \cap DOMAIN ledger = {}
      /\ DOMAIN ledger' = DOMAIN ledger \union DOMAIN E
      /\ \A e \in DOMAIN ledger : ledger'[e] = ledger[e]
      /\ \A e \in DOMAIN E : ledger'[e] = E[e]
      /\ claims' = NewClaims(r, o)
      /\ DOMAIN receipts' = DOMAIN receipts \union {o}
      /\ receipts'[o].request = r /\ receipts'[o].owner = o
      /\ \A y \in DOMAIN receipts : receipts'[y] = receipts[y]
  BY CommitAdds DEF E, Adds
<1>6. n \notin DOMAIN ledger /\ DOMAIN ledger' = DOMAIN ledger \union {n}
      /\ \A a \in Controls : ledger'[n][a] = IF Control(i) = a THEN -(Sign(i) * c) ELSE 0
  BY <1>3, <1>5
<1>c. Finite /\ Forms /\ OneSpelling /\ ItemsReconcile /\ WithinPayment /\ NewUsesAll
  BY DEF Core
<1>7. DOMAIN items' = DOMAIN items /\ items'[i] = Lowered(i, c) /\ \A j \in DOMAIN items : j # i => items'[j] = items[j]
  BY <1>1, <1>4
<1>8. /\ items'[i].base = items[i].base /\ items'[i].original = items[i].original
      /\ items'[i].op = items[i].op /\ items'[i].source = items[i].source
      /\ items'[i].remaining = items[i].remaining - c
      /\ items'[i].remaining \in Nat /\ items'[i].remaining <= items[i].base
      /\ items'[i].status \in {"open", "settled"}
  BY <1>1, <1>7, <1>c, LoweredFields
<1>9. Grows
  BY <1>4, <1>5, <1>7, <1>8 DEF Grows
<1>s. Sign(i) = 1 \/ Sign(i) = -1
  BY <1>1, Signs
<1>10. Forms'
  <2>1. \A j \in DOMAIN items : /\ items'[j].remaining \in Nat /\ items'[j].remaining <= items[j].base
                                /\ items'[j].status \in {"open", "settled"}
    BY <1>7, <1>8, <1>c DEF Forms, ItemForm
  <2>2. AllocForm(x)'
    BY <1>1, <1>7 DEF AllocForm
  <2>3. EntryForm(n)'
    BY <1>1, <1>6, <1>s DEF EntryForm
  <2>4. /\ DOMAIN claims' \subseteq Evidence /\ DOMAIN receipts' \subseteq Ops
        /\ \A e \in DOMAIN claims' : ClaimForm(e)'
        /\ \A y \in DOMAIN receipts' : receipts'[y].request \in Requests /\ receipts'[y].owner \in Ops
    BY <1>5, <1>c, ClaimsKept
  <2> HIDE DEF x, n
  <2>5. \A y \in allocs' \ allocs : AllocForm(y)'
    BY <1>4, <2>2
  <2>6. \A e \in DOMAIN ledger' \ DOMAIN ledger : EntryForm(e)'
    BY <1>6, <2>3
  <2>7. QED
    BY <1>7, <1>9, <1>c, <2>1, <2>4, <2>5, <2>6, FormsStep
<1>11. Finite'
  <2>1. IsFiniteSet(DOMAIN items) /\ IsFiniteSet(allocs) /\ IsFiniteSet(DOMAIN ledger)
    BY <1>c DEF Finite
  <2>2. IsFiniteSet(allocs \union {x}) /\ IsFiniteSet(DOMAIN ledger \union {n})
    BY <2>1, FS_AddElement
  <2>3. QED
    BY <1>4, <1>6, <1>7, <2>1, <2>2 DEF Finite
<1>12. \A s : Used(s)' = Used(s)
  <2> TAKE s
  <2>1. \A y \in allocs' \ allocs : y.kind \in {"settlement", "unapplied_receipt"} => y.source # s
    BY <1>4
  <2>2. QED
    BY <1>9, <2>1, UsedStays DEF Grows
<1>13. \A s : BookedBySettlement(s)' <=> BookedBySettlement(s)
  BY <1>5, BookedKept
<1>14. \A s : \A a \in Controls : RegisteredSum(s, a)' = RegisteredSum(s, a)
  BY <1>7, <1>9, <1>c, RegisteredStays
<1>15. OneSpelling'
  <2>1. \A s : Feed(s) # n
    BY DEF Feed
  <2>2. QED
    BY <1>6, <1>c, <2>1 DEF OneSpelling, Feed
<1>16. WithinPayment'
  BY <1>12, <1>c DEF WithinPayment, Gross
<1>17. NewUsesAll'
  <2>1. DOMAIN items' \subseteq DOMAIN items \union {i}
    BY <1>7
  <2>2. QED
    BY <1>9, <1>10, <1>11, <1>12, <1>13, <2>1, FullStays
<1>18. ItemsReconcile'
  <2> DEFINE T == {i}
             w == [j \in T |-> c]
             m == [j \in T |-> x]
  <2>1. T \subseteq DOMAIN items
    BY <1>1
  <2>2. \A j \in T : w[j] \in Nat /\ w[j] > 0 /\ w[j] <= items[j].remaining /\ items'[j] = Lowered(j, w[j])
    BY <1>1, <1>7
  <2>3. \A j \in DOMAIN items \ T : items'[j] = items[j]
    BY <1>7
  <2>4. \A j \in T : m[j] \in allocs' /\ m[j] \notin allocs /\ m[j].item = j /\ m[j].amount = w[j]
                     /\ m[j].kind \in Reduces
    BY <1>1, <1>4 DEF Reduces
  <2>5. \A y \in allocs' \ allocs : y.kind \in Reduces => y.item \in T /\ y = m[y.item]
    BY <1>4
  <2>6. DOMAIN items' \subseteq DOMAIN items \union {i} /\ DOMAIN items \subseteq DOMAIN items' /\ i \in DOMAIN items
        /\ allocs \subseteq allocs'
    BY <1>1, <1>7, <1>4
  <2> HIDE DEF T, w, m, x, i, c
  <2>7. Lowers(T, w, i, m)
    BY ONLY <2>1, <2>2, <2>3, <2>4, <2>5, <2>6 DEF Lowers
  <2>8. QED
    BY <1>c, <2>7, ReconcileStep
<1>19. ControlsExplained'
  <2> SUFFICES ASSUME NEW a \in Controls PROVE Balance(a)' = Outstanding(a)' + Unexplained(a)'
    BY DEF ControlsExplained, Controls
  <2> DEFINE w == [j \in {i} |-> c]
  <2>1. Rest(n, a)' = 0
    BY DEF Rest
  <2>2. \A e \in DOMAIN ledger : Rest(e, a)' = Rest(e, a)
    BY <1>9, <1>12, <1>13, <1>14, RestKept
  <2>3. Taken(w, {i}, a) = IF Control(i) = a THEN Sign(i) * c ELSE 0
    <3>1. w[i] = c /\ w[i] \in Int
      BY <1>1
    <3> HIDE DEF w
    <3>2. QED
      BY <1>1, <3>1, TakenOne
  <2>4. Outstanding(a)' = Outstanding(a) - Taken(w, {i}, a)
    <3>1. \A j \in {i} : w[j] \in Int
      BY <1>1
    <3>2. \A j \in DOMAIN items : items'[j].remaining
            = IF j \in {i} THEN items[j].remaining - w[j] ELSE items[j].remaining
      BY <1>7, <1>8
    <3> HIDE DEF w
    <3>3. QED
      BY <1>1, <1>7, <1>10, <1>11, <1>c, <3>1, <3>2, OutstandingStep
  <2>5. Outstanding(a) \in Int
    BY <1>c, OutstandingIs DEF OutstandingSums
  <2>6. Outstanding(a)' = Outstanding(a) + ledger'[n][a]
    <3>1. CASE Control(i) = a
      BY <1>1, <1>6, <1>s, <2>3, <2>4, <2>5, <3>1
    <3>2. CASE Control(i) # a
      BY <1>6, <2>3, <2>4, <2>5, <3>2
    <3>3. QED
      BY <3>1, <3>2
  <2> HIDE DEF n
  <2>7. QED
    BY <1>6, <1>9, <1>10, <1>11, <2>1, <2>2, <2>6, ExplainedByEntry
<1>20. QED
  BY <1>5, <1>9, <1>10, <1>11, <1>15, <1>16, <1>17, <1>18, <1>19 DEF Core

(* Offsetting lowers an invoice and a credit by the same and posts it between them. *)
LEMMA OffsetKeeps ==
  ASSUME Core, NEW r \in Requests, NEW o \in Ops, o \notin DOMAIN receipts,
         r.kind = "item_offset", CanOffset(r), Commit(r, o)
  PROVE  Core' /\ Grows /\ o \in DOMAIN receipts'
<1> DEFINE n == <<"offset", o>>
           i == r.credit
           j == r.target
           c == r.amount
           T == {i, j}
           E == Effect(r, o).entries
           m == [k \in T |-> [id |-> <<"application", o, k>>, kind |-> "application", item |-> k,
                              amount |-> c, signed |-> 0, source |-> o]]
           N == {m[k] : k \in T}
           w == [k \in T |-> c]
<1>1. i \in Credits /\ j \notin Credits /\ i \in Items /\ j \in Items /\ c \in Nat /\ c > 0 /\ i # j
  BY RequestForms, Amount, ItemAssumption DEF Items
<1>2. i \in DOMAIN items /\ j \in DOMAIN items /\ c <= items[i].remaining /\ c <= items[j].remaining
  BY DEF CanOffset, Open
<1>3. Effect(r, o) = OffsetEffect(r, o)
  BY DEF Effect
<1>4. items' = [items EXCEPT ![i] = Lowered(i, c), ![j] = Lowered(j, c)] /\ allocs' = allocs \union N
  <2>1. items' = Effect(r, o).items /\ allocs' = allocs \union Effect(r, o).allocs
    BY DEF Commit
  <2>2. QED
    BY <1>3, <2>1 DEF OffsetEffect
<1>5. DOMAIN E = {n} /\ E[n]["Receivable"] = -c /\ E[n]["Deposits"] = c
  <2>1. E = [e \in {n} |-> Plus(Posting("Receivable", -c), Posting("Deposits", c))]
    BY <1>3 DEF OffsetEffect
  <2>2. QED
    BY <1>1, <2>1 DEF Plus, Posting, Zero, Accounts
<1> HIDE DEF E
<1>6. /\ DOMAIN E \cap DOMAIN ledger = {}
      /\ DOMAIN ledger' = DOMAIN ledger \union DOMAIN E
      /\ \A e \in DOMAIN ledger : ledger'[e] = ledger[e]
      /\ \A e \in DOMAIN E : ledger'[e] = E[e]
      /\ claims' = NewClaims(r, o)
      /\ DOMAIN receipts' = DOMAIN receipts \union {o}
      /\ receipts'[o].request = r /\ receipts'[o].owner = o
      /\ \A y \in DOMAIN receipts : receipts'[y] = receipts[y]
  BY CommitAdds DEF E, Adds
<1>7. n \notin DOMAIN ledger /\ DOMAIN ledger' = DOMAIN ledger \union {n}
      /\ ledger'[n]["Receivable"] = -c /\ ledger'[n]["Deposits"] = c
  BY <1>5, <1>6
<1>c. Finite /\ Forms /\ OneSpelling /\ ItemsReconcile /\ WithinPayment /\ NewUsesAll
  BY DEF Core
<1>8. DOMAIN items' = DOMAIN items /\ items'[i] = Lowered(i, c) /\ items'[j] = Lowered(j, c)
      /\ \A k \in DOMAIN items : k \notin T => items'[k] = items[k]
  BY <1>1, <1>2, <1>4
<1>9. \A k \in T :
        /\ items'[k].base = items[k].base /\ items'[k].original = items[k].original
        /\ items'[k].op = items[k].op /\ items'[k].source = items[k].source
        /\ items'[k].remaining = items[k].remaining - c
        /\ items'[k].remaining \in Nat /\ items'[k].remaining <= items[k].base
        /\ items'[k].status \in {"open", "settled"}
  <2> TAKE k \in T
  <2>1. k \in DOMAIN items /\ c \in Nat /\ c <= items[k].remaining /\ items'[k] = Lowered(k, c)
    BY <1>1, <1>2, <1>8
  <2> HIDE DEF c
  <2>2. QED
    BY <1>c, <2>1, LoweredFields
<1>10. \A k \in T : m[k].kind = "application" /\ m[k].item = k /\ m[k].amount = c /\ m[k].signed = 0
                    /\ m[k].id[2] = o /\ m[k] \in N
  OBVIOUS
<1>11. \A x \in N : x.item \in T /\ x = m[x.item] /\ x.kind = "application" /\ x.id[2] = o
                   /\ x.amount = c /\ x.signed = 0
  OBVIOUS
<1>12. IsFiniteSet(N)
  <2>1. IsFiniteSet(T)
    <3>1. IsFiniteSet({i} \union {j})
      BY FS_Singleton, FS_Union
    <3>2. T = {i} \union {j}
      OBVIOUS
    <3>3. QED
      BY <3>1, <3>2
  <2> HIDE DEF m, T
  <2>2. QED
    BY <2>1, FiniteImage
<1>s. Sign(i) = -1 /\ Sign(j) = 1 /\ Control(i) = "Deposits" /\ Control(j) = "Receivable"
  BY <1>1, Signs
<1>t. T \subseteq DOMAIN items
  BY <1>2
<1> HIDE DEF m, N
<1>13. Grows
  BY <1>4, <1>6, <1>8, <1>9 DEF Grows
<1>14. Forms'
  <2>1. \A k \in DOMAIN items : /\ items'[k].remaining \in Nat /\ items'[k].remaining <= items[k].base
                                /\ items'[k].status \in {"open", "settled"}
    BY <1>8, <1>9, <1>c DEF Forms, ItemForm
  <2>2. ASSUME NEW x \in N PROVE AllocForm(x)'
    <3>1. x.item \in DOMAIN items'
      BY <1>8, <1>11, <1>t
    <3>2. QED
      BY <1>1, <1>6, <1>11, <3>1 DEF AllocForm
  <2>3. EntryForm(n)'
    BY <1>1, <1>7 DEF EntryForm, Controls
  <2>4. /\ DOMAIN claims' \subseteq Evidence /\ DOMAIN receipts' \subseteq Ops
        /\ \A e \in DOMAIN claims' : ClaimForm(e)'
        /\ \A y \in DOMAIN receipts' : receipts'[y].request \in Requests /\ receipts'[y].owner \in Ops
    BY <1>6, <1>c, ClaimsKept
  <2> HIDE DEF n
  <2>5. \A y \in allocs' \ allocs : AllocForm(y)'
    BY <1>4, <2>2
  <2>6. \A e \in DOMAIN ledger' \ DOMAIN ledger : EntryForm(e)'
    BY <1>7, <2>3
  <2>7. QED
    BY <1>8, <1>13, <1>c, <2>1, <2>4, <2>5, <2>6, FormsStep
<1>15. Finite'
  <2>1. IsFiniteSet(DOMAIN items) /\ IsFiniteSet(allocs) /\ IsFiniteSet(DOMAIN ledger)
    BY <1>c DEF Finite
  <2>2. IsFiniteSet(allocs \union N) /\ IsFiniteSet(DOMAIN ledger \union {n})
    BY <1>12, <2>1, FS_AddElement, FS_Union
  <2>3. QED
    BY <1>4, <1>7, <1>8, <2>1, <2>2 DEF Finite
<1>16. \A s : Used(s)' = Used(s)
  <2> TAKE s
  <2>1. \A y \in allocs' \ allocs : y.kind \in {"settlement", "unapplied_receipt"} => y.source # s
    BY <1>4, <1>11
  <2>2. QED
    BY <1>13, <2>1, UsedStays DEF Grows
<1>17. \A s : BookedBySettlement(s)' <=> BookedBySettlement(s)
  BY <1>6, BookedKept
<1>18. \A s : \A a \in Controls : RegisteredSum(s, a)' = RegisteredSum(s, a)
  BY <1>8, <1>13, <1>c, RegisteredStays
<1>19. OneSpelling'
  <2>1. \A s : Feed(s) # n
    BY DEF Feed
  <2>2. QED
    BY <1>7, <1>c, <2>1 DEF OneSpelling, Feed
<1>20. WithinPayment'
  BY <1>16, <1>c DEF WithinPayment, Gross
<1>21. NewUsesAll'
  <2>1. DOMAIN items' \subseteq DOMAIN items \union {i}
    BY <1>8
  <2>2. QED
    BY <1>13, <1>14, <1>15, <1>16, <1>17, <2>1, FullStays
<1>22. ItemsReconcile'
  <2>1. \A k \in T : w[k] \in Nat /\ w[k] > 0 /\ w[k] <= items[k].remaining /\ items'[k] = Lowered(k, w[k])
    BY <1>1, <1>2, <1>8
  <2>2. \A k \in DOMAIN items \ T : items'[k] = items[k]
    BY <1>8
  <2>3. \A k \in T : m[k] \notin allocs
    <3> SUFFICES ASSUME NEW k \in T, m[k] \in allocs PROVE FALSE
      OBVIOUS
    <3>1. m[k].id[2] \in DOMAIN receipts
      BY <1>10, <1>c DEF Forms, AllocForm
    <3>2. QED
      BY <1>10, <3>1
  <2>4. \A k \in T : m[k] \in allocs' /\ m[k] \notin allocs /\ m[k].item = k /\ m[k].amount = w[k]
                     /\ m[k].kind \in Reduces
    BY <1>4, <1>10, <2>3 DEF Reduces
  <2>5. \A y \in allocs' \ allocs : y.kind \in Reduces => y.item \in T /\ y = m[y.item]
    BY <1>4, <1>11
  <2>6. DOMAIN items' \subseteq DOMAIN items \union {i} /\ DOMAIN items \subseteq DOMAIN items' /\ i \in DOMAIN items
        /\ allocs \subseteq allocs'
    BY <1>2, <1>8, <1>4
  <2> HIDE DEF T, w, i, j, c
  <2>7. Lowers(T, w, i, m)
    BY ONLY <1>t, <2>1, <2>2, <2>4, <2>5, <2>6 DEF Lowers
  <2>8. QED
    BY <1>c, <2>7, ReconcileStep
<1>23. ControlsExplained'
  <2> SUFFICES ASSUME NEW a \in Controls PROVE Balance(a)' = Outstanding(a)' + Unexplained(a)'
    BY DEF ControlsExplained, Controls
  <2>1. Rest(n, a)' = 0
    BY DEF Rest
  <2>2. \A e \in DOMAIN ledger : Rest(e, a)' = Rest(e, a)
    BY <1>13, <1>16, <1>17, <1>18, RestKept
  <2>3. Taken(w, T, a) = IF a = "Deposits" THEN -c ELSE c
    <3> DEFINE k == IF a = "Deposits" THEN i ELSE j
    <3>1. {x \in T : Control(x) = a} = {x \in {k} : Control(x) = a}
      BY <1>s DEF Controls
    <3>2. Taken(w, T, a) = Taken(w, {k}, a)
      BY <3>1 DEF Taken
    <3>3. k \in Items /\ w[k] = c /\ w[k] \in Int /\ Control(k) = a /\ Sign(k) = IF a = "Deposits" THEN -1 ELSE 1
      BY <1>1, <1>s DEF Controls
    <3> HIDE DEF k, w
    <3>4. Taken(w, {k}, a) = Sign(k) * w[k]
      BY <3>3, TakenOne
    <3>5. QED
      BY <1>1, <3>2, <3>3, <3>4
  <2>4. Outstanding(a)' = Outstanding(a) - Taken(w, T, a)
    <3>1. \A k \in T : w[k] \in Int
      BY <1>1
    <3>2. \A k \in DOMAIN items : items'[k].remaining
            = IF k \in T THEN items[k].remaining - w[k] ELSE items[k].remaining
      BY <1>8, <1>9
    <3> HIDE DEF w, T
    <3>3. QED
      BY <1>t, <1>8, <1>14, <1>15, <1>c, <3>1, <3>2, OutstandingStep
  <2>5. Outstanding(a) \in Int
    BY <1>c, OutstandingIs DEF OutstandingSums
  <2>6. Outstanding(a)' = Outstanding(a) + ledger'[n][a]
    BY <1>1, <1>7, <2>3, <2>4, <2>5 DEF Controls
  <2> HIDE DEF n
  <2>7. QED
    BY <1>7, <1>13, <1>14, <1>15, <2>1, <2>2, <2>6, ExplainedByEntry
<1>24. QED
  BY <1>6, <1>13, <1>14, <1>15, <1>19, <1>20, <1>21, <1>22, <1>23 DEF Core

(* Lowering nothing takes nothing. *)
LEMMA TakenNone == \A w, a : Taken(w, {}, a) = 0
<1> TAKE w, a
<1> DEFINE U == {j \in {} : Control(j) = a}
           g == [j \in U |-> Sign(j) * w[j]]
<1>1. Taken(w, {}, a) = SumFunctionOnSet(g, U)
  BY SumAll DEF Taken
<1>2. U = {}
  OBVIOUS
<1> HIDE DEF U, g
<1>3. QED
  BY <1>1, <1>2, SumEmpty

(* What both ways of registering an item do: it starts open, and nothing else    *)
(* changes its items or allocations.                                              *)
Registers(r, o) ==
  /\ Grows /\ allocs' = allocs /\ o \in DOMAIN receipts'
  /\ r.item \notin DOMAIN items /\ r.item \in Items /\ r.amount \in Nat /\ r.amount > 0
  /\ DOMAIN items' = DOMAIN items \union {r.item} /\ \A k \in DOMAIN items : items'[k] = items[k]
  /\ items'[r.item].original = r.amount /\ items'[r.item].base = r.amount
  /\ items'[r.item].remaining = r.amount /\ items'[r.item].status = "open"
  /\ items'[r.item].source = r.source /\ receipts'[items'[r.item].op].request = r
  /\ \A s : Used(s)' = Used(s)
  /\ \A s : BookedBySettlement(s)' <=> BookedBySettlement(s)
  /\ Core /\ Finite' /\ Forms' /\ WithinPayment' /\ NewUsesAll' /\ ItemsReconcile'

(* Registering an item does what Registers says. *)
LEMMA CreateRegisters ==
  ASSUME Core, NEW r \in Requests, NEW o \in Ops, o \notin DOMAIN receipts,
         r.kind = "item_create", CanCreate(r), Commit(r, o),
         NEW E, Effect(r, o).entries = E, IsFiniteSet(DOMAIN E),
         \A e \in DOMAIN E : e[1] # "feed" /\ \A a \in Controls : E[e][a] \in Int,
         r.item \in Credits => Feed(r.source) \in DOMAIN ledger
  PROVE  Registers(r, o)
<1> DEFINE i == r.item
           c == r.amount
           s == r.source
<1>1. /\ i \notin DOMAIN items /\ i \in Items /\ c \in Nat /\ c > 0
      /\ i \notin Credits => s = <<>>
      /\ i \in Credits => s \in Sources
  BY RequestForms, Amount, ItemAssumption DEF CanCreate, Items
<1>3. /\ items' = [k \in DOMAIN items \union {i} |-> IF k = i THEN NewItem(c, r.mode, s, o) ELSE items[k]]
      /\ allocs' = allocs
  <2>1. items' = Effect(r, o).items /\ allocs' = allocs \union Effect(r, o).allocs
    BY DEF Commit
  <2>2. Effect(r, o) = CreateEffect(r, o)
    BY DEF Effect
  <2>3. QED
    BY <2>1, <2>2 DEF CreateEffect
<1>5. /\ DOMAIN E \cap DOMAIN ledger = {}
      /\ DOMAIN ledger' = DOMAIN ledger \union DOMAIN E
      /\ \A e \in DOMAIN ledger : ledger'[e] = ledger[e]
      /\ \A e \in DOMAIN E : ledger'[e] = E[e]
      /\ claims' = NewClaims(r, o)
      /\ DOMAIN receipts' = DOMAIN receipts \union {o}
      /\ receipts'[o].request = r /\ receipts'[o].owner = o
      /\ \A y \in DOMAIN receipts : receipts'[y] = receipts[y]
  <2>1. Adds(r, o, E)
    BY CommitAdds
  <2>2. QED
    BY <2>1 DEF Adds
<1>c. Finite /\ Forms /\ ItemsReconcile /\ WithinPayment
  BY DEF Core
<1>6. /\ DOMAIN items' = DOMAIN items \union {i} /\ \A k \in DOMAIN items : items'[k] = items[k]
      /\ items'[i].original = c /\ items'[i].base = c /\ items'[i].remaining = c
      /\ items'[i].status = "open" /\ items'[i].source = s /\ items'[i].op = o
  <2>1. items'[i] = NewItem(c, r.mode, s, o)
    BY <1>3
  <2>2. QED
    BY <1>1, <1>3, <2>1 DEF NewItem
<1>7. Grows
  BY <1>3, <1>5, <1>6 DEF Grows
<1>8. ItemForm(i)'
  BY <1>1, <1>5, <1>6 DEF ItemForm, Feed
<1>9. Forms'
  <2>1. \A k \in DOMAIN items : /\ items'[k].remaining \in Nat /\ items'[k].remaining <= items[k].base
                                /\ items'[k].status \in {"open", "settled"}
    BY <1>6, <1>c DEF Forms, ItemForm
  <2>2. \A e \in DOMAIN ledger' \ DOMAIN ledger : EntryForm(e)'
    BY <1>5 DEF EntryForm, Feed
  <2>3. /\ DOMAIN claims' \subseteq Evidence /\ DOMAIN receipts' \subseteq Ops
        /\ \A e \in DOMAIN claims' : ClaimForm(e)'
        /\ \A y \in DOMAIN receipts' : receipts'[y].request \in Requests /\ receipts'[y].owner \in Ops
    BY <1>5, <1>c, ClaimsKept
  <2>4. \A k \in DOMAIN items' \ DOMAIN items : ItemForm(k)'
    <3> HIDE DEF i
    <3>1. QED
      BY <1>6, <1>8
  <2>5. QED
    BY <1>3, <1>7, <1>c, <2>1, <2>2, <2>3, <2>4, FormsStep
<1>10. Finite'
  <2>1. IsFiniteSet(DOMAIN items) /\ IsFiniteSet(allocs) /\ IsFiniteSet(DOMAIN ledger)
    BY <1>c DEF Finite
  <2>2. IsFiniteSet(DOMAIN items \union {i}) /\ IsFiniteSet(DOMAIN ledger \union DOMAIN E)
    BY <2>1, FS_AddElement, FS_Union
  <2>3. QED
    BY <1>3, <1>5, <1>6, <2>1, <2>2 DEF Finite
<1>11. \A v : Used(v)' = Used(v)
  BY <1>3, UsedStays
<1>12. \A v : BookedBySettlement(v)' <=> BookedBySettlement(v)
  BY <1>5, BookedKept
<1>13. WithinPayment'
  BY <1>11, <1>c DEF WithinPayment, Gross
<1>14. NewUsesAll'
  <2>1. DOMAIN items' \subseteq DOMAIN items \union {i}
    BY <1>6
  <2>2. QED
    BY <1>7, <1>9, <1>10, <1>11, <1>12, <2>1, FullStays
<1>15. ItemsReconcile'
  <2> DEFINE T == {}
             w == <<>>
  <2>1. Lowers(T, w, i, w)
    BY <1>1, <1>3, <1>6 DEF Lowers
  <2>2. QED
    BY <1>c, <2>1, ReconcileStep
<1>16. QED
  BY <1>1, <1>3, <1>5, <1>6, <1>7, <1>9, <1>10, <1>11, <1>12, <1>13, <1>14, <1>15 DEF Registers

(* An invoice is booked by its own entry. *)
LEMMA CreateNewKeeps ==
  ASSUME Core, NEW r \in Requests, NEW o \in Ops, o \notin DOMAIN receipts,
         r.kind = "item_create", CanCreate(r), Commit(r, o),
         r.mode = "new"
  PROVE  Core' /\ Grows /\ o \in DOMAIN receipts'
<1> DEFINE n == <<"accrual", o>>
           i == r.item
           c == r.amount
           E == Effect(r, o).entries
<1>1. i \in Items /\ i \notin Credits /\ r.source = <<>> /\ c \in Nat
  BY RequestForms, Amount, ItemAssumption DEF Items
<1>2. Sign(i) = 1 /\ Control(i) = "Receivable"
  BY <1>1, Signs
<1>3. DOMAIN E = {n} /\ E[n]["Receivable"] = c /\ E[n]["Deposits"] = 0
  <2>1. Effect(r, o) = CreateEffect(r, o)
    BY DEF Effect
  <2>2. E = [e \in {n} |-> Plus(Posting("Receivable", 1 * c), Posting("Sales", -(1 * c)))]
    BY <1>2, <2>1 DEF CreateEffect
  <2>3. QED
    BY <1>1, <2>2 DEF Plus, Posting, Zero, Accounts
<1> HIDE DEF E
<1>4. Registers(r, o)
  <2>1. IsFiniteSet(DOMAIN E)
    BY <1>3, FS_Singleton
  <2>2. \A e \in DOMAIN E : e[1] # "feed" /\ \A a \in Controls : E[e][a] \in Int
    BY <1>1, <1>3 DEF Controls
  <2>3. QED
    BY <1>1, <2>1, <2>2, CreateRegisters DEF E
<1>5. /\ DOMAIN E \cap DOMAIN ledger = {}
      /\ DOMAIN ledger' = DOMAIN ledger \union DOMAIN E
      /\ \A e \in DOMAIN ledger : ledger'[e] = ledger[e]
      /\ \A e \in DOMAIN E : ledger'[e] = E[e]
  BY CommitAdds DEF E, Adds
<1>6. n \notin DOMAIN ledger /\ DOMAIN ledger' = DOMAIN ledger \union {n}
      /\ ledger'[n]["Receivable"] = c /\ ledger'[n]["Deposits"] = 0
  BY <1>3, <1>5
<1>c. Finite /\ Forms /\ OneSpelling /\ Core /\ Finite' /\ Forms' /\ Grows
  BY <1>4 DEF Core, Registers
<1>7. OneSpelling'
  <2>1. \A s : Feed(s) # n
    BY DEF Feed
  <2>2. QED
    BY <1>6, <1>c, <2>1 DEF OneSpelling, Feed
<1>8. ControlsExplained'
  <2> SUFFICES ASSUME NEW a \in Controls PROVE Balance(a)' = Outstanding(a)' + Unexplained(a)'
    BY DEF ControlsExplained, Controls
  <2>1. Rest(n, a)' = 0
    BY DEF Rest
  <2>2. ASSUME NEW e \in DOMAIN ledger PROVE Rest(e, a)' = Rest(e, a)
    <3>0. EntryForm(e)
      BY <1>c DEF Forms
    <3>1. CASE e[1] # "feed"
      BY <3>1 DEF Rest
    <3>2. CASE e[1] = "feed"
      <4>1. PICK s \in Sources : e = Feed(s)
        BY <3>0, <3>2 DEF EntryForm
      <4>2. e[2] = s /\ s # <<>>
        BY <4>1, SourcePair DEF Feed
      <4>3. RegisteredSum(s, a)' = RegisteredSum(s, a)
        BY <1>1, <1>4, <1>c, <4>2, RegisteredStays DEF Registers
      <4>4. QED
        BY <1>4, <1>c, <4>2, <4>3, RestKept DEF Registers
    <3>3. QED
      BY <3>1, <3>2
  <2>4. Outstanding(a)' = Outstanding(a) - Taken(<<>>, {}, a)
                          + (IF Control(i) = a THEN Sign(i) * items'[i].remaining ELSE 0)
    <3> DEFINE w == <<>>
               T == {}
    <3>1. \A k \in DOMAIN items : items'[k].remaining
            = IF k \in T THEN items[k].remaining - w[k] ELSE items[k].remaining
      BY <1>4 DEF Registers
    <3>2. i \notin DOMAIN items /\ DOMAIN items' = DOMAIN items \union {i} /\ T \subseteq DOMAIN items
          /\ \A k \in T : w[k] \in Int
      BY <1>4 DEF Registers
    <3> HIDE DEF w
    <3>3. QED
      BY <1>c, <3>1, <3>2, OutstandingGains DEF w
  <2>5. Outstanding(a) \in Int /\ items'[i].remaining = c
    BY <1>4, <1>c, OutstandingIs DEF OutstandingSums, Registers
  <2>6. Outstanding(a)' = Outstanding(a) + ledger'[n][a]
    BY <1>1, <1>2, <1>6, <2>4, <2>5, TakenNone DEF Controls
  <2> HIDE DEF n
  <2>7. QED
    BY <1>6, <1>c, <2>1, <2>2, <2>6, ExplainedByEntry
<1>9. QED
  BY <1>4, <1>7, <1>8 DEF Core, Registers

(* A credit taken from a posted row leaves that much less of it unexplained.      *)
LEMMA CreateFromRowKeeps ==
  ASSUME ~AnySpelling, Core, NEW r \in Requests, NEW o \in Ops, o \notin DOMAIN receipts,
         r.kind = "item_create", CanCreate(r), Commit(r, o),
         r.mode = "existing"
  PROVE  Core' /\ Grows /\ o \in DOMAIN receipts'
<1> DEFINE i == r.item
           c == r.amount
           s == r.source
           E == Effect(r, o).entries
           L == ledger[Feed(s)]["Deposits"]
           R == Reserved(s, "Deposits")
<1>1. i \in Items /\ i \in Credits /\ s \in Sources /\ c \in Nat /\ c > 0
  BY RequestForms, Amount DEF Items
<1>2. Sign(i) = -1 /\ Control(i) = "Deposits"
  BY <1>1, Signs
<1>b. Finite /\ Forms /\ OneSpelling /\ NewUsesAll
  BY DEF Core
<1>3. Feed(s) \in DOMAIN ledger /\ L <= R - c /\ L \in Int /\ R \in Int /\ R <= 0
  <2>1. Feed(s) \in DOMAIN ledger
    BY DEF CanCreate, Nameable, Feed
  <2>2. LiveEntry(s) = ledger[Feed(s)]
    BY <1>1, <1>b, <2>1, LiveIs
  <2>3. L \in Int
    BY <1>b, <2>1 DEF Forms, EntryForm, Controls
  <2>4. R \in Int /\ R <= 0
    BY <1>b, ReservedSign
  <2>5. L <= R - c
    <3> DEFINE k == Sign(i)
               x == Reserved(s, Control(i))
               z == LiveEntry(s)[Control(i)]
    <3>1. k * (x + k * c) <= k * z
      BY DEF CanCreate
    <3>2. k = -1 /\ x = R /\ z = L
      BY <1>2, <2>2
    <3> HIDE DEF k, x, z, L, R, c
    <3>3. QED
      BY <1>1, <2>3, <2>4, <3>1, <3>2
  <2>6. QED
    BY <2>1, <2>3, <2>4, <2>5
<1>4. ~BookedBySettlement(s)
  <2> SUFFICES ASSUME BookedBySettlement(s) PROVE FALSE
    OBVIOUS
  <2>1. PICK v \in Variants(s) : FullyUsed(v)
    BY <1>1, <1>b DEF NewUsesAll
  <2>2. v = s
    BY <1>1, <1>3, <1>b, <2>1 DEF OneSpelling, FullyUsed, Variants
  <2>3. R <= L
    BY <2>1, <2>2 DEF FullyUsed
  <2> HIDE DEF L, R, c
  <2>4. QED
    BY <1>1, <1>3, <2>3
<1>5. E = <<>>
  <2>1. Effect(r, o) = CreateEffect(r, o)
    BY DEF Effect
  <2>2. QED
    BY <2>1 DEF CreateEffect
<1> HIDE DEF E
<1>6. DOMAIN E = {}
  BY <1>5
<1>7. Registers(r, o)
  <2>1. IsFiniteSet(DOMAIN E)
    BY <1>6, FS_EmptySet
  <2>2. QED
    BY <1>3, <1>6, <2>1, CreateRegisters DEF E
<1>8. DOMAIN ledger' = DOMAIN ledger /\ \A e \in DOMAIN ledger : ledger'[e] = ledger[e]
  <2>1. /\ DOMAIN ledger' = DOMAIN ledger \union DOMAIN E
        /\ \A e \in DOMAIN ledger : ledger'[e] = ledger[e]
    BY CommitAdds DEF E, Adds
  <2>2. QED
    BY <1>6, <2>1
<1>c. Core /\ Finite' /\ Forms' /\ Grows
  BY <1>7 DEF Registers
<1>9. OneSpelling'
  BY <1>8, <1>b DEF OneSpelling, Feed
<1>10. ControlsExplained'
  <2> SUFFICES ASSUME NEW a \in Controls PROVE Balance(a)' = Outstanding(a)' + Unexplained(a)'
    BY DEF ControlsExplained, Controls
  <2> DEFINE d == IF a = "Deposits" THEN c ELSE 0
  <2>1. d \in Int
    BY <1>1
  <2>2. ASSUME NEW e \in DOMAIN ledger, e # Feed(s) PROVE Rest(e, a)' = Rest(e, a)
    <3>0. EntryForm(e)
      BY <1>b DEF Forms
    <3>1. CASE e[1] # "feed"
      BY <3>1 DEF Rest
    <3>2. CASE e[1] = "feed"
      <4>1. PICK v \in Sources : e = Feed(v)
        BY <3>0, <3>2 DEF EntryForm
      <4>2. e[2] = v /\ v # s
        BY <2>2, <4>1 DEF Feed
      <4>3. RegisteredSum(v, a)' = RegisteredSum(v, a)
        BY <1>7, <1>b, <1>c, <4>2, RegisteredStays DEF Registers
      <4>4. QED
        BY <1>7, <1>c, <4>2, <4>3, RestKept DEF Registers
    <3>3. QED
      BY <3>1, <3>2
  <2>3. Rest(Feed(s), a)' = Rest(Feed(s), a) + d
    <3>0. Feed(s)[2] = s /\ Feed(s)[1] = "feed"
      BY DEF Feed
    <3>1. CASE a = "Receivable"
      <4>1. RegisteredSum(s, a)' = RegisteredSum(s, a)
        BY <1>2, <1>7, <1>b, <1>c, <3>1, RegisteredStays DEF Registers
      <4>2. Rest(Feed(s), a)' = Rest(Feed(s), a)
        BY <1>3, <1>7, <1>c, <3>0, <4>1, RestKept DEF Registers
      <4>3. Rest(Feed(s), a) \in Int
        BY <1>3, <1>b, UnexplainedIs DEF UnexplainedSums
      <4>4. QED
        BY <3>1, <4>2, <4>3
    <3>2. CASE a = "Deposits"
      <4>1. RegisteredSum(s, a)' = RegisteredSum(s, a) + Sign(i) * items'[i].original
        <5>1. i \notin DOMAIN items /\ DOMAIN items' = DOMAIN items \union {i} /\ items'[i].source = s
              /\ receipts'[items'[i].op].request.kind = "item_create"
          BY <1>7 DEF Registers
        <5> HIDE DEF i, s
        <5>2. QED
          BY <1>2, <1>b, <1>c, <3>2, <5>1, RegisteredGains
      <4>2. items'[i].original = c /\ Used(s)' = Used(s) /\ ~BookedBySettlement(s)'
        BY <1>4, <1>7 DEF Registers
      <4>3. RegisteredSum(s, a) \in Int
        BY <1>b, OriginalsInt DEF RegisteredSum, Registered, FromRow
      <4>4. Used(s) \in Int
        BY <1>b, UsedIs
      <4>5. L # 0 /\ ledger'[Feed(s)][a] = L /\ ledger[Feed(s)][a] = L /\ L \in Int
        <5> HIDE DEF c, R
        <5>1. QED
          BY <1>1, <1>3, <1>8, <3>2
      <4>6. Rest(Feed(s), a) = L + Used(s) - RegisteredSum(s, a)
        BY <1>4, <3>0, <4>5 DEF Rest
      <4>7. Rest(Feed(s), a)' = L + Used(s) - (RegisteredSum(s, a) - c)
        <5>1. Rest(Feed(s), a)' = L + Used(s)' - RegisteredSum(s, a)'
          BY <3>0, <4>2, <4>5 DEF Rest, Feed
        <5>2. RegisteredSum(s, a)' = RegisteredSum(s, a) - c
          BY <1>1, <1>2, <4>1, <4>2, <4>3
        <5>3. QED
          BY <4>2, <5>1, <5>2
      <4> HIDE DEF L, c
      <4>8. QED
        BY <1>1, <3>2, <4>3, <4>4, <4>5, <4>6, <4>7
    <3>3. QED
      BY <3>1, <3>2 DEF Controls
  <2>4. Outstanding(a)' = Outstanding(a) - Taken(<<>>, {}, a)
                          + (IF Control(i) = a THEN Sign(i) * items'[i].remaining ELSE 0)
    <3> DEFINE w == <<>>
               T == {}
    <3>1. \A k \in DOMAIN items : items'[k].remaining
            = IF k \in T THEN items[k].remaining - w[k] ELSE items[k].remaining
      BY <1>7 DEF Registers
    <3>2. i \notin DOMAIN items /\ DOMAIN items' = DOMAIN items \union {i} /\ T \subseteq DOMAIN items
          /\ \A k \in T : w[k] \in Int
      BY <1>7 DEF Registers
    <3> HIDE DEF w
    <3>3. QED
      BY <1>b, <1>c, <3>1, <3>2, OutstandingGains DEF w
  <2>5. Outstanding(a) \in Int /\ items'[i].remaining = c
    BY <1>7, <1>b, OutstandingIs DEF OutstandingSums, Registers
  <2>6. Outstanding(a)' = Outstanding(a) - d
    BY <1>1, <1>2, <2>4, <2>5, TakenNone DEF Controls
  <2>7. \A e \in DOMAIN ledger : Rest(e, a)' = IF e = Feed(s) THEN Rest(e, a) + d ELSE Rest(e, a)
    <3> HIDE DEF d, s
    <3>1. QED
      BY <2>2, <2>3
  <2> HIDE DEF d, s
  <2>8. QED
    BY <1>3, <1>8, <1>c, <2>1, <2>6, <2>7, ExplainedByRest
<1>11. QED
  BY <1>7, <1>9, <1>10 DEF Core, Registers

--------------------------------------------------------------------------------
(* What the three ways of settling share: the rows are lowered, the excess becomes *)
(* a credit, the payment is used by that much and the outstanding items change by  *)
(* exactly what the settlement would post to their control account.                *)
Settles(r, o, E) ==
  /\ Core /\ Finite' /\ Forms' /\ Grows /\ ItemsReconcile' /\ WithinPayment'
  /\ Adds(r, o, E) /\ o \in DOMAIN receipts'
  /\ \E n : DOMAIN items' \subseteq DOMAIN items \union {n}
  /\ Used(r.source)' = Used(r.source) + RowSum(r) + Excess(r)
  /\ \A s : s # r.source => Used(s)' = Used(s)
  /\ \A s : BookedBySettlement(s)' <=> BookedBySettlement(s) \/ (r.mode = "new" /\ r.source = s)
  /\ \A s : \A a \in Controls : RegisteredSum(s, a)' = RegisteredSum(s, a)
  /\ \A a \in Controls : Outstanding(a)' = Outstanding(a) + ControlPosting(r, a)
  /\ \A i \in DOMAIN items' \ DOMAIN items :
       i = r.excess /\ r.excess # NoItem /\ items'[i].original = Excess(r)

(* The items and allocations of a settlement. *)
LEMMA SettleLowers ==
  ASSUME Finite, Forms, NEW r \in Requests, NEW o, o \notin DOMAIN receipts,
         r.kind = "item_settlement", CanSettle(r), Commit(r, o)
  PROVE  /\ Lowers(DOMAIN r.rows, r.rows, r.excess, [i \in DOMAIN r.rows |-> RowAlloc(r, o, i)])
         /\ allocs' = allocs \union SettleAllocs(r, o)
         /\ r.excess = NoItem => DOMAIN items' = DOMAIN items
         /\ r.excess # NoItem =>
              DOMAIN items' = DOMAIN items \union {r.excess} /\ items'[r.excess] = NewItem(Excess(r), r.mode, r.source, o)
<1> DEFINE T == DOMAIN r.rows
           n == r.excess
           m == [i \in T |-> RowAlloc(r, o, i)]
           changed == [i \in DOMAIN items |-> IF i \in T THEN Lowered(i, r.rows[i]) ELSE items[i]]
<1>1. /\ items' = (IF n = NoItem THEN changed
                   ELSE [i \in DOMAIN items \union {n} |->
                           IF i = n THEN NewItem(Abs(Excess(r)), r.mode, r.source, o) ELSE changed[i]])
      /\ allocs' = allocs \union SettleAllocs(r, o)
  <2>1. items' = Effect(r, o).items /\ allocs' = allocs \union Effect(r, o).allocs
    BY DEF Commit
  <2>2. Effect(r, o) = SettleEffect(r, o)
    BY DEF Effect
  <2>3. SettleEffect(r, o).items = (IF n = NoItem THEN changed
                   ELSE [i \in DOMAIN items \union {n} |->
                           IF i = n THEN NewItem(Abs(Excess(r)), r.mode, r.source, o) ELSE changed[i]])
    BY DEF SettleEffect
  <2>4. SettleEffect(r, o).allocs = SettleAllocs(r, o)
    BY DEF SettleEffect, SettleAllocs, RowAlloc, RestAlloc
  <2>5. QED
    BY <2>1, <2>2, <2>3, <2>4
<1>2. /\ T \subseteq DOMAIN items
      /\ \A i \in T : r.rows[i] \in Nat /\ r.rows[i] > 0 /\ r.rows[i] <= items[i].remaining
  BY SettleRows
<1>3. n # NoItem => Excess(r) > 0 /\ n \notin DOMAIN items
  BY SettleExcess
<1>4. Excess(r) \in Int
  BY SettleExcess
<1>5. \A i \in DOMAIN items : changed[i] = IF i \in T THEN Lowered(i, r.rows[i]) ELSE items[i]
  OBVIOUS
<1>6. DOMAIN changed = DOMAIN items
  OBVIOUS
<1> HIDE DEF changed
<1>7. n # NoItem => Abs(Excess(r)) = Excess(r)
  BY <1>3, <1>4 DEF Abs
<1>8. /\ \A i \in DOMAIN items : items'[i] = IF i \in T THEN Lowered(i, r.rows[i]) ELSE items[i]
      /\ n = NoItem => DOMAIN items' = DOMAIN items
      /\ n # NoItem => DOMAIN items' = DOMAIN items \union {n} /\ items'[n] = NewItem(Excess(r), r.mode, r.source, o)
  BY <1>1, <1>3, <1>5, <1>6, <1>7
<1>9. n \in DOMAIN items' \ DOMAIN items =>
        items'[n].base \in Nat /\ items'[n].remaining = items'[n].base
        /\ items'[n].base > 0 /\ items'[n].status = "open"
  <2> HIDE DEF n
  <2>1. n \in DOMAIN items' \ DOMAIN items => n # NoItem
    BY <1>8
  <2>2. n \in DOMAIN items' \ DOMAIN items => items'[n] = NewItem(Excess(r), r.mode, r.source, o)
    BY <1>8, <2>1
  <2>3. QED
    BY <1>3, <1>4, <2>1, <2>2 DEF NewItem
<1>10. \A i \in T : m[i].id[2] = o /\ m[i].kind = "settlement" /\ m[i].item = i /\ m[i].amount = r.rows[i]
                    /\ m[i] \in SettleAllocs(r, o)
  BY DEF RowAlloc, SettleAllocs
<1>11. \A x \in SettleAllocs(r, o) : x.kind \in Reduces => x.item \in T /\ x = m[x.item]
  BY DEF SettleAllocs, RowAlloc, RestAlloc, Reduces
<1>12. \A i \in T : m[i] \notin allocs
  <2> SUFFICES ASSUME NEW i \in T, m[i] \in allocs PROVE FALSE
    OBVIOUS
  <2> HIDE DEF m
  <2>1. m[i].id[2] \in DOMAIN receipts
    BY <1>10 DEF Forms, AllocForm
  <2>2. QED
    BY <1>10, <2>1
<1>13. Lowers(T, r.rows, n, m)
  <2> HIDE DEF m, T, n
  <2>1. \A i \in T : m[i] \in allocs' /\ m[i] \notin allocs /\ m[i].item = i /\ m[i].amount = r.rows[i]
                     /\ m[i].kind \in Reduces
    BY <1>1, <1>10, <1>12 DEF Reduces
  <2>2. \A x \in allocs' \ allocs : x.kind \in Reduces => x.item \in T /\ x = m[x.item]
    BY <1>1, <1>11
  <2>3. \A i \in T : r.rows[i] \in Nat /\ r.rows[i] > 0 /\ r.rows[i] <= items[i].remaining
                     /\ items'[i] = Lowered(i, r.rows[i])
    BY <1>2, <1>8
  <2>4. \A i \in DOMAIN items \ T : items'[i] = items[i]
    BY <1>8
  <2>5. DOMAIN items' \subseteq DOMAIN items \union {n} /\ DOMAIN items \subseteq DOMAIN items'
    BY <1>8
  <2>6. allocs \subseteq allocs'
    BY <1>1
  <2>7. QED
    BY <1>2, <1>9, <2>1, <2>2, <2>3, <2>4, <2>5, <2>6 DEF Lowers
<1>14. QED
  BY <1>1, <1>8, <1>13

(* Every settlement does what Settles says. *)
LEMMA SettleShares ==
  ASSUME Core, NEW r \in Requests, NEW o \in Ops, o \notin DOMAIN receipts,
         r.kind = "item_settlement", CanSettle(r), Commit(r, o),
         NEW E, Effect(r, o).entries = E, IsFiniteSet(DOMAIN E),
         \A e \in DOMAIN E : /\ \A a \in Controls : E[e][a] \in Int
                             /\ e[1] = "feed" => e = Feed(r.source),
         Feed(r.source) \in DOMAIN ledger \union DOMAIN E
  PROVE  Settles(r, o, E)
<1> DEFINE T == DOMAIN r.rows
           n == r.excess
           m == [i \in T |-> RowAlloc(r, o, i)]
<1>c. Finite /\ Forms /\ ItemsReconcile /\ WithinPayment
  BY DEF Core
<1>1. /\ Lowers(T, r.rows, n, m)
      /\ allocs' = allocs \union SettleAllocs(r, o)
      /\ n = NoItem => DOMAIN items' = DOMAIN items
      /\ n # NoItem => DOMAIN items' = DOMAIN items \union {n} /\ items'[n] = NewItem(Excess(r), r.mode, r.source, o)
  BY <1>c, SettleLowers
<1>2. Adds(r, o, E)
  BY CommitAdds
<1>3. /\ T \subseteq DOMAIN items /\ r.source \in Sources
      /\ \A i \in T : r.rows[i] \in Nat /\ r.rows[i] > 0 /\ r.rows[i] <= items[i].remaining
  BY <1>c, SettleRows
<1>4. /\ Excess(r) \in Int
      /\ n # NoItem => Excess(r) > 0 /\ n \in Credits /\ n \notin DOMAIN items
      /\ Abs(Used(r.source) + RowSum(r) + Excess(r)) <= Abs(Gross(r.source[1]))
      /\ (Used(r.source) + RowSum(r) + Excess(r)) * Gross(r.source[1]) >= 0
  BY <1>c, SettleExcess
<1>5. /\ DOMAIN ledger' = DOMAIN ledger \union DOMAIN E
      /\ \A e \in DOMAIN ledger : ledger'[e] = ledger[e]
      /\ \A e \in DOMAIN E : ledger'[e] = E[e]
      /\ claims' = NewClaims(r, o)
      /\ DOMAIN receipts' = DOMAIN receipts \union {o}
      /\ receipts'[o].request = r /\ receipts'[o].owner = o
      /\ \A y \in DOMAIN receipts : receipts'[y] = receipts[y]
  BY <1>2 DEF Adds
<1>6. \A i \in DOMAIN items :
        /\ items'[i].base = items[i].base /\ items'[i].original = items[i].original
        /\ items'[i].op = items[i].op /\ items'[i].source = items[i].source
        /\ items'[i].remaining = IF i \in T THEN items[i].remaining - r.rows[i] ELSE items[i].remaining
        /\ items'[i].remaining \in Nat /\ items'[i].remaining <= items[i].base
        /\ items'[i].status \in {"open", "settled"}
  <2> TAKE i \in DOMAIN items
  <2>1. CASE i \in T
    <3>1. items'[i] = Lowered(i, r.rows[i])
      BY <1>1, <2>1 DEF Lowers
    <3>2. r.rows[i] \in Nat /\ r.rows[i] <= items[i].remaining
      BY <1>3, <2>1
    <3>3. QED
      BY <1>c, <2>1, <3>1, <3>2, LoweredFields
  <2>2. CASE i \notin T
    <3>1. items'[i] = items[i]
      BY <1>1, <2>2 DEF Lowers
    <3>2. QED
      BY <1>c, <2>2, <3>1 DEF Forms, ItemForm
  <2>3. QED
    BY <2>1, <2>2
<1>7. Grows
  <2>1. DOMAIN items \subseteq DOMAIN items' /\ allocs \subseteq allocs'
    BY <1>1 DEF Lowers
  <2>2. QED
    BY <1>5, <1>6, <2>1 DEF Grows
<1>8. n # NoItem => /\ items'[n].original = Excess(r) /\ items'[n].base = Excess(r)
                    /\ items'[n].remaining = Excess(r) /\ items'[n].status = "open"
                    /\ items'[n].op = o /\ items'[n].source = r.source
  BY <1>1 DEF NewItem
<1>9. Feed(r.source) \in DOMAIN ledger'
  BY <1>5
<1>10. Forms'
  <2>1. \A i \in DOMAIN items' \ DOMAIN items : ItemForm(i)'
    <3> SUFFICES ASSUME NEW i \in DOMAIN items' \ DOMAIN items PROVE ItemForm(i)'
      OBVIOUS
    <3>1. i = n /\ n # NoItem
      BY <1>1
    <3>2. i \in Credits /\ Excess(r) \in Nat /\ Excess(r) <= Excess(r)
      BY <1>4, <3>1
    <3> HIDE DEF n
    <3>3. QED
      BY <1>3, <1>5, <1>8, <1>9, <3>1, <3>2 DEF ItemForm, Items, Feed
  <2>2. ASSUME NEW x \in SettleAllocs(r, o) PROVE AllocForm(x)'
    <3>1. CASE x \in {RowAlloc(r, o, i) : i \in T}
      <4>1. PICK i \in T : x = RowAlloc(r, o, i)
        BY <3>1
      <4>2. i \in DOMAIN items' /\ r.rows[i] \in Nat /\ (Sign(i) = 1 \/ Sign(i) = -1)
        BY <1>3, <1>7, <1>c, Signs DEF Grows, Forms, ItemForm
      <4>3. QED
        BY <1>3, <1>5, <1>9, <4>1, <4>2 DEF AllocForm, RowAlloc, Feed
    <3>2. CASE x \notin {RowAlloc(r, o, i) : i \in T}
      <4>1. n # NoItem /\ x = RestAlloc(r, o)
        BY <3>2 DEF SettleAllocs
      <4>2. n \in DOMAIN items' /\ Abs(Excess(r)) \in Nat
        BY <1>1, <1>4, <4>1 DEF Abs
      <4>3. QED
        BY <1>3, <1>4, <1>5, <1>9, <4>1, <4>2 DEF AllocForm, RestAlloc, Feed
    <3>3. QED
      BY <3>1, <3>2
  <2>3. \A x \in allocs' \ allocs : AllocForm(x)'
    BY <1>1, <2>2
  <2>4. \A e \in DOMAIN ledger' \ DOMAIN ledger : EntryForm(e)'
    BY <1>3, <1>5 DEF EntryForm, Feed
  <2>5. /\ DOMAIN claims' \subseteq Evidence /\ DOMAIN receipts' \subseteq Ops
        /\ \A e \in DOMAIN claims' : ClaimForm(e)'
        /\ \A y \in DOMAIN receipts' : receipts'[y].request \in Requests /\ receipts'[y].owner \in Ops
    BY <1>5, <1>9, <1>c, ClaimsKept
  <2>6. \A i \in DOMAIN items : /\ items'[i].remaining \in Nat /\ items'[i].remaining <= items[i].base
                                /\ items'[i].status \in {"open", "settled"}
    BY <1>6
  <2>7. QED
    BY <1>7, <1>c, <2>1, <2>3, <2>4, <2>5, <2>6, FormsStep
<1>11. /\ Used(r.source)' = Used(r.source) + RowSum(r) + Excess(r)
       /\ \A s : s # r.source => Used(s)' = Used(s)
       /\ IsFiniteSet(allocs')
  BY <1>1, <1>c, SettleUses
<1>12. Finite'
  <2>1. IsFiniteSet(DOMAIN items) /\ IsFiniteSet(DOMAIN ledger)
    BY <1>c DEF Finite
  <2>2. IsFiniteSet(DOMAIN items \union {n}) /\ IsFiniteSet(DOMAIN ledger \union DOMAIN E)
    BY <2>1, FS_AddElement, FS_Union
  <2>3. IsFiniteSet(DOMAIN items')
    BY <1>1, <2>1, <2>2
  <2>4. QED
    BY <1>5, <1>11, <2>2, <2>3 DEF Finite
<1>13. ItemsReconcile'
  BY <1>1, <1>c, ReconcileStep
<1>14. WithinPayment'
  <2> SUFFICES ASSUME NEW s \in Sources
               PROVE  Abs(Used(s)') <= Abs(Gross(s[1])) /\ Used(s)' * Gross(s[1]) >= 0
    BY DEF WithinPayment, Abs, Gross
  <2>1. CASE s = r.source
    BY <1>4, <1>11, <2>1
  <2>2. CASE s # r.source
    BY <1>11, <1>c, <2>2 DEF WithinPayment
  <2>3. QED
    BY <2>1, <2>2
<1>15. \A s : BookedBySettlement(s)' <=> BookedBySettlement(s) \/ (r.mode = "new" /\ r.source = s)
  BY <1>5, BookedKept
<1>16. \A i \in DOMAIN items' \ DOMAIN items : i = n /\ n # NoItem /\ items'[i].original = Excess(r) /\ items'[i].op = o
  <2> HIDE DEF n
  <2>1. QED
    BY <1>1, <1>8
<1>17. \A s : \A a \in Controls : RegisteredSum(s, a)' = RegisteredSum(s, a)
  BY <1>5, <1>7, <1>16, <1>c, RegisteredStays
<1>18. ASSUME NEW a \in Controls PROVE Outstanding(a)' = Outstanding(a) + ControlPosting(r, a)
  <2>1. ControlPosting(r, a) = (IF a = "Deposits" THEN -Excess(r) ELSE 0) - Taken(r.rows, T, a)
    BY <1>c, SettlePosting
  <2>2. Outstanding(a) \in Int
    BY <1>c, OutstandingIs DEF OutstandingSums
  <2>3. Taken(r.rows, T, a) \in Int
    BY <1>c, SettleRows
  <2>w. \A i \in T : r.rows[i] \in Int
    BY <1>3
  <2>4. CASE n = NoItem
    <3>1. Outstanding(a)' = Outstanding(a) - Taken(r.rows, T, a)
      <4>1. DOMAIN items' = DOMAIN items
        BY <1>1, <2>4
      <4>2. \A i \in DOMAIN items :
              items'[i].remaining = IF i \in T THEN items[i].remaining - r.rows[i] ELSE items[i].remaining
        BY <1>6
      <4> HIDE DEF T
      <4>3. QED
        BY <1>3, <1>10, <1>12, <1>c, <2>w, <4>1, <4>2, OutstandingStep
    <3>2. Excess(r) = 0
      BY <1>c, <2>4, SettleExcess
    <3>3. QED
      BY <2>1, <2>2, <2>3, <3>1, <3>2
  <2>5. CASE n # NoItem
    <3>1. Outstanding(a)' = Outstanding(a) - Taken(r.rows, T, a)
                            + (IF Control(n) = a THEN Sign(n) * items'[n].remaining ELSE 0)
      <4>1. n \notin DOMAIN items /\ DOMAIN items' = DOMAIN items \union {n}
        BY <1>1, <1>4, <2>5
      <4>2. \A i \in DOMAIN items :
              items'[i].remaining = IF i \in T THEN items[i].remaining - r.rows[i] ELSE items[i].remaining
        BY <1>6
      <4> HIDE DEF T, n
      <4>3. QED
        BY <1>3, <1>10, <1>12, <1>c, <2>w, <4>1, <4>2, OutstandingGains
    <3>2. Control(n) = "Deposits" /\ Sign(n) = -1 /\ items'[n].remaining = Excess(r)
      BY <1>4, <1>8, <2>5 DEF Control, Sign
    <3> HIDE DEF n, T
    <3>3. QED
      BY <1>4, <2>1, <2>2, <2>3, <3>1, <3>2 DEF Controls
  <2>6. QED
    BY <2>4, <2>5
<1>19. \E x : DOMAIN items' \subseteq DOMAIN items \union {x}
  BY <1>16
<1>20. QED
  BY <1>2, <1>5, <1>7, <1>10, <1>11, <1>12, <1>13, <1>14, <1>15, <1>16, <1>17, <1>18, <1>19 DEF Settles

(* The two postings of a settlement come to what it takes from the payment. *)
LEMMA PostingsSum ==
  ASSUME Finite, Forms, NEW r \in Requests, r.kind = "item_settlement", CanSettle(r)
  PROVE  /\ ControlPosting(r, "Receivable") + ControlPosting(r, "Deposits") = -(RowSum(r) + Excess(r))
         /\ RowSum(r) + Excess(r) \in Int
         /\ ControlPosting(r, "Receivable") \in Int /\ ControlPosting(r, "Deposits") \in Int
<1>1. /\ ControlPosting(r, "Deposits") = -Excess(r) - Taken(r.rows, DOMAIN r.rows, "Deposits")
      /\ ControlPosting(r, "Receivable") = 0 - Taken(r.rows, DOMAIN r.rows, "Receivable")
      /\ ControlPosting(r, "Receivable") \in Int /\ ControlPosting(r, "Deposits") \in Int
  BY SettlePosting DEF Controls
<1>2. Excess(r) \in Int /\ RowSum(r) \in Int
  BY SettleExcess, SettleRows
<1>3. \/ /\ Taken(r.rows, DOMAIN r.rows, "Deposits") = 0
         /\ Taken(r.rows, DOMAIN r.rows, "Receivable") = RowSum(r)
      \/ /\ Taken(r.rows, DOMAIN r.rows, "Receivable") = 0
         /\ Taken(r.rows, DOMAIN r.rows, "Deposits") = RowSum(r)
  BY SettleRows
<1>4. QED
  BY <1>1, <1>2, <1>3

(* From a payment that is used up no settlement takes anything more. *)
LEMMA NothingLeft ==
  ASSUME Finite, Forms, NEW r \in Requests, r.kind = "item_settlement", CanSettle(r), FullyUsed(r.source)
  PROVE  RowSum(r) = 0 /\ Excess(r) = 0
<1> DEFINE u == Used(r.source)
           n == RowSum(r)
           x == Excess(r)
           p == r.source[1]
           G == Gross(p)
<1>1. u \in Int /\ n \in Int /\ x \in Int /\ G \in Int /\ Cash[p] \in Int
  BY SettleExcess, SettleRows, GrossInt
<1>2. u = G /\ (Cash[p] > 0 \/ G <= 0)
  BY DEF FullyUsed
<1>3. Abs(u + n + x) <= Abs(G) /\ (u + n + x) * G >= 0 /\ (x = 0 \/ (x > 0 /\ Cash[p] > 0))
  BY SettleExcess
<1>4. (Cash[p] > 0 => n >= 0 /\ G > 0) /\ (~(Cash[p] > 0) => n <= 0)
  BY SettleRows, GrossInt
<1> HIDE DEF u, n, x, G
<1>5. CASE Cash[p] > 0
  <2>1. u + n + x >= G /\ G > 0 /\ n >= 0 /\ x >= 0
    BY <1>1, <1>2, <1>3, <1>4, <1>5
  <2>2. u + n + x <= G
    BY <1>1, <1>3, <2>1 DEF Abs
  <2>3. n = 0 /\ x = 0
    BY <1>1, <1>2, <2>1, <2>2
  <2>4. QED
    BY <2>3 DEF n, x
<1>6. CASE ~(Cash[p] > 0)
  <2>1. x = 0 /\ n <= 0 /\ G <= 0 /\ u = G
    BY <1>2, <1>3, <1>4, <1>6
  <2>2. Abs(G) = -G
    BY <1>1, <2>1 DEF Abs
  <2>3. u + n + x <= G
    BY <1>1, <2>1
  <2>4. Abs(u + n + x) = -(u + n + x)
    BY <1>1, <2>1, <2>3 DEF Abs
  <2>5. n = 0
    BY <1>1, <1>3, <2>1, <2>2, <2>4
  <2>6. QED
    BY <2>1, <2>5 DEF n, x
<1>7. QED
  BY <1>5, <1>6

(* Settling against a posted row leaves every payment that is used up so. *)
LEMMA SettleFullKept ==
  ASSUME NEW r \in Requests, NEW o, NEW E, r.kind = "item_settlement", CanSettle(r), Settles(r, o, E)
  PROVE  \A v \in Sources : FullyUsed(v) /\ v = r.source => Used(v)' = Used(v)
<1> SUFFICES ASSUME FullyUsed(r.source) PROVE Used(r.source)' = Used(r.source)
  OBVIOUS
<1>1. Finite /\ Forms
  BY DEF Settles, Core
<1>2. RowSum(r) = 0 /\ Excess(r) = 0 /\ Used(r.source) \in Int
  BY <1>1, NothingLeft, UsedIs
<1>3. Used(r.source)' = Used(r.source) + RowSum(r) + Excess(r)
  BY DEF Settles
<1>4. QED
  BY <1>2, <1>3

(* Settling against a posted row keeps the settled payments used up. *)
LEMMA SettlePostedNewUses ==
  ASSUME NEW r \in Requests, NEW o, NEW E, r.kind = "item_settlement", CanSettle(r), Settles(r, o, E),
         r.mode # "new"
  PROVE  NewUsesAll'
<1>1. Core /\ Finite' /\ Forms' /\ Grows
  BY DEF Settles
<1>2. PICK n : DOMAIN items' \subseteq DOMAIN items \union {n}
  BY DEF Settles
<1>3. \A v \in Sources : FullyUsed(v) => Used(v)' = Used(v)
  BY SettleFullKept DEF Settles
<1>4. \A s \in Sources : BookedBySettlement(s)' => BookedBySettlement(s)
  BY DEF Settles
<1>5. QED
  BY <1>1, <1>2, <1>3, <1>4, FullStays

(* A posted payment that already went to the control account answers for that    *)
(* much less of it.                                                               *)
LEMMA SettleControlKeeps ==
  ASSUME ~AnySpelling, Core, NEW r \in Requests, NEW o \in Ops, o \notin DOMAIN receipts,
         r.kind = "item_settlement", CanSettle(r), Commit(r, o),
         r.mode = "existing", IsControlPayment(r)
  PROVE  Core' /\ Grows /\ o \in DOMAIN receipts'
<1> DEFINE s == r.source
           E == Effect(r, o).entries
           x == RowSum(r) + Excess(r)
<1>b. Finite /\ Forms /\ OneSpelling /\ NewUsesAll
  BY DEF Core
<1>1. s \in Sources /\ Feed(s) \in DOMAIN ledger
  BY RequestForms DEF CanSettle, Nameable, Feed
<1>2. LiveEntry(s) = ledger[Feed(s)]
  BY <1>1, <1>b, LiveIs
<1>3. E = <<>>
  <2>1. Effect(r, o) = SettleEffect(r, o)
    BY DEF Effect
  <2>2. QED
    BY <2>1 DEF SettleEffect
<1> HIDE DEF E
<1>4. DOMAIN E = {}
  BY <1>3
<1>5. Settles(r, o, E)
  <2>1. IsFiniteSet(DOMAIN E)
    BY <1>4, FS_EmptySet
  <2>2. QED
    BY <1>1, <1>4, <2>1, SettleShares DEF E
<1>6. DOMAIN ledger' = DOMAIN ledger /\ \A e \in DOMAIN ledger : ledger'[e] = ledger[e]
  BY <1>4, <1>5 DEF Settles, Adds
<1>c. Finite' /\ Forms' /\ Grows
  BY <1>5 DEF Settles
<1>7. OneSpelling'
  BY <1>6, <1>b DEF OneSpelling, Feed
<1>8. NewUsesAll'
  BY <1>5, SettlePostedNewUses
<1>9. PICK c \in Controls : /\ \A a \in Controls : ledger[Feed(s)][a] # 0 <=> a = c
                            /\ \A i \in DOMAIN r.rows : Control(i) = c
                            /\ r.excess # NoItem => Control(r.excess) = c
  <2>1. Cardinality(Offsetting(s)) = 1 /\ ControlsOf(r) = Offsetting(s)
    BY DEF IsControlPayment
  <2>2. IsFiniteSet(Offsetting(s))
    <3>1. IsFiniteSet({"Receivable", "Deposits"} \union {"Sales"})
      BY FS_Singleton, FS_Union, {"Receivable", "Deposits"} = {"Receivable"} \union {"Deposits"}
    <3>2. IsFiniteSet({"Receivable", "Deposits", "Sales", "Services", "Allowances"})
      <4>1. IsFiniteSet({"Services"} \union {"Allowances"})
        BY FS_Singleton, FS_Union
      <4>2. IsFiniteSet(({"Receivable", "Deposits"} \union {"Sales"}) \union ({"Services"} \union {"Allowances"}))
        BY <3>1, <4>1, FS_Union
      <4>3. {"Receivable", "Deposits", "Sales", "Services", "Allowances"}
              = ({"Receivable", "Deposits"} \union {"Sales"}) \union ({"Services"} \union {"Allowances"})
        OBVIOUS
      <4>4. QED
        BY <4>2, <4>3
    <3>3. Offsetting(s) \subseteq {"Receivable", "Deposits", "Sales", "Services", "Allowances"}
      BY DEF Offsetting, Accounts
    <3>4. QED
      BY <3>2, <3>3, FS_Subset
  <2>3. PICK c : Offsetting(s) = {c}
    BY <2>1, <2>2, FS_Singleton
  <2>4. \A i \in DOMAIN r.rows \union ({r.excess} \ {NoItem}) : Control(i) = c
    BY <2>1, <2>3 DEF ControlsOf
  <2>5. c \in ControlsOf(r)
    BY <2>1, <2>3
  <2>6. c \in Controls
    BY <2>5 DEF ControlsOf, Control, Controls
  <2>7. \A a \in Controls : ledger[Feed(s)][a] # 0 <=> a = c
    <3>1. \A a \in Controls : a \in Offsetting(s) <=> ledger[Feed(s)][a] # 0
      BY <1>2 DEF Offsetting, Controls, Accounts
    <3>2. QED
      BY <2>3, <3>1
  <2>8. QED
    BY <2>4, <2>6, <2>7
<1>10. \A a \in Controls : ControlPosting(r, a) = IF a = c THEN -x ELSE 0
  <2>1. \A a \in Controls : a # c => ControlPosting(r, a) = 0
    <3> SUFFICES ASSUME NEW a \in Controls, a # c PROVE ControlPosting(r, a) = 0
      OBVIOUS
    <3>1. {i \in DOMAIN r.rows : Control(i) = a} = {}
      BY <1>9
    <3>2. Taken(r.rows, DOMAIN r.rows, a) = Taken(r.rows, {}, a)
      BY <3>1 DEF Taken
    <3>3. Taken(r.rows, DOMAIN r.rows, a) = 0
      BY <3>2, TakenNone
    <3>4. a = "Deposits" => Excess(r) = 0
      <4>1. r.excess # NoItem => r.excess \in Credits
        BY <1>b, SettleExcess
      <4>2. a = "Deposits" => r.excess = NoItem
        BY <1>9, <4>1 DEF Control
      <4>3. QED
        BY <1>b, <4>2, SettleExcess
    <3>5. ControlPosting(r, a) = (IF a = "Deposits" THEN -Excess(r) ELSE 0) - Taken(r.rows, DOMAIN r.rows, a)
      BY <1>b, SettlePosting
    <3>6. QED
      BY <3>3, <3>4, <3>5
  <2>2. /\ ControlPosting(r, "Receivable") + ControlPosting(r, "Deposits") = -x
        /\ x \in Int
        /\ ControlPosting(r, "Receivable") \in Int /\ ControlPosting(r, "Deposits") \in Int
    BY <1>b, PostingsSum
  <2> HIDE DEF x
  <2>3. QED
    BY <2>1, <2>2 DEF Controls
<1>x. x \in Int
  BY <1>b, PostingsSum
<1>11. BookedBySettlement(s) => x = 0
  <2> SUFFICES ASSUME BookedBySettlement(s) PROVE x = 0
    OBVIOUS
  <2>1. PICK v \in Variants(s) : FullyUsed(v)
    BY <1>1, <1>b DEF NewUsesAll
  <2>2. v = s
    BY <1>1, <1>b, <2>1 DEF OneSpelling, FullyUsed, Variants
  <2>3. QED
    BY <1>b, <2>1, <2>2, NothingLeft
<1>12. BookedBySettlement(s)' <=> BookedBySettlement(s)
  BY <1>5 DEF Settles
<1>13. ControlsExplained'
  <2> SUFFICES ASSUME NEW a \in Controls PROVE Balance(a)' = Outstanding(a)' + Unexplained(a)'
    BY DEF ControlsExplained, Controls
  <2> DEFINE d == IF a = c THEN x ELSE 0
  <2>1. d \in Int
    BY <1>x
  <2>2. ASSUME NEW e \in DOMAIN ledger, e # Feed(s) PROVE Rest(e, a)' = Rest(e, a)
    <3>0. EntryForm(e)
      BY <1>b DEF Forms
    <3>1. CASE e[1] # "feed"
      BY <3>1 DEF Rest
    <3>2. CASE e[1] = "feed"
      <4>1. PICK v \in Sources : e = Feed(v)
        BY <3>0, <3>2 DEF EntryForm
      <4>2. e[2] = v /\ v # s
        BY <2>2, <4>1 DEF Feed
      <4>3. QED
        BY <1>5, <1>c, <4>2, RestKept DEF Settles
    <3>3. QED
      BY <3>1, <3>2
  <2>3. Rest(Feed(s), a)' = Rest(Feed(s), a) + d
    <3>0. Feed(s)[2] = s /\ Feed(s)[1] = "feed"
      BY DEF Feed
    <3>i. Rest(Feed(s), a) \in Int
      BY <1>1, <1>b, UnexplainedIs DEF UnexplainedSums
    <3>1. CASE BookedBySettlement(s)
      <4>1. Rest(Feed(s), a) = 0 /\ Rest(Feed(s), a)' = 0
        BY <1>12, <3>0, <3>1 DEF Rest, Feed
      <4>2. QED
        BY <1>11, <3>1, <4>1
    <3>2. CASE ~BookedBySettlement(s) /\ a # c
      <4>1. ledger[Feed(s)][a] = 0 /\ ledger'[Feed(s)][a] = 0
        BY <1>1, <1>6, <1>9, <3>2
      <4>2. Rest(Feed(s), a) = 0 /\ Rest(Feed(s), a)' = 0
        BY <4>1 DEF Rest, Feed
      <4>3. QED
        BY <3>2, <4>2
    <3>3. CASE ~BookedBySettlement(s) /\ a = c
      <4> DEFINE L == ledger[Feed(s)][a]
                 g == RegisteredSum(s, a)
      <4>1. L # 0 /\ ledger'[Feed(s)][a] = L
        BY <1>1, <1>6, <1>9, <3>3
      <4>2. L \in Int
        BY <1>1, <1>b DEF Forms, EntryForm
      <4>3. Used(s)' = Used(s) + RowSum(r) + Excess(r) /\ RegisteredSum(s, a)' = g
        BY <1>5 DEF Settles
      <4>4. g \in Int
        BY <1>b, OriginalsInt DEF RegisteredSum, Registered, FromRow
      <4>5. Used(s) \in Int /\ RowSum(r) \in Int /\ Excess(r) \in Int
        BY <1>b, UsedIs, SettleRows, SettleExcess
      <4>6. Rest(Feed(s), a) = L + Used(s) - g
        BY <3>0, <3>3, <4>1 DEF Rest
      <4>7. Rest(Feed(s), a)' = L + Used(s)' - g
        BY <1>12, <3>0, <3>3, <4>1, <4>3 DEF Rest, Feed
      <4> HIDE DEF L, g
      <4>8. QED
        BY <3>3, <4>2, <4>3, <4>4, <4>5, <4>6, <4>7
    <3>4. QED
      BY <3>1, <3>2, <3>3
  <2>4. Outstanding(a)' = Outstanding(a) - d
    <3>1. Outstanding(a)' = Outstanding(a) + ControlPosting(r, a)
      BY <1>5 DEF Settles
    <3>2. Outstanding(a) \in Int
      BY <1>b, OutstandingIs DEF OutstandingSums
    <3> HIDE DEF x
    <3>3. QED
      BY <1>10, <1>x, <3>1, <3>2
  <2>5. \A e \in DOMAIN ledger : Rest(e, a)' = IF e = Feed(s) THEN Rest(e, a) + d ELSE Rest(e, a)
    <3> HIDE DEF d, s
    <3>1. QED
      BY <2>2, <2>3
  <2> HIDE DEF d, s
  <2>6. QED
    BY <1>1, <1>6, <1>c, <2>1, <2>4, <2>5, ExplainedByRest
<1>14. QED
  BY <1>5, <1>7, <1>8, <1>13 DEF Core, Settles

(* A posted payment that went to income is reclassified by an entry of its own.  *)
LEMMA SettleIncomeKeeps ==
  ASSUME ~AnySpelling, Core, NEW r \in Requests, NEW o \in Ops, o \notin DOMAIN receipts,
         r.kind = "item_settlement", CanSettle(r), Commit(r, o),
         r.mode = "existing", ~IsControlPayment(r)
  PROVE  Core' /\ Grows /\ o \in DOMAIN receipts'
<1> DEFINE s == r.source
           E == Effect(r, o).entries
           n == <<"reclass", o>>
<1>b. Finite /\ Forms /\ OneSpelling /\ NewUsesAll
  BY DEF Core
<1>1. s \in Sources /\ Feed(s) \in DOMAIN ledger
  BY RequestForms DEF CanSettle, Nameable, Feed
<1>2. LiveEntry(s) = ledger[Feed(s)]
  BY <1>1, <1>b, LiveIs
<1>3. Offsetting(s) \subseteq {"Sales", "Services"}
  BY DEF CanSettle, IsCashIncome
<1>4. \A a \in Controls : ledger[Feed(s)][a] = 0
  BY <1>2, <1>3 DEF Offsetting, Controls, Accounts
<1>5. DOMAIN E = {n} /\ \A a \in Controls : E[n][a] = ControlPosting(r, a)
  <2>1. Effect(r, o) = SettleEffect(r, o)
    BY DEF Effect
  <2>2. E = [e \in {n} |-> Reclass(r)]
    BY <2>1 DEF SettleEffect
  <2>3. \A a \in Controls : Reclass(r)[a] = ControlPosting(r, a)
    <3> SUFFICES ASSUME NEW a \in Controls PROVE Reclass(r)[a] = ControlPosting(r, a)
      OBVIOUS
    <3>1. a \in Accounts /\ a \notin Offsetting(r.source)
      BY <1>3 DEF Controls, Accounts
    <3>2. QED
      BY <3>1 DEF Reclass
  <2>4. QED
    BY <2>2, <2>3
<1> HIDE DEF E
<1>6. Settles(r, o, E)
  <2>1. IsFiniteSet(DOMAIN E)
    BY <1>5, FS_Singleton
  <2>2. \A e \in DOMAIN E : (\A a \in Controls : E[e][a] \in Int) /\ e[1] # "feed"
    BY <1>5, <1>b, SettlePosting
  <2>3. QED
    BY <1>1, <2>1, <2>2, SettleShares DEF E
<1>7. n \notin DOMAIN ledger /\ DOMAIN ledger' = DOMAIN ledger \union {n}
      /\ \A a \in Controls : ledger'[n][a] = ControlPosting(r, a)
  BY <1>5, <1>6 DEF Settles, Adds
<1>c. Finite' /\ Forms' /\ Grows
  BY <1>6 DEF Settles
<1>8. OneSpelling'
  <2>1. \A v : Feed(v) # n
    BY DEF Feed
  <2>2. QED
    BY <1>7, <1>b, <2>1 DEF OneSpelling, Feed
<1>9. NewUsesAll'
  BY <1>6, SettlePostedNewUses
<1>10. ControlsExplained'
  <2> SUFFICES ASSUME NEW a \in Controls PROVE Balance(a)' = Outstanding(a)' + Unexplained(a)'
    BY DEF ControlsExplained, Controls
  <2>1. Rest(n, a)' = 0
    BY DEF Rest
  <2>2. ASSUME NEW e \in DOMAIN ledger PROVE Rest(e, a)' = Rest(e, a)
    <3>1. CASE e = Feed(s)
      <4>1. ledger[e][a] = 0 /\ ledger'[e][a] = 0
        BY <1>4, <1>c, <3>1 DEF Grows
      <4>2. QED
        BY <4>1 DEF Rest
    <3>2. CASE e # Feed(s) /\ e[1] = "feed"
      <4>1. EntryForm(e)
        BY <1>b DEF Forms
      <4>2. PICK v \in Sources : e = Feed(v)
        BY <3>2, <4>1 DEF EntryForm
      <4>3. e[2] = v /\ v # s
        BY <3>2, <4>2 DEF Feed
      <4>4. QED
        BY <1>6, <1>c, <4>3, RestKept DEF Settles
    <3>3. CASE e[1] # "feed"
      BY <3>3 DEF Rest
    <3>4. QED
      BY <3>1, <3>2, <3>3
  <2>3. Outstanding(a)' = Outstanding(a) + ledger'[n][a]
    BY <1>6, <1>7 DEF Settles
  <2> HIDE DEF n
  <2>4. QED
    BY <1>7, <1>c, <2>1, <2>2, <2>3, ExplainedByEntry
<1>11. QED
  BY <1>6, <1>8, <1>9, <1>10 DEF Core, Settles

(* A new payment is posted with the settlement, and all of it is used. *)
LEMMA SettleNewKeeps ==
  ASSUME Core, NEW r \in Requests, NEW o \in Ops, o \notin DOMAIN receipts,
         r.kind = "item_settlement", CanSettle(r), Commit(r, o),
         r.mode = "new"
  PROVE  Core' /\ Grows /\ o \in DOMAIN receipts'
<1> DEFINE s == r.source
           p == s[1]
           E == Effect(r, o).entries
           n == Feed(s)
           x == RowSum(r) + Excess(r)
<1>b. Finite /\ Forms /\ OneSpelling /\ NewUsesAll
  BY DEF Core
<1>1. s \in Sources /\ s \in Variants(s) /\ p \in Payments /\ s # <<>>
  BY RequestForms, SourcePair DEF Variants
<1>2. (\A v \in Variants(s) : Feed(v) \notin DOMAIN ledger) /\ Earlier(s) = {} /\ x = Gross(p)
  BY DEF CanSettle, SourceExists, Feed
<1>3. DOMAIN E = {n} /\ \A a \in Controls : E[n][a] = ControlPosting(r, a)
  <2>1. Effect(r, o) = SettleEffect(r, o)
    BY DEF Effect
  <2>2. E = [e \in {n} |-> [a \in Accounts |-> CASE a = "Bank" -> Cash[p]
                                                [] a = "Fees" -> Fee[p]
                                                [] OTHER -> ControlPosting(r, a)]]
    BY <2>1 DEF SettleEffect, Feed
  <2>3. QED
    BY <2>2 DEF Controls, Accounts
<1> HIDE DEF E
<1>4. Settles(r, o, E)
  <2>1. IsFiniteSet(DOMAIN E)
    BY <1>3, FS_Singleton
  <2>2. \A e \in DOMAIN E : (\A a \in Controls : E[e][a] \in Int) /\ (e[1] = "feed" => e = Feed(r.source))
    BY <1>3, <1>b, SettlePosting
  <2>3. Feed(r.source) \in DOMAIN ledger \union DOMAIN E
    BY <1>3
  <2>4. QED
    BY <2>1, <2>2, <2>3, SettleShares DEF E
<1>5. n \notin DOMAIN ledger /\ DOMAIN ledger' = DOMAIN ledger \union {n}
      /\ \A a \in Controls : ledger'[n][a] = ControlPosting(r, a)
  BY <1>3, <1>4 DEF Settles, Adds
<1>c. Finite' /\ Forms' /\ Grows
  BY <1>4 DEF Settles
<1>6. OneSpelling'
  <2> SUFFICES ASSUME NEW u \in Sources, NEW v \in Sources,
                      Feed(u) \in DOMAIN ledger', Feed(v) \in DOMAIN ledger', u[1] = v[1]
               PROVE  u = v
    BY DEF OneSpelling, Sources, Feed
  <2>1. CASE u = s \/ v = s
    BY <1>1, <1>2, <1>5, <2>1, FeedPair DEF Variants
  <2>2. CASE u # s /\ v # s
    BY <1>5, <1>b, <2>2, FeedPair DEF OneSpelling
  <2>3. QED
    BY <2>1, <2>2
<1>7. FullyUsed(s)'
  <2>1. Used(s) = 0
    <3>1. Used(s) = SumFunctionOnSet([y \in Earlier(s) |-> y.signed], Earlier(s))
      BY <1>b, UsedIs
    <3>2. QED
      BY <1>2, <3>1, SumEmpty
  <2>2. Excess(r) \in Int /\ RowSum(r) \in Int /\ Gross(p) \in Int
    BY <1>b, SettleExcess, SettleRows
  <2>3. Used(s)' = Gross(p)
    <3>1. Used(s)' = Used(s) + RowSum(r) + Excess(r)
      BY <1>4 DEF Settles
    <3>2. QED
      BY <1>2, <2>1, <2>2, <3>1
  <2>4. Cash[p] > 0 \/ Gross(p) <= 0
    <3> SUFFICES ASSUME ~(Cash[p] > 0) PROVE Gross(p) <= 0
      OBVIOUS
    <3>1. Excess(r) = 0
      BY <1>b, SettleExcess
    <3>2. RowSum(r) <= 0
      BY <1>b, SettleRows
    <3>3. QED
      BY <1>2, <2>2, <3>1, <3>2
  <2>5. Reserved(s, "Deposits")' <= ControlPosting(r, "Deposits")
    <3> DEFINE Q == FromRow(s, "Deposits")'
               h == [i \in Q |-> Sign(i) * items'[i].original]
               z == r.excess
    <3>1. Reserved(s, "Deposits")' = SumFunctionOnSet(h, Q)
      BY SumAll DEF Reserved
    <3>2. \A i \in DOMAIN items : items'[i].source # s
      <4> SUFFICES ASSUME NEW i \in DOMAIN items PROVE items'[i].source # s
        OBVIOUS
      <4>1. items'[i].source = items[i].source
        BY <1>c DEF Grows
      <4>2. ItemForm(i)
        BY <1>b DEF Forms
      <4>3. QED
        BY <1>1, <1>2, <4>1, <4>2 DEF ItemForm
    <3>3. \A i \in Q : i = z /\ z # NoItem /\ items'[i].original = Excess(r)
      BY <1>4, <3>2 DEF FromRow, Settles
    <3>4. ControlPosting(r, "Deposits") = -Excess(r) - Taken(r.rows, DOMAIN r.rows, "Deposits")
      BY <1>b, SettlePosting DEF Controls
    <3>5. Taken(r.rows, DOMAIN r.rows, "Deposits") \in Int /\ Taken(r.rows, DOMAIN r.rows, "Deposits") <= 0
      BY <1>b, <2>2, SettleRows DEF Controls
    <3>6. CASE Q = {}
      <4>1. Reserved(s, "Deposits")' = 0
        BY <3>1, <3>6, SumEmpty
      <4>2. CASE z = NoItem
        <5>1. Excess(r) = 0
          BY <1>b, <4>2, SettleExcess
        <5>2. QED
          BY <3>4, <3>5, <4>1, <5>1
      <4>3. CASE z # NoItem
        <5>1. z \in Q
          <6>1. items'[z].source = s /\ z \in DOMAIN items' /\ z \in Credits
            <7>1. z \in Credits
              BY <1>b, <4>3, SettleExcess
            <7>2. DOMAIN items' = DOMAIN items \union {z} /\ items'[z] = NewItem(Excess(r), r.mode, s, o)
              BY <1>b, <4>3, SettleLowers
            <7>3. QED
              BY <7>1, <7>2 DEF NewItem
          <6>2. QED
            BY <6>1 DEF FromRow, Control
        <5>2. QED
          BY <3>6, <5>1
      <4>4. QED
        BY <4>2, <4>3
    <3>7. CASE Q # {}
      <4>1. Q = {z} /\ z # NoItem
        BY <3>3, <3>7
      <4>2. z \in Credits /\ items'[z].original = Excess(r)
        BY <1>b, <3>3, <4>1, SettleExcess
      <4>3. h[z] = -Excess(r) /\ h[z] \in Int
        <5>1. h[z] = Sign(z) * items'[z].original
          BY <4>1
        <5>2. Sign(z) = -1
          BY <4>2 DEF Sign
        <5> HIDE DEF h, z
        <5>3. QED
          BY <2>2, <4>2, <5>1, <5>2
      <4>4. SumFunctionOnSet(h, {z}) = h[z]
        <5> HIDE DEF h, z, Q
        <5>1. QED
          BY <4>3, SumOne
      <4>5. Reserved(s, "Deposits")' = -Excess(r)
        BY <3>1, <4>1, <4>3, <4>4
      <4>6. QED
        BY <2>2, <3>4, <3>5, <4>5
    <3>8. QED
      BY <3>6, <3>7
  <2>6. n \in DOMAIN ledger' /\ ledger'[n]["Deposits"] = ControlPosting(r, "Deposits")
    BY <1>5 DEF Controls
  <2>7. QED
    BY <2>3, <2>4, <2>5, <2>6 DEF FullyUsed, Gross, Feed
<1>8. NewUsesAll'
  <2> SUFFICES ASSUME NEW v \in Sources, BookedBySettlement(v)' PROVE \E u \in Variants(v) : FullyUsed(u)'
    BY DEF NewUsesAll, Variants, Sources
  <2>1. CASE v = s
    BY <1>1, <1>7, <2>1
  <2>2. CASE v # s
    <3>1. BookedBySettlement(v)
      BY <1>4, <2>2 DEF Settles
    <3>2. \A u \in Sources : FullyUsed(u) => Used(u)' = Used(u)
      BY <1>1, <1>2, <1>4 DEF Settles, FullyUsed
    <3>3. PICK k : DOMAIN items' \subseteq DOMAIN items \union {k}
      BY <1>4 DEF Settles
    <3>4. \E u \in Variants(v) : FullyUsed(u)'
      BY <1>c, <3>1, <3>2, <3>3, FullKept
    <3>5. QED
      BY <3>4
  <2>3. QED
    BY <2>1, <2>2
<1>9. ControlsExplained'
  <2> SUFFICES ASSUME NEW a \in Controls PROVE Balance(a)' = Outstanding(a)' + Unexplained(a)'
    BY DEF ControlsExplained, Controls
  <2>1. Rest(n, a)' = 0
    <3>1. BookedBySettlement(s)'
      BY <1>4 DEF Settles
    <3>2. n[2] = s
      BY DEF Feed
    <3>3. QED
      BY <3>1, <3>2 DEF Rest, Feed
  <2>2. ASSUME NEW e \in DOMAIN ledger PROVE Rest(e, a)' = Rest(e, a)
    <3>1. CASE e[1] = "feed"
      <4>1. EntryForm(e)
        BY <1>b DEF Forms
      <4>2. PICK v \in Sources : e = Feed(v)
        BY <3>1, <4>1 DEF EntryForm
      <4>3. e[2] = v /\ v # s
        BY <1>5, <4>2 DEF Feed
      <4>4. QED
        BY <1>4, <1>c, <4>3, RestKept DEF Settles
    <3>2. CASE e[1] # "feed"
      BY <3>2 DEF Rest
    <3>3. QED
      BY <3>1, <3>2
  <2>3. Outstanding(a)' = Outstanding(a) + ledger'[n][a]
    BY <1>4, <1>5 DEF Settles
  <2> HIDE DEF n
  <2>4. QED
    BY <1>5, <1>c, <2>1, <2>2, <2>3, ExplainedByEntry
<1>10. QED
  BY <1>4, <1>6, <1>8, <1>9 DEF Core, Settles

(* Each request that is possible keeps the books in step. *)
LEMMA CommitKeeps ==
  ASSUME ~AnySpelling, Core, NEW r \in Requests, NEW o \in Ops, o \notin DOMAIN receipts,
         ~Replays(r), Possible(r), Commit(r, o)
  PROVE  Core' /\ Grows /\ o \in DOMAIN receipts'
<1>1. CASE r.kind = "item_create"
  <2>1. CanCreate(r) /\ r.mode \in {"new", "existing"}
    BY <1>1, RequestForms DEF Possible
  <2>2. QED
    BY <1>1, <2>1, CreateNewKeeps, CreateFromRowKeeps
<1>2. CASE r.kind = "item_settlement"
  <2>1. CanSettle(r) /\ r.mode \in {"new", "existing"}
    BY <1>2, RequestForms DEF Possible
  <2>2. CASE r.mode = "new"
    BY <1>2, <2>1, <2>2, SettleNewKeeps
  <2>3. CASE r.mode = "existing" /\ IsControlPayment(r)
    BY <1>2, <2>1, <2>3, SettleControlKeeps
  <2>4. CASE r.mode = "existing" /\ ~IsControlPayment(r)
    BY <1>2, <2>1, <2>4, SettleIncomeKeeps
  <2>5. QED
    BY <2>1, <2>2, <2>3, <2>4
<1>3. CASE r.kind = "item_adjustment"
  <2>1. CanAdjust(r)
    BY <1>3 DEF Possible
  <2>2. QED
    BY <1>3, <2>1, AdjustKeeps
<1>4. CASE r.kind = "item_offset"
  <2>1. CanOffset(r)
    BY <1>4 DEF Possible
  <2>2. QED
    BY <1>4, <2>1, OffsetKeeps
<1>5. QED
  BY <1>1, <1>2, <1>3, <1>4, RequestForms

--------------------------------------------------------------------------------
(* The same document again: the receipt of its first operation is repeated. *)
LEMMA AliasKeeps ==
  ASSUME Core, NEW r \in Requests, NEW o \in Ops, o \notin DOMAIN receipts, Replays(r), CommitAlias(r, o)
  PROVE  Core' /\ Grows /\ o \in DOMAIN receipts'
<1> DEFINE e0 == r.evidence
           q == receipts[claims[e0].op].request
<1>b. Finite /\ Forms /\ OneSpelling /\ NewUsesAll
  BY DEF Core
<1>1. /\ items' = items /\ allocs' = allocs /\ ledger' = ledger /\ claims' = claims
      /\ DOMAIN receipts' = DOMAIN receipts \union {o}
      /\ receipts'[o].request = r /\ receipts'[o].owner = claims[e0].op
      /\ \A x \in DOMAIN receipts : receipts'[x] = receipts[x]
  <2>1. /\ UNCHANGED <<items, allocs, ledger, claims>>
        /\ receipts' = [x \in DOMAIN receipts \union {o} |->
                          IF x = o THEN [request |-> r, owner |-> claims[e0].op] ELSE receipts[x]]
    BY DEF CommitAlias
  <2>2. QED
    BY <2>1
<1>2. e0 \in DOMAIN claims /\ claims[e0].treatment = Treatment(r) /\ ClaimForm(e0)
  BY <1>b DEF Replays, Claimed, Forms
<1>3. /\ claims[e0].op \in DOMAIN receipts /\ q \in Requests /\ Treatment(r) = Treatment(q)
      /\ q.kind = "item_settlement" /\ q.mode = "new" => Feed(q.source) \in DOMAIN ledger
  BY <1>2, <1>b DEF ClaimForm, Forms
<1>4. Grows
  BY <1>1 DEF Grows
<1>5. Finite'
  BY <1>1, <1>b DEF Finite
<1>6. Forms'
  <2>1. ASSUME NEW e \in DOMAIN claims' PROVE ClaimForm(e)'
    <3>1. ClaimForm(e) /\ claims' = claims
      BY <1>1, <1>b DEF Forms
    <3>2. claims[e].op \in DOMAIN receipts /\ receipts'[claims[e].op] = receipts[claims[e].op]
      BY <1>1, <3>1 DEF ClaimForm
    <3>3. QED
      BY <1>1, <3>1, <3>2 DEF ClaimForm, Treatment, Feed
  <2>2. DOMAIN claims' \subseteq Evidence /\ DOMAIN receipts' \subseteq Ops
    BY <1>1, <1>b DEF Forms
  <2>3. \A x \in DOMAIN receipts' : receipts'[x].request \in Requests /\ receipts'[x].owner \in Ops
    BY <1>1, <1>3, <1>b DEF Forms
  <2>4. \A i \in DOMAIN items : /\ items'[i].remaining \in Nat /\ items'[i].remaining <= items[i].base
                                /\ items'[i].status \in {"open", "settled"}
    BY <1>1, <1>b DEF Forms, ItemForm
  <2>5. QED
    BY <1>1, <1>4, <1>b, <2>1, <2>2, <2>3, <2>4, FormsStep
<1>7. \A s : Used(s)' = Used(s)
  BY <1>1, UsedStays
<1>8. \A s : BookedBySettlement(s)' <=>
               BookedBySettlement(s) \/ (r.kind = "item_settlement" /\ r.mode = "new" /\ r.source = s)
  BY <1>1, BookedKept
<1>9. r.kind = "item_settlement" /\ r.mode = "new" =>
        /\ Feed(q.source) \in DOMAIN ledger /\ q.source \in Sources /\ q.source[1] = r.source[1]
        /\ BookedBySettlement(q.source)
  <2> SUFFICES ASSUME r.kind = "item_settlement", r.mode = "new"
               PROVE  /\ Feed(q.source) \in DOMAIN ledger /\ q.source \in Sources /\ q.source[1] = r.source[1]
                      /\ BookedBySettlement(q.source)
    OBVIOUS
  <2>1. q.kind = "item_settlement" /\ q.mode = "new" /\ q.source[1] = r.source[1]
    BY <1>3, TreatmentNamesPayment
  <2>2. q.source \in Sources
    BY <1>3, <2>1, RequestForms
  <2>3. BookedBySettlement(q.source)
    BY <1>3, <2>1 DEF BookedBySettlement
  <2>4. QED
    BY <1>3, <2>1, <2>2, <2>3
<1>10. \A v \in Sources : Feed(v) \in DOMAIN ledger => (BookedBySettlement(v)' <=> BookedBySettlement(v))
  BY <1>8, <1>9, <1>b DEF OneSpelling
<1>11. \A s : \A a \in Controls : RegisteredSum(s, a)' = RegisteredSum(s, a)
  BY <1>1, <1>4, <1>b, RegisteredStays
<1>12. OneSpelling' /\ WithinPayment'
  BY <1>1, <1>7 DEF Core, OneSpelling, WithinPayment, Gross, Feed
<1>13. NewUsesAll'
  <2>1. \A v \in Sources : FullyUsed(v) => FullyUsed(v)'
    BY <1>1, <1>4, <1>5, <1>6, <1>7, FullKept
  <2>2. \A s \in Sources : BookedBySettlement(s) => \E v \in Variants(s) : FullyUsed(v)'
    BY <1>1, <1>4, <1>5, <1>6, <1>7, FullKept
  <2>3. ASSUME NEW s \in Sources, r.kind = "item_settlement", r.mode = "new", r.source = s
        PROVE  \E v \in Variants(s) : FullyUsed(v)'
    <3>1. PICK v \in Variants(q.source) : FullyUsed(v)'
      BY <1>9, <2>2, <2>3
    <3>2. v \in Variants(s)
      BY <1>9, <2>3, <3>1 DEF Variants
    <3>3. QED
      BY <3>1, <3>2
  <2>4. QED
    BY <1>8, <2>2, <2>3 DEF NewUsesAll, Variants, Sources
<1>14. ItemsReconcile'
  BY <1>1 DEF Core, ItemsReconcile, Reconciled, AllocatedTo, Reducing
<1>15. ControlsExplained'
  <2> SUFFICES ASSUME NEW a \in Controls PROVE Balance(a)' = Outstanding(a)' + Unexplained(a)'
    BY DEF ControlsExplained, Controls
  <2>1. ASSUME NEW e \in DOMAIN ledger PROVE Rest(e, a)' = Rest(e, a)
    <3>1. CASE e[1] # "feed"
      BY <3>1 DEF Rest
    <3>2. CASE e[1] = "feed"
      <4>1. EntryForm(e)
        BY <1>b DEF Forms
      <4>2. PICK v \in Sources : e = Feed(v)
        BY <3>2, <4>1 DEF EntryForm
      <4>3. e[2] = v
        BY <4>2 DEF Feed
      <4>4. QED
        BY <1>4, <1>7, <1>10, <1>11, <4>2, <4>3, RestKept
    <3>3. QED
      BY <3>1, <3>2
  <2>2. \A e \in DOMAIN ledger : Rest(e, a) \in Int
    BY <1>b, UnexplainedIs DEF UnexplainedSums
  <2> DEFINE d == 0
             x == <<>>
  <2>3. \A e \in DOMAIN ledger : Rest(e, a)' = IF e = x THEN Rest(e, a) + d ELSE Rest(e, a)
    BY <2>1, <2>2
  <2>4. Outstanding(a)' = Outstanding(a) - d
    <3>1. Outstanding(a)' = Outstanding(a)
      BY <1>1 DEF Outstanding
    <3>2. Outstanding(a) \in Int
      BY <1>b, OutstandingIs DEF OutstandingSums
    <3>3. QED
      BY <3>1, <3>2
  <2>5. DOMAIN ledger' = DOMAIN ledger /\ d \in Int /\ d = 0
    BY <1>1
  <2> HIDE DEF d, x
  <2>6. QED
    BY <1>4, <1>5, <1>6, <2>3, <2>4, <2>5, ExplainedByRest
<1>16. QED
  BY <1>1, <1>4, <1>5, <1>6, <1>12, <1>13, <1>14, <1>15 DEF Core

(* An ordinary confirm posts a row that no settlement, allocation or item knows:  *)
(* all of it is left to be explained.                                             *)
LEMMA ConfirmKeeps ==
  ASSUME Core, NEW s \in Sources, NEW t, ConfirmRow(s, t), ~SourceExists(s)
  PROVE  Core' /\ Grows /\ Feed(s) \in DOMAIN ledger' \ DOMAIN ledger
<1> DEFINE n == Feed(s)
           p == s[1]
<1>b. Finite /\ Forms /\ OneSpelling /\ NewUsesAll
  BY DEF Core
<1>1. p \in Payments /\ s # <<>> /\ s \in Variants(s) /\ Gross(p) \in Int
  BY SourcePair, GrossInt DEF Variants
<1>2. \A v \in Variants(s) : Feed(v) \notin DOMAIN ledger
  BY DEF SourceExists, Feed
<1>3. /\ items' = items /\ allocs' = allocs /\ claims' = claims /\ receipts' = receipts
      /\ n \notin DOMAIN ledger /\ DOMAIN ledger' = DOMAIN ledger \union {n}
      /\ ledger'[n] = FeedEntry(p, t) /\ \A e \in DOMAIN ledger : ledger'[e] = ledger[e]
  <2>1. /\ UNCHANGED <<items, allocs, claims, receipts>>
        /\ ledger' = [e \in DOMAIN ledger \union {n} |-> IF e = n THEN FeedEntry(p, t) ELSE ledger[e]]
    BY DEF ConfirmRow, Feed
  <2>2. n \notin DOMAIN ledger
    BY <1>1, <1>2
  <2> HIDE DEF n
  <2>3. QED
    BY <2>1, <2>2
<1>4. \A a \in Controls : ledger'[n][a] \in Int
  BY <1>1, <1>3 DEF FeedEntry, Controls, Accounts
<1>5. Grows
  BY <1>3 DEF Grows
<1>6. Finite'
  <2>1. IsFiniteSet(DOMAIN ledger \union {n})
    BY <1>b, FS_AddElement DEF Finite
  <2>2. QED
    BY <1>3, <1>b, <2>1 DEF Finite
<1>7. Forms'
  <2>1. EntryForm(n)'
    BY <1>4 DEF EntryForm, Feed
  <2>2. \A e \in DOMAIN ledger' \ DOMAIN ledger : EntryForm(e)'
    BY <1>3, <2>1
  <2>3. \A e \in DOMAIN claims' : ClaimForm(e)'
    BY <1>3, <1>b DEF Forms, ClaimForm, Treatment, Feed
  <2>4. DOMAIN claims' \subseteq Evidence /\ DOMAIN receipts' \subseteq Ops
        /\ \A x \in DOMAIN receipts' : receipts'[x].request \in Requests /\ receipts'[x].owner \in Ops
    BY <1>3, <1>b DEF Forms
  <2>5. \A i \in DOMAIN items : /\ items'[i].remaining \in Nat /\ items'[i].remaining <= items[i].base
                                /\ items'[i].status \in {"open", "settled"}
    BY <1>3, <1>b DEF Forms, ItemForm
  <2>6. QED
    BY <1>3, <1>5, <1>b, <2>2, <2>3, <2>4, <2>5, FormsStep
<1>8. \A v : Used(v)' = Used(v)
  BY <1>3, UsedStays
<1>9. \A v : BookedBySettlement(v)' <=> BookedBySettlement(v)
  BY <1>3 DEF BookedBySettlement
<1>10. \A v : \A a \in Controls : RegisteredSum(v, a)' = RegisteredSum(v, a)
  BY <1>3, <1>5, <1>b, RegisteredStays
<1>11. OneSpelling'
  <2> SUFFICES ASSUME NEW u \in Sources, NEW v \in Sources,
                      Feed(u) \in DOMAIN ledger', Feed(v) \in DOMAIN ledger', u[1] = v[1]
               PROVE  u = v
    BY DEF OneSpelling, Sources, Feed
  <2>1. CASE u = s \/ v = s
    BY <1>1, <1>2, <1>3, <2>1, FeedPair DEF Variants
  <2>2. CASE u # s /\ v # s
    BY <1>3, <1>b, <2>2, FeedPair DEF OneSpelling
  <2>3. QED
    BY <2>1, <2>2
<1>12. WithinPayment'
  BY <1>8 DEF Core, WithinPayment, Gross
<1>13. NewUsesAll'
  BY <1>3, <1>5, <1>6, <1>7, <1>8, <1>9, FullStays
<1>14. ItemsReconcile'
  BY <1>3 DEF Core, ItemsReconcile, Reconciled, AllocatedTo, Reducing
<1>15. ~BookedBySettlement(s)
  BY <1>2, <1>b DEF NewUsesAll, FullyUsed
<1>16. Used(s) = 0
  <2>1. Earlier(s) = {}
    BY <1>1, <1>2, <1>b DEF Earlier, Forms, AllocForm
  <2>2. Used(s) = SumFunctionOnSet([y \in Earlier(s) |-> y.signed], Earlier(s))
    BY <1>b, UsedIs
  <2>3. QED
    BY <2>1, <2>2, SumEmpty
<1>17. \A a \in Controls : RegisteredSum(s, a) = 0
  <2> TAKE a \in Controls
  <2> DEFINE R == Registered(s, a)
             f == [i \in R |-> Sign(i) * items[i].original]
  <2>1. R = {}
    <3>1. \A i \in DOMAIN items : items[i].source # s
      BY <1>1, <1>2, <1>b DEF Forms, ItemForm
    <3>2. QED
      BY <3>1 DEF Registered, FromRow
  <2>2. RegisteredSum(s, a) = SumFunctionOnSet(f, R)
    BY SumAll DEF RegisteredSum
  <2> HIDE DEF R
  <2>3. QED
    BY <2>1, <2>2, SumEmpty
<1>18. ControlsExplained'
  <2> SUFFICES ASSUME NEW a \in Controls PROVE Balance(a)' = Outstanding(a)' + Unexplained(a)'
    BY DEF ControlsExplained, Controls
  <2> DEFINE v == ledger'[n][a]
  <2>1. Rest(n, a)' = v
    <3>1. n[1] = "feed" /\ n[2] = s
      BY DEF Feed
    <3>2. Used(s)' = 0 /\ RegisteredSum(s, a)' = 0 /\ ~BookedBySettlement(s)'
      BY <1>8, <1>9, <1>10, <1>15, <1>16, <1>17
    <3>3. v \in Int
      BY <1>4
    <3>4. Rest(n, a)' = IF v # 0 THEN v + Used(s)' - RegisteredSum(s, a)' ELSE 0
      BY <3>1, <3>2 DEF Rest, Feed
    <3> HIDE DEF v
    <3>5. QED
      BY <3>2, <3>3, <3>4
  <2>2. \A e \in DOMAIN ledger : Rest(e, a)' = Rest(e, a)
    BY <1>5, <1>8, <1>9, <1>10, RestKept
  <2>3. Unexplained(a)' = Unexplained(a) + v
    <3> HIDE DEF n
    <3>1. QED
      BY <1>3, <1>6, <1>7, <1>b, <2>1, <2>2, UnexplainedGains
  <2>4. Balance(a)' = Balance(a) + v /\ Balance(a) \in Int
    <3> HIDE DEF n
    <3>1. QED
      BY <1>3, <1>5, <1>6, <1>7, <1>b, BalanceAdds
  <2>5. Outstanding(a)' = Outstanding(a)
    BY <1>3 DEF Outstanding
  <2>6. Outstanding(a) \in Int /\ Unexplained(a) \in Int /\ v \in Int
    BY <1>4, <1>b, OutstandingIs, UnexplainedIs DEF OutstandingSums, UnexplainedSums
  <2>7. Balance(a) = Outstanding(a) + Unexplained(a)
    BY DEF Core, ControlsExplained, Controls
  <2> HIDE DEF v
  <2>8. QED
    BY <2>3, <2>4, <2>5, <2>6, <2>7
<1>19. QED
  BY <1>3, <1>5, <1>6, <1>7, <1>11, <1>12, <1>13, <1>14, <1>18 DEF Core

(* Steps that leave the books alone leave what is said of them. *)
LEMMA CoreStays ==
  ASSUME Core, UNCHANGED books
  PROVE  Core'
<1>1. items' = items /\ allocs' = allocs /\ ledger' = ledger /\ claims' = claims /\ receipts' = receipts
  BY DEF books
<1>2. Finite'
  BY <1>1 DEF Core, Finite
<1>3. Forms'
  BY <1>1 DEF Core, Forms, ItemForm, AllocForm, EntryForm, ClaimForm, Treatment, Feed
<1>4. \A s : Used(s)' = Used(s) /\ (BookedBySettlement(s)' <=> BookedBySettlement(s))
  BY <1>1 DEF Used, Earlier, BookedBySettlement
<1>5. OneSpelling' /\ WithinPayment'
  BY <1>1, <1>4 DEF Core, OneSpelling, WithinPayment, Feed, Gross
<1>6. \A s : Reserved(s, "Deposits")' = Reserved(s, "Deposits")
  BY <1>1 DEF Reserved, FromRow
<1>7. NewUsesAll'
  <2>1. \A v : FullyUsed(v)' <=> FullyUsed(v)
    BY <1>1, <1>4, <1>6 DEF FullyUsed, Feed, Gross
  <2>2. QED
    BY <1>4, <2>1 DEF Core, NewUsesAll, Variants, Sources
<1>8. ItemsReconcile'
  BY <1>1 DEF Core, ItemsReconcile, Reconciled, AllocatedTo, Reducing
<1>9. \A a : Balance(a)' = Balance(a) /\ Outstanding(a)' = Outstanding(a)
  BY <1>1 DEF Balance, Outstanding
<1>10. \A a : Ordinary(a)' = Ordinary(a)
  BY <1>1, <1>4 DEF Ordinary
<1>11. \A s, a : RegisteredSum(s, a)' = RegisteredSum(s, a)
  BY <1>1 DEF RegisteredSum, Registered, FromRow
<1>12. \A a : Unexplained(a)' = Unexplained(a)
  <2> TAKE a
  <2>1. Unexplained(a) = SumFunction([e \in Ordinary(a) |-> ledger[e][a] + Used(e[2]) - RegisteredSum(e[2], a)])
    BY DEF Unexplained, RegisteredSum
  <2>2. Unexplained(a)' = SumFunction([e \in Ordinary(a)' |-> ledger'[e][a] + Used(e[2])' - RegisteredSum(e[2], a)'])
    BY DEF Unexplained, RegisteredSum
  <2>3. QED
    BY <1>1, <1>4, <1>10, <1>11, <2>1, <2>2
<1>13. ControlsExplained'
  BY <1>9, <1>12 DEF Core, ControlsExplained
<1>14. QED
  BY <1>2, <1>3, <1>5, <1>7, <1>8, <1>13 DEF Core

--------------------------------------------------------------------------------
(* A preview held over other callers' steps stays possible while the ledger it was *)
(* compiled from is still the ledger: its digest leaves nothing out.               *)
LEMMA PossibleKept ==
  ASSUME NEW r \in Requests, UNCHANGED books, pending' \subseteq pending
  PROVE  (Replays(r)' <=> Replays(r)) /\ (Possible(r) => Possible(r)')
<1>1. items' = items /\ allocs' = allocs /\ ledger' = ledger /\ claims' = claims /\ receipts' = receipts
  BY DEF books
<1>2. (Replays(r)' <=> Replays(r)) /\ (Conflicts(r)' <=> Conflicts(r))
  BY <1>1 DEF Conflicts, Replays, Joins, IsBatch, PostedBy, Claimed, Treatment
<1>3. \A i : (Open(i)' <=> Open(i)) /\ (Reconciled(i)' <=> Reconciled(i))
  BY <1>1 DEF Open, Reconciled, AllocatedTo, Reducing
<1>4. \A s : Used(s)' = Used(s) /\ Earlier(s)' = Earlier(s)
  BY <1>1 DEF Used, Earlier
<1>5. \A s, a : Reserved(s, a)' = Reserved(s, a)
  BY <1>1 DEF Reserved, FromRow
<1>6. \A s : LiveEntry(s)' = LiveEntry(s) /\ (SourceExists(s)' <=> SourceExists(s)) /\ (Nameable(s)' <=> Nameable(s))
  BY <1>1 DEF LiveEntry, SourceExists, Nameable, Variants, Sources
<1>7. CanCreate(r)' <=> CanCreate(r)
  BY <1>1, <1>5, <1>6 DEF CanCreate, Sign, Control
<1>8. CanAdjust(r)' <=> CanAdjust(r)
  BY <1>1, <1>3 DEF CanAdjust
<1>9. CanOffset(r)' <=> CanOffset(r)
  BY <1>1, <1>3 DEF CanOffset
<1>10. CanSettle(r) => CanSettle(r)'
  <2>1. RowSum(r)' = RowSum(r) /\ Excess(r)' = Excess(r)
    BY <1>4 DEF RowSum, Excess, Sign, Gross
  <2>2. Offsetting(r.source)' = Offsetting(r.source)
    BY <1>6 DEF Offsetting, Accounts
  <2>3. (IsControlPayment(r)' <=> IsControlPayment(r)) /\ (IsCashIncome(r)' <=> IsCashIncome(r))
    BY <2>2 DEF IsControlPayment, IsCashIncome, ControlsOf, Control
  <2>4. StagedAs(r.source) => StagedAs(r.source)'
    BY DEF StagedAs, Variants, Sources
  <2>5. QED
    BY <1>1, <1>3, <1>4, <1>6, <2>1, <2>3, <2>4 DEF CanSettle, Sign, Gross, Abs
<1>11. r.kind \in {"item_create", "item_settlement", "item_adjustment", "item_offset"}
  BY RequestForms
<1>12. ASSUME Possible(r) PROVE Possible(r)'
  <2>1. ~Conflicts(r)'
    BY <1>2, <1>12 DEF Possible
  <2>2. CASE r.kind = "item_create"
    BY <1>7, <1>12, <2>1, <2>2 DEF Possible
  <2>3. CASE r.kind = "item_settlement"
    BY <1>10, <1>12, <2>1, <2>3 DEF Possible
  <2>4. CASE r.kind = "item_adjustment"
    BY <1>8, <1>12, <2>1, <2>4 DEF Possible
  <2>5. CASE r.kind = "item_offset"
    BY <1>9, <1>12, <2>1, <2>5 DEF Possible
  <2>6. QED
    BY <1>11, <2>2, <2>3, <2>4, <2>5
<1>13. QED
  BY <1>2, <1>12

(* A held preview stands while the books are the same. *)
LEMMA HeldKept ==
  ASSUME HeldHolds, UNCHANGED books, pending' \subseteq pending, held' = held
  PROVE  HeldHolds'
<1> SUFFICES ASSUME held # NoPlan
             PROVE  /\ held.request \in Requests /\ held.op \in Ops
                    /\ held.digest = <<held.digest[1], held.digest[2]>>
                    /\ held.digest[1] \subseteq DOMAIN ledger' /\ held.digest[2] \subseteq DOMAIN receipts'
                    /\ Fresh(held)' => Replays(held.request)' \/ Possible(held.request)'
  BY DEF HeldHolds, Fresh, Digest
<1>1. ledger' = ledger /\ receipts' = receipts
  BY DEF books
<1>2. Fresh(held)' <=> Fresh(held)
  BY <1>1 DEF Fresh, Digest
<1>3. \A r \in Requests : (Replays(r)' <=> Replays(r)) /\ (Possible(r) => Possible(r)')
  BY PossibleKept
<1> DEFINE q == held.request
<1>q. q \in Requests
  BY DEF HeldHolds
<1>4. (Replays(q)' <=> Replays(q)) /\ (Possible(q) => Possible(q)')
  BY <1>3, <1>q
<1>5. QED
  BY <1>1, <1>2, <1>4 DEF HeldHolds

(* A held preview is stale once an entry or a receipt was added. *)
LEMMA HeldGoesStale ==
  ASSUME HeldHolds, held' = held,
         DOMAIN ledger \subseteq DOMAIN ledger', DOMAIN receipts \subseteq DOMAIN receipts',
         DOMAIN ledger' # DOMAIN ledger \/ DOMAIN receipts' # DOMAIN receipts
  PROVE  HeldHolds'
<1> SUFFICES ASSUME held # NoPlan
             PROVE  /\ held.request \in Requests /\ held.op \in Ops
                    /\ held.digest = <<held.digest[1], held.digest[2]>>
                    /\ held.digest[1] \subseteq DOMAIN ledger' /\ held.digest[2] \subseteq DOMAIN receipts'
                    /\ ~Fresh(held)'
  BY DEF HeldHolds
<1>1. /\ held.request \in Requests /\ held.op \in Ops
      /\ held.digest = <<held.digest[1], held.digest[2]>>
      /\ held.digest[1] \subseteq DOMAIN ledger /\ held.digest[2] \subseteq DOMAIN receipts
  BY DEF HeldHolds
<1>2. DOMAIN ledger \subseteq DOMAIN ledger' /\ DOMAIN receipts \subseteq DOMAIN receipts'
  OBVIOUS
<1>3. held.digest # <<DOMAIN ledger', DOMAIN receipts'>>
  <2> SUFFICES ASSUME held.digest = <<DOMAIN ledger', DOMAIN receipts'>> PROVE FALSE
    OBVIOUS
  <2>1. held.digest[1] = DOMAIN ledger' /\ held.digest[2] = DOMAIN receipts'
    OBVIOUS
  <2>2. QED
    BY <1>1, <1>2, <2>1
<1>4. Fresh(held)' <=> held.digest = <<DOMAIN ledger', DOMAIN receipts'>>
  BY DEF Fresh, Digest
<1>5. QED
  BY <1>1, <1>2, <1>3, <1>4

--------------------------------------------------------------------------------
(* The empty books satisfy the invariant. *)
LEMMA Initially == Init => IInv
<1> SUFFICES ASSUME Init PROVE IInv
  OBVIOUS
<1>1. /\ items = <<>> /\ allocs = {} /\ ledger = <<>> /\ claims = <<>> /\ receipts = <<>>
      /\ held = NoPlan
  BY DEF Init
<1>2. DOMAIN items = {} /\ DOMAIN ledger = {} /\ DOMAIN claims = {} /\ DOMAIN receipts = {}
  BY <1>1
<1> HIDE DEF Init
<1>3. Finite
  BY <1>1, <1>2, FS_EmptySet DEF Finite
<1>4. Forms /\ OneSpelling /\ NewUsesAll /\ ItemsReconcile
  BY <1>1, <1>2 DEF Forms, OneSpelling, NewUsesAll, BookedBySettlement, ItemsReconcile
<1>5. WithinPayment
  <2> SUFFICES ASSUME NEW s \in Sources
               PROVE  Abs(Used(s)) <= Abs(Gross(s[1])) /\ Used(s) * Gross(s[1]) >= 0
    BY DEF WithinPayment
  <2>1. Used(s) = SumFunctionOnSet([y \in Earlier(s) |-> y.signed], Earlier(s)) /\ Earlier(s) = {}
    BY <1>1, <1>3, <1>4, UsedIs DEF Earlier
  <2>2. Used(s) = 0
    BY <2>1, SumEmpty
  <2>3. Gross(s[1]) \in Int /\ Abs(Gross(s[1])) >= 0
    BY SourcePair, GrossInt, Products
  <2>4. Abs(0) = 0
    BY DEF Abs
  <2>5. QED
    BY <2>2, <2>3, <2>4
<1>6. ControlsExplained
  <2> SUFFICES ASSUME NEW a \in Controls PROVE Balance(a) = Outstanding(a) + Unexplained(a)
    BY DEF ControlsExplained, Controls
  <2>1. Balance(a) = 0
    <3> DEFINE f == [e \in DOMAIN ledger |-> ledger[e][a]]
    <3>1. Balance(a) = SumFunctionOnSet(f, DOMAIN ledger)
      BY SumAll DEF Balance
    <3> HIDE DEF f
    <3>2. QED
      BY <1>2, <3>1, SumEmpty
  <2>2. Outstanding(a) = 0
    <3> DEFINE f == [i \in DOMAIN items |-> Part(items, i, a)]
    <3>1. Outstanding(a) = SumFunctionOnSet(f, DOMAIN items)
      BY <1>3, <1>4, OutstandingIs DEF OutstandingSums
    <3> HIDE DEF f
    <3>2. QED
      BY <1>2, <3>1, SumEmpty
  <2>3. Unexplained(a) = 0
    <3> DEFINE f == [e \in DOMAIN ledger |-> Rest(e, a)]
    <3>1. Unexplained(a) = SumFunctionOnSet(f, DOMAIN ledger)
      BY <1>3, <1>4, UnexplainedIs DEF UnexplainedSums
    <3> HIDE DEF f
    <3>2. QED
      BY <1>2, <3>1, SumEmpty
  <2>4. QED
    BY <2>1, <2>2, <2>3
<1>7. pending \subseteq Sources
  BY DEF Init
<1>8. HeldHolds
  BY <1>1 DEF HeldHolds
<1>9. QED
  BY <1>3, <1>4, <1>5, <1>6, <1>7, <1>8 DEF IInv, Core

(* Every step of every caller keeps the invariant. *)
LEMMA Invariance ==
  ASSUME ~AnySpelling, IInv, [Next]_vars
  PROVE  IInv'
<1>0. Core /\ HeldHolds /\ pending \subseteq Sources
  BY DEF IInv
<1>u. ASSUME UNCHANGED books, pending' \subseteq pending, held' = held PROVE IInv'
  BY <1>0, <1>u, CoreStays, HeldKept DEF IInv, Sources
<1>1. ASSUME NEW o \in Ops, NEW r \in Requests, Preview(r, o) PROVE IInv'
  <2>1. UNCHANGED books /\ pending' = pending /\ held' = [op |-> o, request |-> r, digest |-> Digest]
        /\ (Replays(r) \/ Possible(r))
    BY <1>1 DEF Preview
  <2>2. Core'
    BY <1>0, <2>1, CoreStays
  <2>3. Replays(r)' \/ Possible(r)'
    BY <2>1, PossibleKept
  <2>4. held'.request = r /\ held'.op = o /\ held'.digest = <<DOMAIN ledger, DOMAIN receipts>>
    BY <2>1 DEF Digest
  <2>5. ledger' = ledger /\ receipts' = receipts
    BY <2>1 DEF books
  <2>6. Replays(held.request)' \/ Possible(held.request)'
    BY <2>1, <2>3 DEF Replays, IsBatch, Claimed, Treatment
  <2>7. HeldHolds'
    BY <2>4, <2>5, <2>6 DEF HeldHolds
  <2>8. QED
    BY <1>0, <2>1, <2>2, <2>7 DEF IInv, Sources
<1>2. ASSUME NEW o \in Ops, NEW r \in Requests, ApplyNow(r, o) PROVE IInv'
  <2>1. o \notin DOMAIN receipts /\ held' = held /\ pending' = pending
    BY <1>2 DEF ApplyNow
  <2>2. Core' /\ Grows /\ o \in DOMAIN receipts'
    <3>1. CASE Replays(r) /\ CommitAlias(r, o)
      BY <1>0, <2>1, <3>1, AliasKeeps
    <3>2. CASE ~Replays(r) /\ Possible(r) /\ Commit(r, o)
      BY <1>0, <2>1, <3>2, CommitKeeps
    <3>3. QED
      BY <1>2, <3>1, <3>2 DEF ApplyNow
  <2>3. HeldHolds'
    BY <1>0, <2>1, <2>2, HeldGoesStale DEF Grows
  <2>4. QED
    BY <1>0, <2>1, <2>2, <2>3 DEF IInv, Sources
<1>3. ASSUME NEW o \in Ops, Retry(o) PROVE IInv'
  BY <1>3, <1>u DEF Retry
<1>4. ASSUME Apply PROVE IInv'
  <2> DEFINE r == held.request
             o == held.op
  <2>1. held # NoPlan /\ o \notin DOMAIN receipts /\ Fresh(held) /\ held' = NoPlan /\ pending' = pending
        /\ (IF Replays(r) THEN CommitAlias(r, o) ELSE Commit(r, o))
    BY <1>4 DEF Apply
  <2>2. r \in Requests /\ o \in Ops /\ (Replays(r) \/ Possible(r))
    BY <1>0, <2>1 DEF HeldHolds
  <2> HIDE DEF r, o
  <2>3. Core'
    BY <1>0, <2>1, <2>2, AliasKeeps, CommitKeeps
  <2>4. HeldHolds'
    BY <2>1 DEF HeldHolds
  <2>5. QED
    BY <1>0, <2>1, <2>3, <2>4 DEF IInv, Sources
<1>5. ASSUME Refuse PROVE IInv'
  <2>1. UNCHANGED books /\ pending' = pending /\ held' = NoPlan
    BY <1>5 DEF Refuse
  <2>2. HeldHolds'
    BY <2>1 DEF HeldHolds
  <2>3. QED
    BY <1>0, <2>1, <2>2, CoreStays DEF IInv, Sources
<1>6. ASSUME CleanQueue PROVE IInv'
  BY <1>6, <1>u DEF CleanQueue
<1>7. ASSUME CleanPending PROVE IInv'
  BY <1>7, <1>u DEF CleanPending
<1>8. ASSUME Crash PROVE IInv'
  BY <1>8, <1>u DEF Crash
<1>9. ASSUME NEW p \in Payments, ResolveGroup(p) PROVE IInv'
  BY <1>9, <1>u DEF ResolveGroup
<1>10. ASSUME NEW s \in Sources, NEW t \in FeedTreatments, ConfirmRow(s, t) PROVE IInv'
  <2>1. pending' \subseteq pending /\ held' = held
    BY <1>10 DEF ConfirmRow
  <2>2. CASE SourceExists(s)
    BY <1>10, <1>u, <2>1, <2>2 DEF ConfirmRow, books
  <2>3. CASE ~SourceExists(s)
    <3>1. Core' /\ Grows /\ Feed(s) \in DOMAIN ledger' \ DOMAIN ledger
      BY <1>0, <1>10, <2>3, ConfirmKeeps
    <3>2. HeldHolds'
      BY <1>0, <2>1, <3>1, HeldGoesStale DEF Grows
    <3>3. QED
      BY <1>0, <2>1, <3>1, <3>2 DEF IInv, Sources
  <2>4. QED
    BY <2>2, <2>3
<1>11. CASE UNCHANGED vars
  BY <1>11, <1>u DEF vars, books
<1>12. QED
  BY <1>1, <1>2, <1>3, <1>4, <1>5, <1>6, <1>7, <1>8, <1>9, <1>10, <1>11 DEF Next

(* What a payment has allocated is what the one spelling it is posted under used. *)
LEMMA AllocatedIsUsed ==
  ASSUME Core, NEW p \in Payments
  PROVE  Abs(AllocatedFrom(p)) <= Abs(Gross(p)) /\ AllocatedFrom(p) * Gross(p) >= 0
<1> DEFINE A == {a \in allocs : a.kind \in {"settlement", "unapplied_receipt"} /\ a.source[1] = p}
<1>1. AllocatedFrom(p) = SumFunctionOnSet([a \in A |-> a.signed], A)
  BY SumAll DEF AllocatedFrom
<1>2. CASE A = {}
  <2>1. AllocatedFrom(p) = 0
    <3> HIDE DEF A
    <3>1. QED
      BY <1>1, <1>2, SumEmpty
  <2>2. Gross(p) \in Int /\ Abs(Gross(p)) >= 0 /\ Abs(0) = 0
    BY GrossInt, Products DEF Abs
  <2>3. QED
    BY <2>1, <2>2
<1>3. CASE A # {}
  <2>1. PICK b \in A : TRUE
    BY <1>3
  <2>2. b.source \in Sources /\ Feed(b.source) \in DOMAIN ledger /\ b.source[1] = p
    BY <2>1 DEF Core, Forms, AllocForm
  <2>3. A = Earlier(b.source)
    <3>1. \A a \in A : a.source = b.source
      BY <2>2 DEF Core, Forms, AllocForm, OneSpelling
    <3>2. QED
      BY <2>2, <3>1 DEF Earlier
  <2>4. AllocatedFrom(p) = Used(b.source)
    BY <1>1, <2>3, UsedIs DEF Core
  <2>5. QED
    BY <2>2, <2>4 DEF Core, WithinPayment
<1>4. QED
  BY <1>2, <1>3

(* What the invariant says of the books. *)
LEMMA Consequences == IInv => ItemsMatchBooks /\ CashPostedOnce
<1> SUFFICES ASSUME IInv PROVE ItemsMatchBooks /\ CashPostedOnce
  OBVIOUS
<1>0. Core /\ HeldHolds /\ pending \subseteq Sources
  BY DEF IInv
<1>1. TypeOK
  <2>1. \A i \in DOMAIN items : i \in Items /\ items[i].remaining \in 0..items[i].base
                                /\ items[i].status \in {"open", "settled"}
    BY <1>0 DEF Core, Forms, ItemForm
  <2>2. QED
    BY <1>0, <2>1 DEF Core, Forms, HeldHolds, TypeOK
<1>2. PaymentNotOverAllocated
  BY <1>0, AllocatedIsUsed DEF PaymentNotOverAllocated
<1>3. CashPostedOnce
  <2> SUFFICES ASSUME NEW p \in Payments
               PROVE  Cardinality({e \in DOMAIN ledger : e[1] = "feed" /\ e[2][1] = p}) <= 1
    BY DEF CashPostedOnce
  <2> DEFINE S == {e \in DOMAIN ledger : e[1] = "feed" /\ e[2][1] = p}
  <2>1. \A e, x \in S : e = x
    <3> SUFFICES ASSUME NEW e \in S, NEW x \in S PROVE e = x
      OBVIOUS
    <3>1. EntryForm(e) /\ EntryForm(x)
      BY <1>0 DEF Core, Forms
    <3>2. PICK s \in Sources : e = Feed(s)
      BY <3>1 DEF EntryForm
    <3>3. PICK v \in Sources : x = Feed(v)
      BY <3>1 DEF EntryForm
    <3>4. s[1] = p /\ v[1] = p
      BY <3>2, <3>3 DEF Feed
    <3>5. QED
      BY <1>0, <3>2, <3>3, <3>4 DEF Core, OneSpelling
  <2> SUFFICES Cardinality(S) <= 1
    OBVIOUS
  <2> HIDE DEF S
  <2>2. CASE S = {}
    <3>1. Cardinality(S) = Cardinality({})
      BY <2>2, Zenon
    <3>2. QED
      BY <3>1, FS_EmptySet
  <2>3. CASE S # {}
    <3>1. PICK e \in S : TRUE
      BY <2>3
    <3>2. S = {e}
      BY <2>1, <3>1
    <3>3. Cardinality({e}) = 1
      BY FS_Singleton
    <3>4. Cardinality(S) = Cardinality({e})
      BY <3>2, Zenon
    <3>5. QED
      BY <3>3, <3>4
  <2>4. QED
    BY <2>2, <2>3
<1>4. QED
  BY <1>0, <1>1, <1>2, <1>3 DEF ItemsMatchBooks, Core

(* Whatever the bank movements, amounts, operations and callers, every item is     *)
(* what its invoice and its allocations leave, the control accounts are explained  *)
(* by the items and by ordinary postings, and no payment is allocated beyond its   *)
(* cash: for callers that keep one spelling of a row.                              *)
THEOREM ItemsAlwaysMatchBooks ==
  ASSUME ~AnySpelling
  PROVE  Spec => []ItemsMatchBooks
<1>1. IInv /\ [Next]_vars => IInv'
  BY Invariance
<1>2. QED
  BY Initially, <1>1, Consequences, PTL DEF Spec

(* The cash of a bank movement is recorded once, by a confirm or by a settlement, *)
(* under one of its spellings.                                                    *)
THEOREM CashAlwaysPostedOnce ==
  ASSUME ~AnySpelling
  PROVE  Spec => []CashPostedOnce
<1>1. IInv /\ [Next]_vars => IInv'
  BY Invariance
<1>2. QED
  BY Initially, <1>1, Consequences, PTL DEF Spec

--------------------------------------------------------------------------------
(* A request that cites a document has the treatment the document is bound to,    *)
(* and the receipt of the operation that bound it; or it is a batch of the         *)
(* movement that treatment pays.                                                   *)
Supported(o) ==
  LET r == receipts[o].request  e == r.evidence IN
    e # NoEvidence =>
      /\ e \in DOMAIN claims
      /\ IF IsBatch(r) THEN ForPayment(claims[e].treatment, r.source[1])
         ELSE claims[e].treatment = Treatment(r) /\ receipts[o].owner = claims[e].op

(* Documents are bound to the treatment of an operation that is kept. *)
Bound(e) ==
  /\ claims[e].op \in DOMAIN receipts
  /\ claims[e].treatment = Treatment(receipts[claims[e].op].request)

Owned ==
  /\ \A e \in DOMAIN claims : Bound(e)
  /\ \A o \in DOMAIN receipts : receipts[o].request \in Requests /\ Supported(o)

(* One more receipt, and perhaps the claim of its document, leave the others as    *)
(* they are.                                                                       *)
LEMMA OwnedGrows ==
  ASSUME Owned, NEW r \in Requests, NEW o, o \notin DOMAIN receipts,
         DOMAIN receipts' = DOMAIN receipts \union {o}, receipts'[o].request = r,
         \A x \in DOMAIN receipts : receipts'[x] = receipts[x],
         DOMAIN claims \subseteq DOMAIN claims', \A e \in DOMAIN claims : claims'[e] = claims[e],
         \A e \in DOMAIN claims' \ DOMAIN claims :
           claims'[e].op = o /\ claims'[e].treatment = Treatment(r),
         Supported(o)'
  PROVE  Owned'
<1>1. ASSUME NEW e \in DOMAIN claims' PROVE Bound(e)'
  <2>1. CASE e \in DOMAIN claims
    <3>1. Bound(e) /\ claims'[e] = claims[e]
      BY <2>1 DEF Owned
    <3>2. QED
      BY <3>1 DEF Bound, Treatment
  <2>2. CASE e \notin DOMAIN claims
    BY <1>1, <2>2 DEF Bound, Treatment
  <2>3. QED
    BY <2>1, <2>2
<1>2. ASSUME NEW x \in DOMAIN receipts' PROVE receipts'[x].request \in Requests /\ Supported(x)'
  <2>1. CASE x = o
    BY <2>1
  <2>2. CASE x # o
    <3>1. x \in DOMAIN receipts /\ receipts'[x] = receipts[x] /\ receipts[x].request \in Requests /\ Supported(x)
      BY <1>2, <2>2 DEF Owned
    <3>2. QED
      BY <3>1 DEF Supported, ForPayment, IsBatch, Treatment
  <2>3. QED
    BY <2>1, <2>2
<1>3. QED
  BY <1>1, <1>2 DEF Owned, Requests, Creations, Settlements, Adjustments, Offsets, Rows, Sources, Items

(* A commit and a replay both name the owner of the document, and a batch joins    *)
(* only its own payment.                                                           *)
LEMMA CommitOwns ==
  ASSUME Owned, NEW r \in Requests, NEW o, o \notin DOMAIN receipts,
         \/ Replays(r) /\ CommitAlias(r, o)
         \/ ~Replays(r) /\ Possible(r) /\ Commit(r, o)
  PROVE  /\ Owned' /\ DOMAIN ledger \subseteq DOMAIN ledger' /\ DOMAIN receipts \subseteq DOMAIN receipts'
         /\ o \in DOMAIN receipts'
<1> DEFINE d == r.evidence
<1>1. CASE Replays(r) /\ CommitAlias(r, o)
  <2>1. /\ claims' = claims /\ ledger' = ledger
        /\ d \in DOMAIN claims /\ ~IsBatch(r) /\ claims[d].treatment = Treatment(r)
        /\ receipts' = [x \in DOMAIN receipts \union {o} |->
                          IF x = o THEN [request |-> r, owner |-> claims[d].op] ELSE receipts[x]]
    BY <1>1 DEF CommitAlias, Replays, Claimed
  <2>2. /\ DOMAIN receipts' = DOMAIN receipts \union {o}
        /\ receipts'[o].request = r /\ receipts'[o].owner = claims[d].op
        /\ \A x \in DOMAIN receipts : receipts'[x] = receipts[x]
    BY <2>1
  <2>3. Supported(o)'
    BY <2>1, <2>2 DEF Supported, IsBatch, Treatment
  <2>4. QED
    BY <2>1, <2>2, <2>3, OwnedGrows
<1>2. CASE ~Replays(r) /\ Possible(r) /\ Commit(r, o)
  <2> DEFINE E == Effect(r, o).entries
  <2>1. Adds(r, o, E)
    BY <1>2, CommitAdds
  <2> HIDE DEF E
  <2>2. /\ DOMAIN ledger \subseteq DOMAIN ledger' /\ claims' = NewClaims(r, o)
        /\ DOMAIN receipts' = DOMAIN receipts \union {o}
        /\ receipts'[o].request = r /\ receipts'[o].owner = o
        /\ \A x \in DOMAIN receipts : receipts'[x] = receipts[x]
    BY <2>1 DEF Adds
  <2>3. Claimed(r) => Joins(r)
    BY <1>2 DEF Possible, Conflicts
  <2>4. CASE d = NoEvidence
    <3>1. claims' = claims
      BY <2>2, <2>4 DEF NewClaims
    <3>2. Supported(o)'
      BY <2>2, <2>4 DEF Supported
    <3>3. QED
      BY <2>2, <3>1, <3>2, OwnedGrows
  <2>5. CASE d # NoEvidence /\ Claimed(r)
    <3>1. claims' = claims
      BY <2>2, <2>5 DEF NewClaims
    <3>2. d \in DOMAIN claims /\ Bound(d)
      BY <2>5 DEF Claimed, Owned
    <3>3. IsBatch(r) /\ ForPayment(claims[d].treatment, r.source[1])
      <4> DEFINE q == receipts[claims[d].op].request
      <4>1. IsBatch(r) /\ (claims[d].treatment = Treatment(r) \/ r.source \in PostedBy(q))
        BY <2>3, <2>5 DEF Joins
      <4>2. q \in Requests /\ claims[d].treatment = Treatment(q)
        BY <3>2 DEF Bound, Owned
      <4> HIDE DEF q
      <4>3. CASE claims[d].treatment = Treatment(r)
        BY <4>1, <4>3, TreatmentPays DEF IsBatch
      <4>4. CASE r.source \in PostedBy(q)
        <5>1. q.kind = "item_settlement" /\ q.source = r.source
          BY <4>4 DEF PostedBy
        <5>2. ForPayment(Treatment(q), q.source[1])
          BY <4>2, <5>1, TreatmentPays
        <5>3. QED
          BY <4>1, <4>2, <5>1, <5>2
      <4>5. QED
        BY <4>1, <4>3, <4>4
    <3>4. Supported(o)'
      BY <2>2, <3>1, <3>2, <3>3 DEF Supported, IsBatch, ForPayment
    <3>5. QED
      BY <2>2, <3>1, <3>4, OwnedGrows
  <2>6. CASE d # NoEvidence /\ ~Claimed(r)
    <3>1. /\ DOMAIN claims' = DOMAIN claims \union {d}
          /\ claims'[d].op = o /\ claims'[d].treatment = Treatment(r)
          /\ \A e \in DOMAIN claims : claims'[e] = claims[e]
      BY <2>2, <2>6 DEF NewClaims, Claimed
    <3>2. IsBatch(r) => ForPayment(Treatment(r), r.source[1])
      BY TreatmentPays DEF IsBatch
    <3>3. Supported(o)'
      BY <2>2, <3>1, <3>2 DEF Supported, IsBatch, ForPayment, Treatment
    <3>4. QED
      BY <2>2, <3>1, <3>3, OwnedGrows
  <2>7. QED
    BY <2>2, <2>4, <2>5, <2>6
<1>3. QED
  BY <1>1, <1>2

(* Every step keeps documents with their owners. *)
LEMMA OwnedKept ==
  ASSUME Owned /\ HeldHolds, [Next]_vars
  PROVE  Owned' /\ HeldHolds'
<1>o. ASSUME claims' = claims, receipts' = receipts PROVE Owned'
  BY <1>o DEF Owned, Bound, Supported, IsBatch, ForPayment, Treatment, Requests, Creations, Settlements,
              Adjustments, Offsets, Rows, Sources, Items
<1>u. ASSUME UNCHANGED books, pending' \subseteq pending, held' = held PROVE Owned' /\ HeldHolds'
  BY <1>o, <1>u, HeldKept DEF books
<1>1. ASSUME NEW o \in Ops, NEW r \in Requests, Preview(r, o) PROVE Owned' /\ HeldHolds'
  <2>1. UNCHANGED books /\ pending' = pending /\ held' = [op |-> o, request |-> r, digest |-> Digest]
        /\ (Replays(r) \/ Possible(r))
    BY <1>1 DEF Preview
  <2>2. Owned'
    BY <1>o, <2>1 DEF books
  <2>3. Replays(r)' \/ Possible(r)'
    BY <2>1, PossibleKept
  <2>4. held'.request = r /\ held'.op = o /\ held'.digest = <<DOMAIN ledger, DOMAIN receipts>>
    BY <2>1 DEF Digest
  <2>5. ledger' = ledger /\ receipts' = receipts
    BY <2>1 DEF books
  <2>6. Replays(held.request)' \/ Possible(held.request)'
    BY <2>1, <2>3 DEF Replays, IsBatch, Claimed, Treatment
  <2>7. HeldHolds'
    BY <2>4, <2>5, <2>6 DEF HeldHolds
  <2>8. QED
    BY <2>2, <2>7
<1>2. ASSUME NEW o \in Ops, NEW r \in Requests, ApplyNow(r, o) PROVE Owned' /\ HeldHolds'
  <2>1. /\ held' = held /\ o \notin DOMAIN receipts
        /\ \/ Replays(r) /\ CommitAlias(r, o)
           \/ ~Replays(r) /\ Possible(r) /\ Commit(r, o)
    BY <1>2 DEF ApplyNow
  <2>2. /\ Owned' /\ DOMAIN ledger \subseteq DOMAIN ledger' /\ DOMAIN receipts \subseteq DOMAIN receipts'
        /\ o \in DOMAIN receipts'
    BY <2>1, CommitOwns
  <2>3. QED
    BY <2>1, <2>2, HeldGoesStale
<1>4. ASSUME Apply PROVE Owned' /\ HeldHolds'
  <2> DEFINE r == held.request
             o == held.op
  <2>1. held # NoPlan /\ o \notin DOMAIN receipts /\ Fresh(held) /\ held' = NoPlan
        /\ (IF Replays(r) THEN CommitAlias(r, o) ELSE Commit(r, o))
    BY <1>4 DEF Apply
  <2>2. r \in Requests /\ (Replays(r) \/ Possible(r))
    BY <2>1 DEF HeldHolds
  <2> HIDE DEF r, o
  <2>3. Owned'
    BY <2>1, <2>2, CommitOwns
  <2>4. QED
    BY <2>1, <2>3 DEF HeldHolds
<1>5. ASSUME Refuse PROVE Owned' /\ HeldHolds'
  BY <1>5, <1>o DEF Refuse, books, HeldHolds
<1>10. ASSUME NEW s \in Sources, NEW t \in FeedTreatments, ConfirmRow(s, t) PROVE Owned' /\ HeldHolds'
  <2>1. pending' \subseteq pending /\ held' = held /\ claims' = claims /\ receipts' = receipts
        /\ items' = items /\ allocs' = allocs
    BY <1>10 DEF ConfirmRow
  <2>2. Owned'
    BY <1>o, <2>1
  <2>3. CASE ledger' = ledger
    BY <1>u, <2>1, <2>3 DEF books
  <2>4. CASE ledger' # ledger
    <3>1. ~SourceExists(s) /\ DOMAIN ledger' = DOMAIN ledger \union {Feed(s)}
      BY <1>10, <2>4 DEF ConfirmRow, Feed
    <3>2. Feed(s) \notin DOMAIN ledger
      BY <3>1 DEF SourceExists, Variants, Feed
    <3>3. QED
      BY <2>1, <2>2, <3>1, <3>2, HeldGoesStale
  <2>5. QED
    BY <2>3, <2>4
<1>11. ASSUME \/ \E o \in Ops : Retry(o)
              \/ CleanQueue \/ CleanPending \/ Crash
              \/ \E p \in Payments : ResolveGroup(p)
       PROVE  Owned' /\ HeldHolds'
  BY <1>11, <1>u DEF Retry, CleanQueue, CleanPending, Crash, ResolveGroup
<1>12. CASE UNCHANGED vars
  BY <1>12, <1>u DEF vars, books
<1>13. QED
  BY <1>1, <1>2, <1>4, <1>5, <1>10, <1>11, <1>12 DEF Next

(* Whatever is bound to what, two receipts for one document agree. *)
LEMMA OwnedPaysOnce ==
  ASSUME Owned
  PROVE  EvidencePaysOnce
<1> SUFFICES ASSUME NEW o \in DOMAIN receipts, NEW x \in DOMAIN receipts,
                    receipts[o].request.evidence # NoEvidence,
                    receipts[o].request.evidence = receipts[x].request.evidence
             PROVE  \/ receipts[o].owner = receipts[x].owner
                    \/ SharePayment(receipts[o].request, receipts[x].request)
  BY DEF EvidencePaysOnce
<1> DEFINE r == receipts[o].request
           q == receipts[x].request
           t == claims[r.evidence].treatment
<1>1. r \in Requests /\ q \in Requests /\ Supported(o) /\ Supported(x)
  BY DEF Owned
<1>2. /\ IsBatch(r) => ForPayment(t, r.source[1]) /\ r.kind = "item_settlement"
      /\ IsBatch(q) => ForPayment(t, q.source[1]) /\ q.kind = "item_settlement"
      /\ ~IsBatch(r) => t = Treatment(r) /\ receipts[o].owner = claims[r.evidence].op
      /\ ~IsBatch(q) => t = Treatment(q) /\ receipts[x].owner = claims[r.evidence].op
  BY <1>1 DEF Supported, IsBatch
<1> HIDE DEF r, q, t
<1>3. \A p, n : ForPayment(t, p) /\ ForPayment(t, n) => p = n
  BY DEF ForPayment
<1>4. CASE IsBatch(r) /\ IsBatch(q)
  BY <1>2, <1>3, <1>4 DEF SharePayment, r, q
<1>5. CASE IsBatch(r) /\ ~IsBatch(q)
  <2>1. q.kind = "item_settlement" /\ q.source[1] = r.source[1]
    BY <1>1, <1>2, <1>5, TreatmentPays
  <2>2. QED
    BY <1>2, <1>5, <2>1 DEF SharePayment, r, q
<1>6. CASE ~IsBatch(r) /\ IsBatch(q)
  <2>1. r.kind = "item_settlement" /\ r.source[1] = q.source[1]
    BY <1>1, <1>2, <1>6, TreatmentPays
  <2>2. QED
    BY <1>2, <1>6, <2>1 DEF SharePayment, r, q
<1>7. CASE ~IsBatch(r) /\ ~IsBatch(q)
  BY <1>2, <1>7
<1>8. QED
  BY <1>4, <1>5, <1>6, <1>7

(* A supporting document has one financial effect, however previews and applies of *)
(* its callers interleave: two operations that cite it carry the receipt of the    *)
(* same operation, or both settle one bank movement, one of them as a batch of the *)
(* posted payment. A document of one payment never supports another.               *)
THEOREM EvidenceAlwaysPaysOnce == Spec => []EvidencePaysOnce
<1>1. Init => Owned /\ HeldHolds
  <2>1. Init => Owned
    BY DEF Init, Owned
  <2>2. Init => HeldHolds
    BY DEF Init, HeldHolds
  <2>3. QED
    BY <2>1, <2>2
<1>2. Owned /\ HeldHolds /\ [Next]_vars => Owned' /\ HeldHolds'
  BY OwnedKept
<1>3. Owned => EvidencePaysOnce
  BY OwnedPaysOnce
<1>4. QED
  BY <1>1, <1>2, <1>3, PTL DEF Spec

===============================================================================
