--------------------------------- MODULE Sums ---------------------------------
(***************************************************************************)
(* Sums of a function over a finite set, as the community modules define   *)
(* them (SumFunctionOnSet, SumFunction): a fold that takes the members in  *)
(* an order nobody knows. IsFold says what such a fold is. FoldUnique and  *)
(* FoldExists are inductions over the subsets of a finite set, of which    *)
(* some smallest one would have to be a counterexample (Smallest). What    *)
(* proofs use is below them, from SumAt on: a sum does not depend on the   *)
(* order, and grows by what a new member adds.                             *)
(***************************************************************************)
EXTENDS Integers, FiniteSets, FiniteSetTheorems, Functions, TLAPS

First(s) == CHOOSE x \in s : TRUE
IsFold(g, f, S) ==
  g = [s \in SUBSET S |-> IF s = {} THEN 0 ELSE f[First(s)] + g[s \ {First(s)}]]

(* The sum is the value at S of the function the fold defines. *)
LEMMA SumChoice ==
  ASSUME NEW S, NEW f
  PROVE  SumFunctionOnSet(f, S) = (CHOOSE g : IsFold(g, f, S))[S]
  BY DEF SumFunctionOnSet, FoldFunctionOnSet, MapThenFoldSet, IsFold, First

(* The member the fold takes first is a member. *)
LEMMA FirstIn == ASSUME NEW s, s # {} PROVE First(s) \in s
  BY DEF First

(* Among the subsets of a finite set, some has no other of them inside it. *)
LEMMA Smallest ==
  ASSUME NEW S, IsFiniteSet(S), NEW B \in SUBSET (SUBSET S), B # {}
  PROVE  \E s \in B : \A t \in B : t \subseteq s => t = s
<1>1. B \subseteq FiniteSubsetsOf(S)
  BY FS_FiniteSubsetsOfFinite
<1>2. PICK s \in B : \A t \in B : <<t, s>> \notin StrictSubsetOrdering(S)
  BY <1>1, FS_StrictSubsetOrderingWellFounded, WFMin
<1>3. QED
  BY <1>2 DEF StrictSubsetOrdering

(* One step of a fold. *)
LEMMA FoldAt ==
  ASSUME NEW S, NEW f, NEW g, IsFold(g, f, S), NEW s \in SUBSET S
  PROVE  g[s] = IF s = {} THEN 0 ELSE f[First(s)] + g[s \ {First(s)}]
BY DEF IsFold

(* Two folds over functions that agree on a finite set agree there: the induction. *)
LEMMA FoldUnique ==
  ASSUME NEW S, NEW T, NEW f, NEW h, NEW g1, NEW g2, IsFold(g1, f, S), IsFold(g2, h, T),
         NEW u, u \subseteq S, u \subseteq T, IsFiniteSet(u), \A x \in u : f[x] = h[x]
  PROVE  g1[u] = g2[u]
<1> DEFINE B == {s \in SUBSET u : g1[s] # g2[s]}
<1> SUFFICES ASSUME B # {} PROVE FALSE
  BY u \in SUBSET u
<1>0. B \in SUBSET (SUBSET u)
  OBVIOUS
<1>1. PICK s \in B : \A t \in B : t \subseteq s => t = s
  <2> HIDE DEF B
  <2>1. QED
    BY <1>0, Smallest
<1> s \in SUBSET S /\ s \in SUBSET T /\ g1[s] # g2[s]
  BY <1>1
<1>a. g1[s] = IF s = {} THEN 0 ELSE f[First(s)] + g1[s \ {First(s)}]
  BY FoldAt
<1>b. g2[s] = IF s = {} THEN 0 ELSE h[First(s)] + g2[s \ {First(s)}]
  BY FoldAt
<1>2. s # {}
  BY <1>a, <1>b
<1>3. First(s) \in s
  BY <1>2, FirstIn
<1>4. g1[s \ {First(s)}] = g2[s \ {First(s)}]
  BY <1>1, <1>3
<1>5. f[First(s)] = h[First(s)]
  BY <1>1, <1>3
<1>7. QED
  BY <1>a, <1>b, <1>2, <1>4, <1>5

(* A fold over a finite set exists: built up from its subsets. *)
LEMMA FoldExists ==
  ASSUME NEW S, IsFiniteSet(S), NEW f
  PROVE  \E g : IsFold(g, f, S)
<1> DEFINE B == {s \in SUBSET S : ~ \E g : IsFold(g, f, s)}
<1> SUFFICES ASSUME B # {} PROVE FALSE
  BY S \in SUBSET S
<1>0. B \in SUBSET (SUBSET S)
  OBVIOUS
<1>1. PICK s \in B : \A t \in B : t \subseteq s => t = s
  <2> HIDE DEF B
  <2>1. QED
    BY <1>0, Smallest
<1> DEFINE G(t) == CHOOSE g : IsFold(g, f, t)
<1>2. \A t \in SUBSET s : t # s => IsFold(G(t), f, t)
  BY <1>1
<1> DEFINE g == [t \in SUBSET s |-> IF t = {} THEN 0
                                    ELSE f[First(t)] + G(t \ {First(t)})[t \ {First(t)}]]
<1>3. \A t \in SUBSET s : t # s => g[t] = G(t)[t]
  <2> SUFFICES ASSUME NEW t \in SUBSET s, t # s PROVE g[t] = G(t)[t]
    OBVIOUS
  <2>1. IsFold(G(t), f, t)
    BY <1>2
  <2>2. CASE t = {}
    BY <2>1, <2>2, FoldAt
  <2>3. CASE t # {}
    <3>1. First(t) \in t
      BY <2>3, FirstIn
    <3>2. IsFold(G(t \ {First(t)}), f, t \ {First(t)})
      BY <1>2, <3>1
    <3>3. IsFiniteSet(t \ {First(t)})
      BY FS_Subset, <1>1
    <3>4. G(t)[t \ {First(t)}] = G(t \ {First(t)})[t \ {First(t)}]
      <4> HIDE DEF G
      <4>1. QED
        BY <2>1, <3>2, <3>3, FoldUnique
    <3>5. G(t)[t] = f[First(t)] + G(t)[t \ {First(t)}]
      <4> HIDE DEF G
      <4>1. QED
        BY <2>1, <2>3, FoldAt
    <3>6. QED
      BY <2>3, <3>4, <3>5
  <2>4. QED
    BY <2>2, <2>3
<1>4. \A t \in SUBSET s : t # {} => t \ {First(t)} # s
  BY FirstIn
<1>5. IsFold(g, f, s)
  <2> HIDE DEF G
  <2>1. QED
  BY <1>3, <1>4 DEF IsFold
<1>6. QED
  BY <1>1, <1>5

(* On one more member the fold over what is left is extended by it. *)
LEMMA FoldSteps ==
  ASSUME NEW S, IsFiniteSet(S), NEW f, \A x \in S : f[x] \in Int, NEW g, IsFold(g, f, S)
  PROVE  \A s \in SUBSET S : g[s] \in Int /\ \A x \in s : g[s] = f[x] + g[s \ {x}]
<1>1. \A s \in SUBSET S : g[s] \in Int
  <2> DEFINE B == {s \in SUBSET S : g[s] \notin Int}
  <2> SUFFICES ASSUME B # {} PROVE FALSE
    OBVIOUS
  <2>0. B \in SUBSET (SUBSET S)
    OBVIOUS
  <2>1. PICK s \in B : \A t \in B : t \subseteq s => t = s
    <3> HIDE DEF B
    <3>1. QED
      BY <2>0, Smallest
  <2>a. s \in SUBSET S /\ g[s] \notin Int
    BY <2>1
  <2> HIDE DEF B
  <2>2. g[s] = IF s = {} THEN 0 ELSE f[First(s)] + g[s \ {First(s)}]
    BY <2>a DEF IsFold
  <2>3. s # {} /\ First(s) \in s
    BY <2>2, <2>a, FirstIn
  <2>4. g[s \ {First(s)}] \in Int
    BY <2>1, <2>3 DEF B
  <2>5. f[First(s)] \in Int
    BY <2>3, <2>a
  <2>6. QED
    BY <2>2, <2>3, <2>4, <2>5, <2>a
<1>2. \A s \in SUBSET S : \A x \in s : g[s] = f[x] + g[s \ {x}]
  <2> DEFINE B == {s \in SUBSET S : \E x \in s : g[s] # f[x] + g[s \ {x}]}
  <2> SUFFICES ASSUME B # {} PROVE FALSE
    OBVIOUS
  <2>0. B \in SUBSET (SUBSET S)
    OBVIOUS
  <2>1. PICK s \in B : \A t \in B : t \subseteq s => t = s
    <3> HIDE DEF B
    <3>1. QED
      BY <2>0, Smallest
  <2>2. PICK x \in s : g[s] # f[x] + g[s \ {x}]
    OBVIOUS
  <2> DEFINE c == First(s)
  <2>3. c \in s
    BY <2>2, FirstIn
  <2>4. g[s] = f[c] + g[s \ {c}]
    BY <2>2, FoldAt
  <2>5. x # c
    BY <2>2, <2>4
  <2> HIDE DEF c
  <2>6. \A t \in SUBSET s : t # s => \A y \in t : g[t] = f[y] + g[t \ {y}]
    BY <2>1
  <2>7. g[s \ {c}] = f[x] + g[(s \ {c}) \ {x}]
    BY <2>3, <2>5, <2>6
  <2>8. g[s \ {x}] = f[c] + g[(s \ {x}) \ {c}]
    BY <2>3, <2>5, <2>6
  <2>9. g[(s \ {x}) \ {c}] = g[(s \ {c}) \ {x}]
    <3>1. (s \ {x}) \ {c} = (s \ {c}) \ {x}
      OBVIOUS
    <3>2. QED
      BY <3>1
  <2>10. g[(s \ {x}) \ {c}] \in Int
    BY <1>1
  <2>11. f[x] \in Int /\ f[c] \in Int
    BY <2>3
  <2> HIDE DEF B
  <2>12. g[s] = f[x] + g[s \ {x}]
    BY <2>4, <2>7, <2>8, <2>9, <2>10, <2>11
  <2>13. QED
    BY <2>2, <2>12
<1>3. QED
  BY <1>1, <1>2

(* The sum over a finite set is the value there of every fold. *)
LEMMA SumIsFold ==
  ASSUME NEW S, IsFiniteSet(S), NEW f, NEW g, IsFold(g, f, S), NEW T \in SUBSET S
  PROVE  g[T] = SumFunctionOnSet(f, T)
<1>1. IsFiniteSet(T)
  BY FS_Subset
<1>2. \E h : IsFold(h, f, T)
  BY <1>1, FoldExists
<1> DEFINE h == CHOOSE h : IsFold(h, f, T)
<1>3. IsFold(h, f, T)
  BY <1>2
<1>4. g[T] = h[T]
  <2> HIDE DEF h
  <2>1. QED
    BY <1>1, <1>3, FoldUnique
<1>5. QED
  BY <1>4, SumChoice

(* Integers sum to an integer, one chosen member first. *)
LEMMA SumAt ==
  ASSUME NEW S, IsFiniteSet(S), NEW f, \A x \in S : f[x] \in Int
  PROVE  /\ SumFunctionOnSet(f, S) \in Int
         /\ \A x \in S : SumFunctionOnSet(f, S) = f[x] + SumFunctionOnSet(f, S \ {x})
<1>1. PICK g : IsFold(g, f, S)
  BY FoldExists
<1>2. \A T \in SUBSET S : g[T] = SumFunctionOnSet(f, T)
  BY <1>1, SumIsFold
<1>3. g[S] \in Int /\ \A x \in S : g[S] = f[x] + g[S \ {x}]
  BY <1>1, FoldSteps
<1>4. QED
  BY <1>2, <1>3

(* Nothing sums to zero. *)
LEMMA SumEmpty == \A f : SumFunctionOnSet(f, {}) = 0
<1> TAKE f
<1>1. PICK g : IsFold(g, f, {})
  BY FoldExists, FS_EmptySet
<1>2. g[{}] = 0
  BY <1>1, FoldAt
<1>3. QED
  BY <1>1, <1>2, SumIsFold, FS_EmptySet

(* Functions that agree on a finite set have the same sum over it. *)
LEMMA SumSame ==
  ASSUME NEW S, IsFiniteSet(S), NEW f, NEW h, \A x \in S : f[x] = h[x]
  PROVE  SumFunctionOnSet(f, S) = SumFunctionOnSet(h, S)
<1>1. PICK g1 : IsFold(g1, f, S)
  BY FoldExists
<1>2. PICK g2 : IsFold(g2, h, S)
  BY FoldExists
<1>3. g1[S] = g2[S]
  BY <1>1, <1>2, FoldUnique
<1>4. QED
  BY <1>1, <1>2, <1>3, SumIsFold

(* One more member adds its value, whichever member the fold takes first. *)
LEMMA SumAdd ==
  ASSUME NEW S, IsFiniteSet(S), NEW x, x \notin S, NEW f, \A y \in S \cup {x} : f[y] \in Int
  PROVE  SumFunctionOnSet(f, S \cup {x}) = SumFunctionOnSet(f, S) + f[x]
<1>1. IsFiniteSet(S \cup {x})
  BY FS_AddElement
<1>2. (S \cup {x}) \ {x} = S
  OBVIOUS
<1>3. SumFunctionOnSet(f, S \cup {x}) = f[x] + SumFunctionOnSet(f, (S \cup {x}) \ {x})
  BY <1>1, SumAt
<1>4. SumFunctionOnSet(f, S) \in Int
  BY SumAt
<1>5. SumFunctionOnSet(f, S \cup {x}) = f[x] + SumFunctionOnSet(f, S)
  BY <1>2, <1>3
<1>6. f[x] \in Int
  OBVIOUS
<1>7. QED
  BY ONLY <1>4, <1>5, <1>6

(* The sum over disjoint sets is the sum of their sums. *)
LEMMA SumUnion ==
  ASSUME NEW S, NEW T, IsFiniteSet(S), IsFiniteSet(T), S \cap T = {},
         NEW f, \A x \in S \cup T : f[x] \in Int
  PROVE  SumFunctionOnSet(f, S \cup T) = SumFunctionOnSet(f, S) + SumFunctionOnSet(f, T)
<1> DEFINE B == {s \in SUBSET T : SumFunctionOnSet(f, S \cup s) # SumFunctionOnSet(f, S) + SumFunctionOnSet(f, s)}
<1> SUFFICES ASSUME B # {} PROVE FALSE
  BY T \in SUBSET T
<1>0. B \in SUBSET (SUBSET T)
  OBVIOUS
<1>1. PICK s \in B : \A t \in B : t \subseteq s => t = s
  <2> HIDE DEF B
  <2>1. QED
    BY <1>0, Smallest
<1>2. IsFiniteSet(s)
  BY FS_Subset
<1>a. SumFunctionOnSet(f, S) \in Int
  BY SumAt
<1>3. s # {}
  <2> SUFFICES ASSUME s = {} PROVE FALSE
    OBVIOUS
  <2>1. SumFunctionOnSet(f, s) = 0 /\ S \cup s = S
    BY SumEmpty
  <2>2. QED
    BY <1>1, <1>a, <2>1
<1>4. PICK x \in s : TRUE
  BY <1>3
<1> DEFINE r == s \ {x}
<1>5. r \in SUBSET T /\ r # s /\ r \notin B
  BY <1>1, <1>4
<1>6. IsFiniteSet(r) /\ IsFiniteSet(S \cup r)
  BY <1>2, <1>5, FS_Subset, FS_Union
<1>7. x \notin r /\ x \notin S \cup r /\ s = r \cup {x} /\ S \cup s = (S \cup r) \cup {x}
  BY <1>4
<1> HIDE DEF r
<1>8. SumFunctionOnSet(f, s) = SumFunctionOnSet(f, r) + f[x]
  BY <1>6, <1>7, SumAdd
<1>9. SumFunctionOnSet(f, S \cup s) = SumFunctionOnSet(f, S \cup r) + f[x]
  <2>1. \A y \in (S \cup r) \cup {x} : f[y] \in Int
    BY <1>5, <1>7
  <2>2. QED
    BY <1>6, <1>7, <2>1, SumAdd
<1>10. SumFunctionOnSet(f, S \cup r) = SumFunctionOnSet(f, S) + SumFunctionOnSet(f, r)
  BY <1>5
<1>11. SumFunctionOnSet(f, r) \in Int /\ f[x] \in Int
  BY <1>5, <1>6, <1>7, SumAt
<1>12. QED
  BY <1>1, <1>8, <1>9, <1>10, <1>11, <1>a

(* Zeros sum to zero. *)
LEMMA SumZero ==
  ASSUME NEW S, IsFiniteSet(S), NEW f, \A x \in S : f[x] = 0
  PROVE  SumFunctionOnSet(f, S) = 0
<1> DEFINE B == {s \in SUBSET S : SumFunctionOnSet(f, s) # 0}
<1> SUFFICES ASSUME B # {} PROVE FALSE
  BY S \in SUBSET S
<1>0. B \in SUBSET (SUBSET S)
  OBVIOUS
<1>1. PICK s \in B : \A t \in B : t \subseteq s => t = s
  <2> HIDE DEF B
  <2>1. QED
    BY <1>0, Smallest
<1>2. PICK x \in s : TRUE
  BY <1>1, SumEmpty
<1>3. SumFunctionOnSet(f, s \ {x}) = 0
  BY <1>1
<1>a. IsFiniteSet(s) /\ \A y \in s : f[y] \in Int
  BY <1>1, FS_Subset
<1>4. SumFunctionOnSet(f, s) = f[x] + SumFunctionOnSet(f, s \ {x})
  BY <1>a, SumAt
<1>5. QED
  BY <1>1, <1>3, <1>4

(* The sum of the sums of two functions is the sum of what they add up to. *)
LEMMA SumPlus ==
  ASSUME NEW S, IsFiniteSet(S), NEW f, NEW g, NEW h,
         \A x \in S : f[x] \in Int /\ g[x] \in Int /\ h[x] = f[x] + g[x]
  PROVE  SumFunctionOnSet(h, S) = SumFunctionOnSet(f, S) + SumFunctionOnSet(g, S)
<1> DEFINE F(s) == SumFunctionOnSet(f, s)
           G(s) == SumFunctionOnSet(g, s)
           H(s) == SumFunctionOnSet(h, s)
           B == {s \in SUBSET S : H(s) # F(s) + G(s)}
<1> SUFFICES ASSUME B # {} PROVE FALSE
  BY S \in SUBSET S
<1>0. B \in SUBSET (SUBSET S)
  OBVIOUS
<1>1. PICK s \in B : \A t \in B : t \subseteq s => t = s
  <2> HIDE DEF B
  <2>1. QED
    BY <1>0, Smallest
<1>c. F({}) = 0 /\ G({}) = 0 /\ H({}) = 0
  BY SumEmpty
<1>d. s # {}
  <2> SUFFICES ASSUME s = {} PROVE FALSE
    OBVIOUS
  <2>1. H(s) # F(s) + G(s)
    BY <1>1
  <2> HIDE DEF B, F, G, H
  <2>2. QED
    BY <2>1, <1>c
<1>2. PICK x \in s : TRUE
  BY <1>d
<1>3. H(s \ {x}) = F(s \ {x}) + G(s \ {x})
  BY <1>1
<1>a. IsFiniteSet(s) /\ IsFiniteSet(s \ {x}) /\ s \subseteq S
  BY <1>1, FS_Subset
<1>b. h[x] = f[x] + g[x] /\ f[x] \in Int /\ g[x] \in Int
  BY <1>a
<1>4. H(s) = h[x] + H(s \ {x})
  BY <1>a, SumAt
<1>5. F(s) = f[x] + F(s \ {x}) /\ F(s \ {x}) \in Int
  BY <1>a, SumAt
<1>6. G(s) = g[x] + G(s \ {x}) /\ G(s \ {x}) \in Int
  BY <1>a, SumAt
<1>7. H(s) # F(s) + G(s)
  BY <1>1
<1> HIDE DEF B, F, G, H
<1>8. QED
  BY <1>3, <1>b, <1>4, <1>5, <1>6, <1>7

(* Members that count zero may be left out. *)
LEMMA SumOver ==
  ASSUME NEW S, IsFiniteSet(S), NEW f, \A x \in S : f[x] \in Int,
         NEW T, T \subseteq S, \A x \in S \ T : f[x] = 0
  PROVE  SumFunctionOnSet(f, S) = SumFunctionOnSet(f, T)
<1>1. IsFiniteSet(T) /\ IsFiniteSet(S \ T)
  BY FS_Subset
<1>2. S = T \cup (S \ T) /\ T \cap (S \ T) = {}
  OBVIOUS
<1>3. SumFunctionOnSet(f, T \cup (S \ T)) = SumFunctionOnSet(f, T) + SumFunctionOnSet(f, S \ T)
  BY <1>1, <1>2, SumUnion
<1>4. SumFunctionOnSet(f, S \ T) = 0
  BY <1>1, SumZero
<1>5. SumFunctionOnSet(f, T) \in Int
  BY <1>1, SumAt
<1>6. SumFunctionOnSet(f, T \cup (S \ T)) = SumFunctionOnSet(f, S)
  BY <1>2
<1>7. QED
  BY <1>3, <1>4, <1>5, <1>6

(* Nonnegative integers sum to no less than any of them. *)
LEMMA SumSigned ==
  ASSUME NEW S, IsFiniteSet(S), NEW f, \A x \in S : f[x] \in Int /\ f[x] >= 0
  PROVE  /\ SumFunctionOnSet(f, S) \in Int
         /\ SumFunctionOnSet(f, S) >= 0
         /\ \A x \in S : SumFunctionOnSet(f, S) >= f[x]
<1> DEFINE F(s) == SumFunctionOnSet(f, s)
           B == {s \in SUBSET S : ~ (F(s) >= 0)}
<1>1. \A s \in SUBSET S : IsFiniteSet(s) /\ F(s) \in Int
  BY FS_Subset, SumAt
<1>2. B = {}
  <2> SUFFICES ASSUME B # {} PROVE FALSE
    OBVIOUS
  <2>0. B \in SUBSET (SUBSET S)
    OBVIOUS
  <2>1. PICK s \in B : \A t \in B : t \subseteq s => t = s
    <3> HIDE DEF B
    <3>1. QED
      BY <2>0, Smallest
  <2>a. F({}) = 0
    BY SumEmpty
  <2>b. ~ (F(s) >= 0)
    BY <2>1
  <2>c. s # {}
    <3> HIDE DEF B, F
    <3>1. QED
      BY <2>a, <2>b
  <2>2. PICK x \in s : TRUE
    BY <2>c
  <2>3. s \in SUBSET S /\ s \ {x} \in SUBSET S /\ F(s \ {x}) >= 0
    BY <2>1
  <2>4. F(s) = f[x] + F(s \ {x})
    BY <1>1, <2>3, SumAt
  <2>5. f[x] \in Int /\ f[x] >= 0 /\ F(s \ {x}) \in Int /\ ~ (F(s) >= 0)
    BY <1>1, <2>1, <2>3
  <2> HIDE DEF B, F
  <2>6. QED
    BY <2>3, <2>4, <2>5
<1>3. \A s \in SUBSET S : F(s) >= 0
  BY <1>2
<1>4. ASSUME NEW x \in S PROVE F(S) >= f[x]
  <2>1. F(S) = f[x] + F(S \ {x})
    BY SumAt
  <2>2. F(S \ {x}) \in Int /\ F(S \ {x}) >= 0 /\ f[x] \in Int
    BY <1>1, <1>3
  <2> HIDE DEF F
  <2>3. QED
    BY <2>1, <2>2
<1>5. QED
  BY <1>1, <1>3, <1>4

(* Negated values sum to the negated sum. *)
LEMMA SumNegated ==
  ASSUME NEW S, IsFiniteSet(S), NEW f, NEW h, \A x \in S : f[x] \in Int /\ h[x] = -f[x]
  PROVE  SumFunctionOnSet(h, S) = -SumFunctionOnSet(f, S)
<1> DEFINE z == [x \in S |-> 0]
<1>1. \A x \in S : f[x] \in Int /\ h[x] \in Int /\ z[x] = f[x] + h[x]
  OBVIOUS
<1>2. SumFunctionOnSet(z, S) = SumFunctionOnSet(f, S) + SumFunctionOnSet(h, S)
  <2> HIDE DEF z
  <2>1. QED
    BY <1>1, SumPlus
<1>3. SumFunctionOnSet(z, S) = 0
  BY SumZero
<1>4. SumFunctionOnSet(f, S) \in Int /\ SumFunctionOnSet(h, S) \in Int
  BY <1>1, SumAt
<1>5. QED
  BY <1>2, <1>3, <1>4

(* The image of a finite set is finite. *)
LEMMA FiniteImage ==
  ASSUME NEW S, IsFiniteSet(S), NEW m
  PROVE  IsFiniteSet({m[x] : x \in S})
<1> DEFINE T == {m[x] : x \in S}
           v == [x \in S |-> m[x]]
<1>1. v \in Surjection(S, T)
  BY DEF Surjection
<1> HIDE DEF v, T
<1>2. IsFiniteSet(T)
  BY <1>1, FS_Surjection
<1>3. QED
  BY <1>2 DEF T

(* A sum over distinct images is the sum over what they are images of. *)
LEMMA SumImage ==
  ASSUME NEW S, IsFiniteSet(S), NEW m, \A x, y \in S : m[x] = m[y] => x = y,
         NEW f, NEW h, \A x \in S : h[x] \in Int /\ h[x] = f[m[x]]
  PROVE  SumFunctionOnSet(f, {m[x] : x \in S}) = SumFunctionOnSet(h, S)
<1> DEFINE M(s) == {m[x] : x \in s}
           F(s) == SumFunctionOnSet(f, s)
           H(s) == SumFunctionOnSet(h, s)
           B == {s \in SUBSET S : F(M(s)) # H(s)}
<1> SUFFICES ASSUME B # {} PROVE FALSE
  BY S \in SUBSET S
<1>0. B \in SUBSET (SUBSET S)
  OBVIOUS
<1>1. PICK s \in B : \A t \in B : t \subseteq s => t = s
  <2> HIDE DEF B
  <2>1. QED
    BY <1>0, Smallest
<1>2. s \subseteq S /\ IsFiniteSet(s) /\ F(M(s)) # H(s)
  BY <1>1, FS_Subset
<1>3. M({}) = {} /\ F({}) = 0 /\ H({}) = 0
  BY SumEmpty
<1>4. s # {}
  <2> SUFFICES ASSUME s = {} PROVE FALSE
    OBVIOUS
  <2> HIDE DEF M, F, H, B
  <2>1. QED
    BY <1>2, <1>3
<1>5. PICK x \in s : TRUE
  BY <1>4
<1>6. F(M(s \ {x})) = H(s \ {x})
  BY <1>1, <1>5
<1>7. M(s) = M(s \ {x}) \cup {m[x]} /\ m[x] \notin M(s \ {x})
  BY <1>2, <1>5
<1>8. IsFiniteSet(M(s \ {x}))
  <2>1. IsFiniteSet(s \ {x})
    BY <1>2, FS_Subset
  <2>2. QED
    BY <2>1, FiniteImage
<1>9. \A y \in M(s \ {x}) \cup {m[x]} : f[y] \in Int
  BY <1>2, <1>5
<1>10. F(M(s \ {x}) \cup {m[x]}) = F(M(s \ {x})) + f[m[x]]
  <2> DEFINE N == M(s \ {x})
             z == m[x]
  <2>1. \A y \in N \cup {z} : f[y] \in Int
    BY <1>9
  <2>2. z \notin N /\ IsFiniteSet(N)
    BY <1>7, <1>8
  <2> HIDE DEF N, z
  <2>3. SumFunctionOnSet(f, N \cup {z}) = SumFunctionOnSet(f, N) + f[z]
    BY ONLY <2>1, <2>2, SumAdd
  <2>4. QED
    BY <2>3 DEF N, z
<1>11. \A y \in s : h[y] \in Int
  BY <1>2
<1>12. H(s) = h[x] + H(s \ {x})
  BY <1>2, <1>5, <1>11, SumAt
<1>13. H(s \ {x}) \in Int
  BY <1>2, <1>11, FS_Subset, SumAt
<1>14. f[m[x]] = h[x] /\ h[x] \in Int
  BY <1>2, <1>5
<1>15. F(M(s)) = F(M(s \ {x}) \cup {m[x]})
  BY <1>7
<1> HIDE DEF M, F, H, B
<1>16. QED
  BY <1>2, <1>6, <1>10, <1>12, <1>13, <1>14, <1>15

(* Changing one value changes the sum by as much. *)
LEMMA SumChange ==
  ASSUME NEW S, IsFiniteSet(S), NEW f, NEW h, NEW x \in S, NEW d \in Int,
         \A y \in S : f[y] \in Int /\ h[y] = IF y = x THEN f[y] + d ELSE f[y]
  PROVE  SumFunctionOnSet(h, S) = SumFunctionOnSet(f, S) + d
<1>1. \A y \in S : h[y] \in Int /\ f[y] \in Int
  OBVIOUS
<1>2. IsFiniteSet(S \ {x}) /\ \A y \in S \ {x} : h[y] = f[y]
  BY FS_Subset
<1>3. SumFunctionOnSet(h, S) = h[x] + SumFunctionOnSet(h, S \ {x})
  BY <1>1, SumAt
<1>4. SumFunctionOnSet(f, S) = f[x] + SumFunctionOnSet(f, S \ {x})
  BY <1>1, SumAt
<1>5. SumFunctionOnSet(h, S \ {x}) = SumFunctionOnSet(f, S \ {x})
  BY <1>2, SumSame
<1>6. SumFunctionOnSet(f, S \ {x}) \in Int
  BY <1>1, <1>2, SumAt
<1>7. h[x] = f[x] + d /\ f[x] \in Int
  OBVIOUS
<1>8. QED
  BY ONLY <1>3, <1>4, <1>5, <1>6, <1>7, d \in Int

(* One value is its own sum. *)
LEMMA SumOne ==
  ASSUME NEW x, NEW f, f[x] \in Int
  PROVE  SumFunctionOnSet(f, {x}) = f[x]
<1>1. {x} = {} \cup {x}
  OBVIOUS
<1>2. SumFunctionOnSet(f, {} \cup {x}) = SumFunctionOnSet(f, {}) + f[x]
  BY FS_EmptySet, SumAdd
<1>3. QED
  BY <1>1, <1>2, SumEmpty

(* The operator that adds a whole function. *)
LEMMA SumAll ==
  /\ \A f : SumFunction(f) = SumFunctionOnSet(f, DOMAIN f)
  /\ \A f, S : DOMAIN f = S => SumFunction(f) = SumFunctionOnSet(f, S)
  BY DEF SumFunction

(* A sum, taken key by key. *)
LEMMA SumByKey ==
  ASSUME NEW K, IsFiniteSet(K), NEW X, IsFiniteSet(X), NEW key, \A x \in X : key[x] \in K,
         NEW f, \A x \in X : f[x] \in Int,
         NEW Y, \A k \in K : \A x : x \in Y[k] <=> x \in X /\ key[x] = k,
         NEW h, \A k \in K : h[k] = SumFunctionOnSet(f, Y[k])
  PROVE  SumFunctionOnSet(f, X) = SumFunctionOnSet(h, K)
<1> DEFINE P(s) == {x \in X : key[x] \in s}
           F(s) == SumFunctionOnSet(f, P(s))
           H(s) == SumFunctionOnSet(h, s)
           B == {s \in SUBSET K : F(s) # H(s)}
<1>0. P(K) = X /\ P({}) = {} /\ \A s : P(s) \subseteq X /\ IsFiniteSet(P(s))
  <2>1. \A s : P(s) \subseteq X
    OBVIOUS
  <2>2. \A s : IsFiniteSet(P(s))
    BY <2>1, FS_Subset
  <2>3. QED
    BY <2>1, <2>2
<1> SUFFICES ASSUME B # {} PROVE FALSE
  BY <1>0, K \in SUBSET K
<1>1. B \in SUBSET (SUBSET K)
  OBVIOUS
<1>2. PICK s \in B : \A t \in B : t \subseteq s => t = s
  <2> HIDE DEF B
  <2>1. QED
    BY <1>1, Smallest
<1>3. s \subseteq K /\ IsFiniteSet(s) /\ F(s) # H(s)
  BY <1>2, FS_Subset
<1>4. F({}) = 0 /\ H({}) = 0
  BY <1>0, SumEmpty
<1>5. s # {}
  <2> SUFFICES ASSUME s = {} PROVE FALSE
    OBVIOUS
  <2> HIDE DEF F, H, B
  <2>1. QED
    BY <1>3, <1>4
<1>6. PICK k \in s : TRUE
  BY <1>5
<1>7. F(s \ {k}) = H(s \ {k})
  BY <1>2, <1>6
<1>8. /\ h[k] = SumFunctionOnSet(f, Y[k]) /\ IsFiniteSet(Y[k]) /\ \A x \in Y[k] : x \in X
      /\ \A j \in s : h[j] \in Int
  <2>1. \A j \in K : IsFiniteSet(Y[j]) /\ h[j] = SumFunctionOnSet(f, Y[j]) /\ \A x \in Y[j] : x \in X
    <3> TAKE j \in K
    <3>1. Y[j] \subseteq X
      OBVIOUS
    <3>2. IsFiniteSet(Y[j])
      BY <3>1, FS_Subset
    <3>3. QED
      BY <3>1, <3>2
  <2>2. \A j \in K : h[j] \in Int
    <3> TAKE j \in K
    <3>1. \A x \in Y[j] : f[x] \in Int
      BY <2>1
    <3>2. SumFunctionOnSet(f, Y[j]) \in Int
      BY <2>1, <3>1, SumAt
    <3>3. QED
      BY <2>1, <3>2
  <2> HIDE DEF P, F, H, B
  <2>3. QED
    BY <2>1, <2>2, <1>3, <1>6
<1>9. F(s) = F(s \ {k}) + h[k]
  <2> DEFINE U == P(s \ {k})
             V == Y[k]
             W == P(s)
  <2>1. W = U \union V /\ U \cap V = {} /\ \A x \in U \union V : f[x] \in Int
    <3>1. k \in K /\ \A x : x \in V <=> x \in X /\ key[x] = k
      BY <1>3, <1>6
    <3>2. \A x : x \in W <=> x \in U \/ x \in V
      BY <3>1, <1>6
    <3>3. \A x : ~(x \in U /\ x \in V)
      BY <3>1
    <3>4. \A x \in W : f[x] \in Int
      OBVIOUS
    <3> HIDE DEF U, V, W
    <3>5. QED
      BY <3>2, <3>3, <3>4
  <2>2. IsFiniteSet(U) /\ IsFiniteSet(V)
    BY <1>0, <1>8
  <2>3. F(s) = SumFunctionOnSet(f, W) /\ F(s \ {k}) = SumFunctionOnSet(f, U) /\ h[k] = SumFunctionOnSet(f, V)
    BY <1>8
  <2> HIDE DEF U, V, W, P, F, H, B
  <2>4. SumFunctionOnSet(f, U \union V) = SumFunctionOnSet(f, U) + SumFunctionOnSet(f, V)
    BY ONLY <2>1, <2>2, SumUnion
  <2>5. QED
    BY <2>1, <2>3, <2>4
<1>10. H(s) = h[k] + H(s \ {k})
  BY <1>3, <1>6, <1>8, SumAt
<1>11. H(s \ {k}) \in Int
  BY <1>3, <1>8, FS_Subset, SumAt
<1>12. h[k] \in Int
  BY <1>6, <1>8
<1> HIDE DEF P, F, H, B
<1>13. QED
  BY <1>3, <1>7, <1>9, <1>10, <1>11, <1>12
===============================================================================
