-------------------------- MODULE Schedules_proofs --------------------------
(* Theorems about the recognition schedules of accrual books (AccrualSchedules), *)
(* for any terms, plans, amounts, days, months and payment, and any number of    *)
(* schedules, changes and closed or reopened months: every balance is recognized *)
(* once and to the cent, a closed past keeps its figures, and the support of a   *)
(* past day is the ledger's balance of that day.                                 *)
EXTENDS AccrualSchedules, Sums, SequenceTheorems
--------------------------------------------------------------------------------
(* Numbers. *)

\* A finite set of numbers has a greatest member, which is what Max chooses.
LEMMA MaxIs ==
  ASSUME NEW S, IsFiniteSet(S), S # {}, S \subseteq Int
  PROVE  Max(S) \in S /\ \A y \in S : Max(S) >= y
<1> DEFINE B == {T \in SUBSET S : T # {} /\ ~ \E x \in T : \A y \in T : x >= y}
<1>1. B # {} => FALSE
  <2> SUFFICES ASSUME B # {} PROVE FALSE
    OBVIOUS
  <2>1. B \in SUBSET (SUBSET S)
    OBVIOUS
  <2>2. PICK T \in B : \A U \in B : U \subseteq T => U = T
    <3> HIDE DEF B
    <3>1. \E T \in B : \A U \in B : U \subseteq T => U = T
      BY ONLY IsFiniteSet(S), B # {}, <2>1, Smallest
    <3>2. QED
      BY <3>1
  <2>3. PICK z \in T : TRUE
    BY <2>2
  <2>4. T \ {z} = {} => FALSE
    BY <2>2, <2>3
  <2>5. ASSUME T \ {z} # {} PROVE FALSE
    <3>1. T \ {z} \notin B
      BY <2>2, <2>3
    <3>2. PICK m \in T \ {z} : \A y \in T \ {z} : m >= y
      BY <3>1, <2>2, <2>5
    <3>3. m \in Int /\ z \in Int /\ \A y \in T : y \in Int
      BY <2>2, <2>3, <3>2
    <3>4. CASE m >= z
      <4>1. \A y \in T : m >= y
        BY <3>2, <3>4
      <4>2. QED
        BY <4>1, <2>2, <3>2
    <3>5. CASE ~(m >= z)
      <4>1. \A y \in T : z >= y
        BY <3>2, <3>3, <3>5
      <4>2. QED
        BY <4>1, <2>2, <2>3
    <3>6. QED
      BY <3>4, <3>5
  <2>6. QED
    BY <2>4, <2>5
<1>2. \E x \in S : \A y \in S : x >= y
  BY <1>1
<1>3. QED
  BY <1>2 DEF Max

\* The same of the least one.
LEMMA MinIs ==
  ASSUME NEW S, IsFiniteSet(S), S # {}, S \subseteq Int
  PROVE  Min(S) \in S /\ \A y \in S : Min(S) <= y
<1> DEFINE m == [x \in S |-> -x]
           N == {m[x] : x \in S}
<1>1. IsFiniteSet(N)
  BY FiniteImage
<1>2. N # {} /\ N \subseteq Int
  <2>1. \A x \in S : m[x] \in Int
    OBVIOUS
  <2>2. PICK z \in S : TRUE
    OBVIOUS
  <2>3. m[z] \in N
    OBVIOUS
  <2> HIDE DEF m
  <2>4. QED
    BY <2>1, <2>3
<1>3. Max(N) \in N /\ \A y \in N : Max(N) >= y
  BY <1>1, <1>2, MaxIs
<1>4. PICK x \in S : Max(N) = -x
  BY <1>3
<1>5. \A y \in S : x <= y
  <2> TAKE y \in S
  <2>1. m[y] \in N /\ m[y] = -y
    OBVIOUS
  <2>2. -x >= -y /\ x \in Int /\ y \in Int
    BY <2>1, <1>3, <1>4
  <2>3. QED
    BY <2>2
<1>6. QED
  BY <1>5 DEF Min

\* Division that floors.
LEMMA DivIs ==
  ASSUME NEW a \in Int, NEW D \in Nat, D > 0
  PROVE  /\ a \div D \in Int /\ D * (a \div D) <= a
         /\ a >= 0 => a \div D >= 0
<1>1. a \div D \in Int
  OBVIOUS
<1>2. D * (a \div D) <= a
  BY Z3T(30)
<1>3. a >= 0 => a \div D >= 0
  OBVIOUS
<1>4. QED
  BY <1>1, <1>2, <1>3

\* A positive factor can be left out of a comparison.
LEMMA FactorOut ==
  ASSUME NEW a \in Int, NEW b \in Int, NEW D \in Nat, D > 0, D * a <= D * b
  PROVE  a <= b
  OBVIOUS

\* The sum of a constant multiple.
LEMMA SumScaled ==
  ASSUME NEW S, IsFiniteSet(S), NEW c \in Int, NEW f, NEW h, \A x \in S : f[x] \in Int /\ h[x] = c * f[x]
  PROVE  SumFunctionOnSet(h, S) = c * SumFunctionOnSet(f, S)
<1> DEFINE F(T) == SumFunctionOnSet(f, T)
           H(T) == SumFunctionOnSet(h, T)
           B == {T \in SUBSET S : H(T) # c * F(T)}
<1> SUFFICES ASSUME B # {} PROVE FALSE
  BY S \in SUBSET S
<1>1. B \in SUBSET (SUBSET S)
  OBVIOUS
<1>2. PICK T \in B : \A U \in B : U \subseteq T => U = T
  <2> HIDE DEF B
  <2>1. QED
    BY <1>1, Smallest
<1>3. T # {}
  <2>1. F({}) = 0 /\ H({}) = 0
    BY SumEmpty
  <2>2. c * 0 = 0
    OBVIOUS
  <2>3. {} \notin B
    BY <2>1, <2>2
  <2>4. QED
    BY <1>2, <2>3
<1>4. PICK x \in T : TRUE
  BY <1>3
<1>5. T \ {x} \notin B /\ T \ {x} \in SUBSET S
  BY <1>2, <1>4
<1>6. H(T \ {x}) = c * F(T \ {x})
  BY <1>5
<1>7. IsFiniteSet(T) /\ IsFiniteSet(T \ {x})
  BY <1>2, <1>5, FS_Subset
<1>8. \A y \in T : f[y] \in Int /\ h[y] \in Int /\ h[y] = c * f[y]
  BY <1>2
<1>9. F(T) = f[x] + F(T \ {x}) /\ H(T) = h[x] + H(T \ {x}) /\ F(T \ {x}) \in Int
  BY <1>4, <1>7, <1>8, SumAt
<1>10. H(T) = c * F(T)
  <2> HIDE DEF F, H
  <2>1. c * (f[x] + F(T \ {x})) = c * f[x] + c * F(T \ {x})
    BY <1>4, <1>8, <1>9
  <2>2. QED
    BY <2>1, <1>4, <1>6, <1>8, <1>9
<1>11. QED
  BY <1>10, <1>2

\* A sum of smaller numbers is smaller.
LEMMA SumSmaller ==
  ASSUME NEW S, IsFiniteSet(S), NEW f, NEW h, \A x \in S : f[x] \in Int /\ h[x] \in Int /\ f[x] <= h[x]
  PROVE  SumFunctionOnSet(f, S) <= SumFunctionOnSet(h, S)
<1> DEFINE g == [x \in S |-> h[x] - f[x]]
<1>1. \A x \in S : g[x] \in Int /\ g[x] >= 0 /\ h[x] = f[x] + g[x] /\ f[x] \in Int
  OBVIOUS
<1> HIDE DEF g
<1>2. SumFunctionOnSet(g, S) \in Int /\ SumFunctionOnSet(g, S) >= 0
  BY <1>1, SumSigned
<1>3. SumFunctionOnSet(h, S) = SumFunctionOnSet(f, S) + SumFunctionOnSet(g, S)
  BY <1>1, SumPlus
<1>4. SumFunctionOnSet(f, S) \in Int
  BY <1>1, SumAt
<1>5. QED
  BY <1>2, <1>3, <1>4

\* A sum of ones counts.
LEMMA SumOnes ==
  ASSUME NEW S, IsFiniteSet(S), NEW f, \A x \in S : f[x] = 1
  PROVE  SumFunctionOnSet(f, S) = Cardinality(S)
<1> DEFINE F(T) == SumFunctionOnSet(f, T)
           B == {T \in SUBSET S : F(T) # Cardinality(T)}
<1> SUFFICES ASSUME B # {} PROVE FALSE
  BY S \in SUBSET S
<1>1. B \in SUBSET (SUBSET S)
  OBVIOUS
<1>2. PICK T \in B : \A U \in B : U \subseteq T => U = T
  <2> HIDE DEF B
  <2>1. QED
    BY <1>1, Smallest
<1>3. T # {}
  BY <1>2, SumEmpty, FS_EmptySet
<1>4. PICK x \in T : TRUE
  BY <1>3
<1>5. T \ {x} \notin B /\ T \ {x} \in SUBSET S
  BY <1>2, <1>4
<1>6. F(T \ {x}) = Cardinality(T \ {x})
  BY <1>5
<1>7. IsFiniteSet(T) /\ IsFiniteSet(T \ {x})
  BY <1>2, <1>5, FS_Subset
<1>8. \A y \in T : f[y] \in Int
  BY <1>2
<1>9. F(T) = f[x] + F(T \ {x})
  BY <1>4, <1>7, <1>8, SumAt
<1>10. Cardinality(T \ {x}) = Cardinality(T) - 1 /\ Cardinality(T) \in Nat
  BY <1>4, <1>7, FS_RemoveElement, FS_CardinalityType
<1>11. f[x] = 1
  BY <1>2, <1>4
<1> HIDE DEF F
<1>12. QED
  BY <1>2, <1>6, <1>9, <1>10, <1>11

--------------------------------------------------------------------------------
(* The calendar. *)

\* A service is a stretch of days.
Service(r) == r.start \in Days /\ r.last \in Days /\ r.start <= r.last

\* Days are numbers, and there are finitely many of them.
LEMMA DaysFinite == IsFiniteSet(Days) /\ Days \subseteq Int
  BY FS_Interval, SchedAssumption DEF Days

\* The month of a day is the last one that has begun.
LEMMA MonthIs ==
  ASSUME NEW d \in Days
  PROVE  Month(d) \in MonthStarts /\ Month(d) <= d /\ \A m \in MonthStarts : m <= d => m <= Month(d)
<1> DEFINE S == {m \in MonthStarts : m <= d}
<1>1. S \subseteq Days /\ 1 \in S
  BY SchedAssumption DEF Days
<1>2. IsFiniteSet(S) /\ S \subseteq Int /\ S # {}
  BY <1>1, DaysFinite, FS_Subset
<1>3. Max(S) \in S /\ \A y \in S : Max(S) >= y
  BY <1>2, MaxIs
<1>4. \A y \in S : y \in Int
  BY <1>2
<1>5. QED
  BY <1>3, <1>4 DEF Month

\* It ends before the next one begins.
LEMMA MonthEndIs ==
  ASSUME NEW m \in MonthStarts
  PROVE  /\ MonthEnd(m) \in Int /\ m <= MonthEnd(m) /\ MonthEnd(m) <= LastDay
         /\ \A n \in MonthStarts : n > m => MonthEnd(m) < n
         /\ MonthEnd(m) = LastDay \/ MonthEnd(m) + 1 \in MonthStarts
<1> DEFINE f == [n \in MonthStarts |-> n - 1]
           S == {LastDay} \union {n - 1 : n \in {x \in MonthStarts : x > m}}
<1>1. MonthStarts \subseteq Int /\ IsFiniteSet(MonthStarts) /\ m \in 1..LastDay /\ LastDay \in Nat
  BY DaysFinite, SchedAssumption, FS_Subset DEF Days
<1>2. IsFiniteSet({f[n] : n \in MonthStarts})
  BY <1>1, FiniteImage
<1>3. S \subseteq {LastDay} \union {f[n] : n \in MonthStarts}
  <2> SUFFICES ASSUME NEW n \in MonthStarts, n > m PROVE n - 1 \in {f[x] : x \in MonthStarts}
    OBVIOUS
  <2>1. f[n] \in {f[x] : x \in MonthStarts} /\ f[n] = n - 1
    OBVIOUS
  <2>2. QED
    BY <2>1
<1>4. IsFiniteSet(S)
  <2>1. IsFiniteSet({LastDay} \union {f[n] : n \in MonthStarts})
    BY <1>2, FS_Singleton, FS_Union
  <2>2. QED
    BY <2>1, <1>3, FS_Subset
<1>5. S \subseteq Int /\ LastDay \in S
  BY <1>1
<1>6. Min(S) \in S /\ \A y \in S : Min(S) <= y
  <2> HIDE DEF S
  <2>1. QED
    BY <1>4, <1>5, MinIs
<1>7. MonthEnd(m) = Min(S)
  BY DEF MonthEnd
<1>8. Min(S) \in Int /\ Min(S) <= LastDay
  BY <1>5, <1>6
<1>9. \A n \in MonthStarts : n > m => Min(S) < n
  <2> SUFFICES ASSUME NEW n \in MonthStarts, n > m PROVE Min(S) < n
    OBVIOUS
  <2>1. n - 1 \in S
    OBVIOUS
  <2>2. Min(S) <= n - 1 /\ n \in Int
    BY <2>1, <1>1, <1>6
  <2>3. QED
    BY <2>2, <1>8
<1>10. Min(S) = LastDay \/ \E n \in MonthStarts : n > m /\ Min(S) = n - 1
  BY <1>6
<1>11. m <= Min(S)
  BY <1>1, <1>10
<1>12. Min(S) = LastDay \/ Min(S) + 1 \in MonthStarts
  <2>1. CASE \E n \in MonthStarts : n > m /\ Min(S) = n - 1
    <3>1. PICK n \in MonthStarts : n > m /\ Min(S) = n - 1
      BY <2>1
    <3>2. Min(S) + 1 = n
      BY <3>1, <1>1
    <3>3. QED
      BY <3>2
  <2>2. QED
    BY <2>1, <1>10
<1> HIDE DEF S
<1>13. QED
  BY <1>7, <1>8, <1>9, <1>11, <1>12

\* The segments follow each other, from the first day of the service to the last.
LEMMA SegmentIs ==
  ASSUME NEW r, Service(r)
  PROVE  /\ IsFiniteSet(Segments(r)) /\ r.start \in Segments(r) /\ Segments(r) \subseteq r.start..r.last
         /\ \A d \in Segments(r) : SegmentEnd(r, d) \in d..r.last
         /\ \A d, e \in Segments(r) : d < e => SegmentEnd(r, d) < e
         /\ \A d \in Segments(r) : SegmentEnd(r, d) # r.last => SegmentEnd(r, d) + 1 \in Segments(r)
<1>1. r.start \in Int /\ r.last \in Int /\ r.start >= 1 /\ r.last <= LastDay /\ r.start <= r.last /\ LastDay \in Nat
  BY SchedAssumption DEF Service, Days
<1>2. Segments(r) \subseteq r.start..r.last /\ r.start \in Segments(r)
  BY <1>1 DEF Segments
<1>3. IsFiniteSet(Segments(r))
  BY <1>1, <1>2, FS_Interval, FS_Subset
<1>4. \A d \in Segments(r) : d \in Days
  BY <1>1, <1>2 DEF Days
<1>5. \A d \in Segments(r) :
        /\ SegmentEnd(r, d) \in Int /\ SegmentEnd(r, d) <= r.last /\ SegmentEnd(r, d) <= MonthEnd(Month(d))
        /\ SegmentEnd(r, d) = r.last \/ SegmentEnd(r, d) = MonthEnd(Month(d))
  <2> SUFFICES ASSUME NEW d \in Segments(r)
               PROVE  /\ SegmentEnd(r, d) \in Int /\ SegmentEnd(r, d) <= r.last /\ SegmentEnd(r, d) <= MonthEnd(Month(d))
                      /\ SegmentEnd(r, d) = r.last \/ SegmentEnd(r, d) = MonthEnd(Month(d))
    OBVIOUS
  <2> DEFINE S == {r.last, MonthEnd(Month(d))}
  <2>1. MonthEnd(Month(d)) \in Int
    BY <1>4, MonthIs, MonthEndIs
  <2>2. IsFiniteSet(S) /\ S # {} /\ S \subseteq Int
    <3>1. S = {r.last} \union {MonthEnd(Month(d))}
      OBVIOUS
    <3>2. IsFiniteSet({r.last}) /\ IsFiniteSet({MonthEnd(Month(d))})
      BY FS_Singleton
    <3>a. IsFiniteSet({r.last} \union {MonthEnd(Month(d))})
      BY ONLY <3>2, FS_Union
    <3>3. QED
      BY <3>1, <3>a, <2>1, <1>1
  <2>3. Min(S) \in S /\ \A y \in S : Min(S) <= y
    <3> HIDE DEF S
    <3>1. QED
      BY <2>2, MinIs
  <2>4. QED
    BY <2>1, <2>3, <1>1 DEF SegmentEnd
<1>6. \A d \in Segments(r) : d <= MonthEnd(Month(d)) /\ \A n \in MonthStarts : n > d => MonthEnd(Month(d)) < n
  <2> SUFFICES ASSUME NEW d \in Segments(r)
               PROVE  d <= MonthEnd(Month(d)) /\ \A n \in MonthStarts : n > d => MonthEnd(Month(d)) < n
    OBVIOUS
  <2>1. Month(d) \in MonthStarts /\ Month(d) <= d /\ \A m \in MonthStarts : m <= d => m <= Month(d)
    BY <1>4, MonthIs
  <2>2. /\ MonthEnd(Month(d)) \in Int
        /\ \A n \in MonthStarts : n > Month(d) => MonthEnd(Month(d)) < n
        /\ MonthEnd(Month(d)) = LastDay \/ MonthEnd(Month(d)) + 1 \in MonthStarts
    BY <2>1, MonthEndIs
  <2>3. d \in Int /\ d <= LastDay /\ \A m \in MonthStarts : m \in Int
    BY <1>1, <1>2, SchedAssumption DEF Days
  <2>4. \A n \in MonthStarts : n > d => n > Month(d)
    BY <2>1, <2>3
  <2>5. d <= MonthEnd(Month(d))
    <3>1. CASE MonthEnd(Month(d)) = LastDay
      BY <3>1, <2>3
    <3>2. CASE MonthEnd(Month(d)) + 1 \in MonthStarts
      <4>1. Month(d) <= MonthEnd(Month(d))
        BY <2>1, MonthEndIs
      <4>2. ASSUME MonthEnd(Month(d)) < d PROVE FALSE
        <5>1. MonthEnd(Month(d)) + 1 <= d
          BY <4>2, <2>2, <2>3
        <5>2. MonthEnd(Month(d)) + 1 <= Month(d)
          BY <5>1, <3>2, <2>1
        <5>3. QED
          BY <5>2, <4>1, <2>1, <2>2, <2>3
      <4>3. QED
        BY <4>2, <2>2, <2>3
    <3>3. QED
      BY <3>1, <3>2, <2>2
  <2>6. QED
    BY <2>2, <2>4, <2>5
<1>7. \A d \in Segments(r) : SegmentEnd(r, d) \in d..r.last
  BY <1>1, <1>2, <1>5, <1>6
<1>8. \A d, e \in Segments(r) : d < e => SegmentEnd(r, d) < e
  <2> SUFFICES ASSUME NEW d \in Segments(r), NEW e \in Segments(r), d < e
               PROVE  SegmentEnd(r, d) < e
    OBVIOUS
  <2>1. d \in Int /\ e \in Int /\ r.start <= d
    BY <1>1, <1>2
  <2>2. e \in MonthStarts
    BY <2>1, <1>1 DEF Segments
  <2>3. MonthEnd(Month(d)) < e /\ SegmentEnd(r, d) <= MonthEnd(Month(d))
    BY <2>2, <1>5, <1>6
  <2>4. MonthEnd(Month(d)) \in Int
    BY <1>4, MonthIs, MonthEndIs
  <2>5. QED
    BY <2>1, <2>3, <2>4, <1>5
<1>9. \A d \in Segments(r) : SegmentEnd(r, d) # r.last => SegmentEnd(r, d) + 1 \in Segments(r)
  <2> SUFFICES ASSUME NEW d \in Segments(r), SegmentEnd(r, d) # r.last
               PROVE  SegmentEnd(r, d) + 1 \in Segments(r)
    OBVIOUS
  <2>1. SegmentEnd(r, d) = MonthEnd(Month(d)) /\ SegmentEnd(r, d) < r.last /\ SegmentEnd(r, d) \in Int
    BY <1>1, <1>5
  <2>2. MonthEnd(Month(d)) = LastDay \/ MonthEnd(Month(d)) + 1 \in MonthStarts
    BY <1>4, MonthIs, MonthEndIs
  <2>3. SegmentEnd(r, d) + 1 \in MonthStarts
    BY <2>1, <2>2, <1>1
  <2>4. SegmentEnd(r, d) + 1 \in r.start..r.last
    BY <2>1, <1>1, <1>2, <1>7
  <2>5. QED
    BY <2>3, <2>4 DEF Segments
<1>10. QED
  BY <1>2, <1>3, <1>7, <1>8, <1>9

\* One segment reaches the last day.
LEMMA LastSegment ==
  ASSUME NEW r, Service(r)
  PROVE  \E t \in Segments(r) :
           /\ SegmentEnd(r, t) = r.last /\ \A d \in Segments(r) : d <= t
           /\ \A d \in Segments(r) \ {t} : SegmentEnd(r, d) < r.last
<1>1. /\ IsFiniteSet(Segments(r)) /\ r.start \in Segments(r) /\ Segments(r) \subseteq r.start..r.last
      /\ \A d \in Segments(r) : SegmentEnd(r, d) \in d..r.last
      /\ \A d, e \in Segments(r) : d < e => SegmentEnd(r, d) < e
      /\ \A d \in Segments(r) : SegmentEnd(r, d) # r.last => SegmentEnd(r, d) + 1 \in Segments(r)
  BY SegmentIs
<1>2. r.start \in Int /\ r.last \in Int /\ Segments(r) \subseteq Int
  BY <1>1, SchedAssumption DEF Service, Days
<1>3. PICK t \in Segments(r) : \A d \in Segments(r) : t >= d
  BY <1>1, <1>2, MaxIs
<1>4. SegmentEnd(r, t) = r.last
  BY <1>1, <1>2, <1>3
<1>5. \A d \in Segments(r) \ {t} : SegmentEnd(r, d) < r.last
  <2> SUFFICES ASSUME NEW d \in Segments(r), d # t PROVE SegmentEnd(r, d) < r.last
    OBVIOUS
  <2>1. d < t /\ d \in Int /\ t \in Int /\ t <= r.last /\ SegmentEnd(r, d) \in Int
    BY <1>1, <1>2, <1>3
  <2>2. QED
    BY <2>1, <1>1, <1>2
<1>6. QED
  BY <1>2, <1>3, <1>4, <1>5

--------------------------------------------------------------------------------
(* Shares. *)

\* The weights of the segments add up to the denominator.
LEMMA WeightsAdd ==
  ASSUME NEW r, Service(r)
  PROVE  /\ Denominator(r) \in Nat /\ Denominator(r) > 0
         /\ \A d \in Segments(r) : Weight(r, d) \in Nat
         /\ SumFunctionOnSet([d \in Segments(r) |-> Weight(r, d)], Segments(r)) = Denominator(r)
<1> DEFINE S == Segments(r)
           w == [d \in S |-> Weight(r, d)]
<1>1. /\ IsFiniteSet(S) /\ r.start \in S /\ S \subseteq r.start..r.last
      /\ \A d \in S : SegmentEnd(r, d) \in d..r.last
      /\ \A d, e \in S : d < e => SegmentEnd(r, d) < e
      /\ \A d \in S : SegmentEnd(r, d) # r.last => SegmentEnd(r, d) + 1 \in S
  BY SegmentIs
<1>2. r.start \in Int /\ r.last \in Int /\ r.start <= r.last /\ S \subseteq Int
  BY <1>1, SchedAssumption DEF Service, Days
<1>3. \A d \in S : SegmentEnd(r, d) \in Int /\ d <= SegmentEnd(r, d)
  BY <1>1, <1>2
<1>4. CASE r.method = "equal_month"
  <2>1. Denominator(r) = Cardinality(S) /\ \A d \in S : w[d] = 1 /\ Weight(r, d) = 1
    BY <1>4 DEF Denominator, Weight
  <2>2. SumFunctionOnSet(w, S) = Cardinality(S)
    <3> HIDE DEF S, w
    <3>1. QED
      BY <1>1, <2>1, SumOnes
  <2>3. Cardinality(S) \in Nat /\ Cardinality(S) # 0
    BY <1>1, FS_CardinalityType, FS_EmptySet
  <2>4. QED
    BY <2>1, <2>2, <2>3
<1>5. CASE r.method # "equal_month"
  <2> DEFINE G(e) == {d \in S : d >= e}
             W(T) == SumFunctionOnSet(w, T)
             X == {e \in S : W(G(e)) # r.last - e + 1}
  <2>1. Denominator(r) = r.last - r.start + 1
    BY <1>5 DEF Denominator
  <2>2. \A d \in S : Weight(r, d) = SegmentEnd(r, d) - d + 1
    BY <1>5 DEF Weight
  <2>3. \A d \in S : w[d] \in Int /\ w[d] = SegmentEnd(r, d) - d + 1
    BY <2>2, <1>2, <1>3
  <2>4. X = {}
    <3> SUFFICES ASSUME X # {} PROVE FALSE
      OBVIOUS
    <3>1. IsFiniteSet(X) /\ X \subseteq Int
      BY <1>1, <1>2, FS_Subset
    <3>2. PICK e \in X : \A x \in X : e >= x
      <4> HIDE DEF X
      <4>1. QED
        BY <3>1, MaxIs
    <3>3. e \in S /\ e \in Int /\ W(G(e)) # r.last - e + 1
      BY <3>2, <1>2
    <3> DEFINE R == {d \in S : d > e}
    <3>4. IsFiniteSet(R) /\ e \notin R /\ G(e) = R \union {e} /\ R \subseteq S
      <4>1. IsFiniteSet(R) /\ e \notin R /\ R \subseteq S
        BY <1>1, <3>3, FS_Subset
      <4>2. \A d \in S : d >= e <=> d > e \/ d = e
        BY <3>3, <1>2
      <4>3. QED
        BY <4>1, <4>2, <3>3
    <3>5. W(G(e)) = W(R) + w[e]
      <4>1. \A y \in R \union {e} : w[y] \in Int
        BY <3>3, <3>4, <2>3
      <4> HIDE DEF w, R
      <4>2. SumFunctionOnSet(w, R \union {e}) = SumFunctionOnSet(w, R) + w[e]
        BY <4>1, <3>4, SumAdd
      <4>3. QED
        BY <4>2, <3>4
    <3>6. CASE SegmentEnd(r, e) = r.last
      <4>1. R = {}
        <5> SUFFICES ASSUME NEW d \in S, d > e PROVE FALSE
          OBVIOUS
        <5>1. r.last < d /\ d <= r.last /\ d \in Int
          BY <3>3, <3>6, <1>1, <1>2
        <5>2. QED
          BY <5>1, <1>2
      <4>2. W(R) = 0
        BY <4>1, SumEmpty
      <4>3. QED
        BY <3>3, <3>5, <3>6, <4>2, <2>3, <1>2
    <3>7. CASE SegmentEnd(r, e) # r.last
      <4> DEFINE n == SegmentEnd(r, e) + 1
      <4>1. n \in S /\ n > e /\ n \in Int
        BY <3>3, <3>7, <1>1, <1>3
      <4>2. n \notin X
        BY <4>1, <3>2, <3>3
      <4>3. W(G(n)) = r.last - n + 1
        BY <4>1, <4>2
      <4>4. R = G(n)
        <5>1. \A d \in S : d > e => d >= n
          BY <3>3, <1>1, <1>2, <1>3
        <5>2. \A d \in S : d >= n => d > e
          BY <4>1, <3>3, <1>2
        <5>3. QED
          BY <5>1, <5>2
      <4>5. W(G(e)) = (r.last - n + 1) + w[e]
        BY <3>5, <4>3, <4>4
      <4>6. w[e] = n - e
        BY <3>3, <2>3, <1>3
      <4>7. QED
        BY <4>5, <4>6, <4>1, <3>3, <1>2
    <3>8. QED
      BY <3>6, <3>7
  <2>5. G(r.start) = S
    BY <1>1, <1>2
  <2>6. W(S) = r.last - r.start + 1
    BY <2>4, <2>5, <1>1
  <2>7. r.last - r.start + 1 \in Nat /\ r.last - r.start + 1 > 0
    BY <1>2
  <2>8. \A d \in S : Weight(r, d) \in Nat
    BY <2>2, <1>2, <1>3
  <2>9. QED
    BY <2>1, <2>6, <2>7, <2>8
<1>6. QED
  BY <1>4, <1>5

\* Shares are amounts, and all but the last stay inside the base.
LEMMA SharesAdd ==
  ASSUME NEW r, Service(r), r.base \in Nat, NEW T, T \subseteq Segments(r)
  PROVE  /\ \A d \in Segments(r) : Share(r, d) \in Nat
         /\ SumFunctionOnSet([d \in Segments(r) |-> Share(r, d)], T) <= r.base
<1> DEFINE S == Segments(r)
           D == Denominator(r)
           w == [d \in S |-> Weight(r, d)]
           f == [d \in S |-> Share(r, d)]
           g == [d \in S |-> D * f[d]]
           h == [d \in S |-> r.base * w[d]]
           Of(x, U) == SumFunctionOnSet(x, U)
<1>1. D \in Nat /\ D > 0 /\ (\A d \in S : w[d] \in Nat) /\ Of(w, S) = D
  BY WeightsAdd
<1>2. IsFiniteSet(S) /\ IsFiniteSet(T)
  BY SegmentIs, FS_Subset
<1>3. \A d \in S : f[d] = (r.base * w[d]) \div D
  BY DEF Share
<1>4. \A d \in S : r.base * w[d] \in Nat
  <2> TAKE d \in S
  <2>1. w[d] \in Nat
    BY <1>1
  <2> HIDE DEF w
  <2>2. QED
    BY <2>1
<1>5. \A d \in S : f[d] \in Nat /\ D * f[d] <= r.base * w[d]
  <2> TAKE d \in S
  <2>1. r.base * w[d] \in Int /\ r.base * w[d] >= 0
    BY <1>4
  <2>2. f[d] = (r.base * w[d]) \div D
    BY <1>3
  <2> HIDE DEF D, w, f
  <2>3. QED
    BY <2>1, <2>2, <1>1, DivIs
<1>6. \A d \in S : g[d] = D * f[d] /\ g[d] \in Nat /\ h[d] = r.base * w[d] /\ h[d] \in Nat /\ g[d] <= h[d]
  <2>1. \A d \in S : g[d] = D * f[d] /\ h[d] = r.base * w[d]
    OBVIOUS
  <2>2. \A d \in S : D * f[d] \in Nat
    <3> HIDE DEF D, f
    <3>1. QED
      BY <1>1, <1>5
  <2>3. QED
    BY <2>1, <2>2, <1>4, <1>5
<1>7. \A d \in S : Share(r, d) \in Nat
  BY <1>5
<1> HIDE DEF S, D, w, f, g, h
<1>t. T \subseteq S
  BY DEF S
<1>8. Of(f, T) \in Int /\ Of(w, T) \in Int /\ Of(w, S) \in Int
  BY <1>1, <1>2, <1>5, <1>t, SumAt
<1>9. Of(g, T) = D * Of(f, T)
  BY <1>1, <1>2, <1>5, <1>6, <1>t, SumScaled
<1>10. Of(h, T) = r.base * Of(w, T)
  <2>1. \A d \in T : w[d] \in Int /\ h[d] = r.base * w[d]
    BY <1>1, <1>6, <1>t
  <2>2. QED
    BY <1>2, <2>1, SumScaled
<1>11. Of(g, T) <= Of(h, T)
  BY <1>2, <1>6, <1>t, SumSmaller
<1>12. Of(w, T) <= D
  <2>1. IsFiniteSet(S \ T) /\ S = T \union (S \ T) /\ T \cap (S \ T) = {}
    BY <1>2, <1>t, FS_Subset
  <2>2. \A x \in T \union (S \ T) : w[x] \in Int
    BY <1>1, <1>t
  <2>3. Of(w, T \union (S \ T)) = Of(w, T) + Of(w, S \ T)
    BY <1>2, <2>1, <2>2, SumUnion
  <2>4. Of(w, S \ T) \in Int /\ Of(w, S \ T) >= 0
    BY <2>1, <1>1, SumSigned
  <2>5. QED
    BY <2>1, <2>3, <2>4, <1>1, <1>8
<1>13. D * Of(f, T) <= D * r.base
  <2>1. D * Of(f, T) <= r.base * Of(w, T)
    BY <1>9, <1>10, <1>11
  <2>2. r.base * Of(w, T) <= r.base * D
    BY <1>12, <1>8, <1>1
  <2>3. r.base * D = D * r.base
    BY <1>1
  <2>4. D * Of(f, T) \in Int /\ r.base * Of(w, T) \in Int /\ D * r.base \in Int
    BY <1>8, <1>1
  <2>5. QED
    BY <2>1, <2>2, <2>3, <2>4
<1>14. Of(f, T) <= r.base
  BY <1>13, <1>8, <1>1, FactorOut
<1>15. QED
  BY <1>7, <1>14 DEF f, S

\* The amounts of the segments are amounts, and add up to the base to the cent.
LEMMA CentsAdd ==
  ASSUME NEW r, Service(r), r.base \in Nat
  PROVE  /\ \A d \in Segments(r) : Cents(r, d) \in Nat
         /\ SumFunctionOnSet([d \in Segments(r) |-> Cents(r, d)], Segments(r)) = r.base
<1> DEFINE S == Segments(r)
           f == [d \in S |-> Share(r, d)]
           c == [d \in S |-> Cents(r, d)]
           Of(x, U) == SumFunctionOnSet(x, U)
<1>1. PICK t \in S : SegmentEnd(r, t) = r.last /\ \A d \in S \ {t} : SegmentEnd(r, d) < r.last
  BY LastSegment
<1>2. IsFiniteSet(S) /\ IsFiniteSet(S \ {t})
  BY SegmentIs, FS_Subset
<1>3. \A d \in S : f[d] \in Nat
  BY SharesAdd
<1>4. Of(f, S \ {t}) <= r.base
  BY SharesAdd
<1>5. Of(f, S \ {t}) \in Int /\ Of(f, S \ {t}) >= 0
  BY <1>2, <1>3, SumSigned
<1>6. \A d \in S \ {t} : c[d] = f[d]
  BY <1>1 DEF Cents
<1>7. c[t] = r.base - Of(f, S \ {t})
  <2> DEFINE k == [x \in S \ {t} |-> Share(r, x)]
  <2>1. ~(SegmentEnd(r, t) < r.last)
    BY <1>1, SchedAssumption DEF Service, Days
  <2>2. c[t] = r.base - SumFunction(k)
    BY <2>1 DEF Cents
  <2>3. SumFunction(k) = Of(k, S \ {t})
    BY SumAll
  <2>4. \A x \in S \ {t} : k[x] = f[x]
    OBVIOUS
  <2>5. Of(k, S \ {t}) = Of(f, S \ {t})
    <3> HIDE DEF S, k, f
    <3>1. QED
      BY <1>2, <2>4, SumSame
  <2>6. QED
    BY <2>2, <2>3, <2>5
<1>8. \A d \in S : c[d] \in Nat
  <2>1. c[t] \in Nat
    BY <1>4, <1>5, <1>7
  <2>2. QED
    BY <2>1, <1>3, <1>6
<1>9. Of(c, S) = c[t] + Of(c, S \ {t})
  <2> HIDE DEF S, c
  <2>1. QED
    BY <1>1, <1>2, <1>8, SumAt
<1>10. Of(c, S \ {t}) = Of(f, S \ {t})
  <2> HIDE DEF S, c, f
  <2>1. QED
    BY <1>2, <1>6, SumSame
<1>11. Of(c, S) = r.base
  BY <1>5, <1>7, <1>9, <1>10
<1>12. \A d \in S : c[d] = Cents(r, d)
  OBVIOUS
<1>13. QED
  BY <1>8, <1>11, <1>12

--------------------------------------------------------------------------------
(* Installments. *)

\* What may be scheduled.
Scheduled(r) == Service(r) /\ r.base \in Nat /\ (r.method = "custom" => r.plan \in CustomPlans)
BaseOf(r) == IF r.method = "custom" THEN SumFunctionOnSet(r.plan, {d \in DOMAIN r.plan : d >= r.start}) ELSE r.base

\* A part of a service: a stretch of days and what is earned in it.
IsPart(p) ==
  /\ p = [date |-> p.date, from |-> p.from, amount |-> p.amount]
  /\ p.date \in Days /\ p.from \in Days /\ p.from <= p.date /\ p.amount \in Nat
Apart(p, q) == p.date < q.from \/ q.date < p.from

\* A sum of parts, as a sum over the days they begin on.
LEMMA SumByDay ==
  ASSUME NEW T, IsFiniteSet(T), NEW e, NEW f, \A d \in T : f[d] \in Int,
         NEW P, P = {[date |-> e[d], from |-> d, amount |-> f[d]] : d \in T}
  PROVE  IsFiniteSet(P) /\ Sum(P) = SumFunctionOnSet(f, T)
<1> DEFINE m == [d \in T |-> [date |-> e[d], from |-> d, amount |-> f[d]]]
           a == [p \in P |-> p.amount]
<1>1. P = {m[d] : d \in T}
  OBVIOUS
<1>2. IsFiniteSet({m[d] : d \in T})
  BY FiniteImage
<1>3. \A d \in T : m[d].from = d /\ m[d].amount = f[d]
  OBVIOUS
<1>4. \A x, y \in T : m[x] = m[y] => x = y
  BY <1>3
<1>5. \A d \in T : f[d] \in Int /\ f[d] = a[m[d]]
  <2> TAKE d \in T
  <2>1. m[d] \in P
    BY <1>1
  <2>2. QED
    BY <2>1, <1>3
<1>6. SumFunctionOnSet(a, P) = SumFunctionOnSet(f, T)
  <2> HIDE DEF m, a
  <2>1. SumFunctionOnSet(a, {m[d] : d \in T}) = SumFunctionOnSet(f, T)
    BY <1>4, <1>5, SumImage
  <2>2. QED
    BY <1>1, <2>1
<1>7. Sum(P) = SumFunctionOnSet(a, P)
  BY SumAll DEF Sum
<1>8. QED
  BY <1>1, <1>2, <1>6, <1>7

\* The installments of a schedule are stretches of its service that do not meet, and
\* they add up.
LEMMA InstallmentsAre ==
  ASSUME NEW r, Scheduled(r)
  PROVE  /\ IsFiniteSet(Installments(r)) /\ Sum(Installments(r)) = BaseOf(r)
         /\ \A p \in Installments(r) : IsPart(p) /\ p.amount > 0 /\ r.start <= p.from
         /\ \A p, q \in Installments(r) : p # q => Apart(p, q)
<1>0. Service(r) /\ r.base \in Nat /\ r.start \in Int /\ r.start >= 1
  BY SchedAssumption DEF Scheduled, Service, Days
<1>1. CASE r.method = "custom"
  <2> DEFINE T == {d \in DOMAIN r.plan : d >= r.start}
             e == [d \in T |-> d]
  <2>1. DOMAIN r.plan \subseteq Days /\ r.plan \in [DOMAIN r.plan -> Nat \ {0}]
    BY <1>1, SchedAssumption DEF Scheduled
  <2>2. IsFiniteSet(T) /\ \A d \in T : r.plan[d] \in Int /\ r.plan[d] > 0 /\ r.plan[d] \in Nat /\ d \in Days
    BY <2>1, DaysFinite, FS_Subset
  <2>3. Installments(r) = {[date |-> e[d], from |-> d, amount |-> r.plan[d]] : d \in T}
    BY <1>1 DEF Installments
  <2>4. IsFiniteSet(Installments(r)) /\ Sum(Installments(r)) = SumFunctionOnSet(r.plan, T)
    <3> HIDE DEF T, e
    <3>1. QED
      BY <2>2, <2>3, SumByDay
  <2>5. \A p \in Installments(r) : \E d \in T : p = [date |-> d, from |-> d, amount |-> r.plan[d]]
    BY <2>3
  <2>6. \A d \in T : d \in Int /\ d >= r.start
    BY <2>2, SchedAssumption DEF Days
  <2>7. \A p \in Installments(r) : IsPart(p) /\ p.amount > 0 /\ r.start <= p.from
    <3> SUFFICES ASSUME NEW p \in Installments(r) PROVE IsPart(p) /\ p.amount > 0 /\ r.start <= p.from
      OBVIOUS
    <3>1. PICK d \in T : p = [date |-> d, from |-> d, amount |-> r.plan[d]]
      BY <2>5
    <3>2. p.date = d /\ p.from = d /\ p.amount = r.plan[d]
      BY <3>1
    <3> HIDE DEF T
    <3>3. QED
      BY <3>1, <3>2, <2>2, <2>6 DEF IsPart
  <2>8. \A p, q \in Installments(r) : p # q => Apart(p, q)
    <3> SUFFICES ASSUME NEW p \in Installments(r), NEW q \in Installments(r), p # q PROVE Apart(p, q)
      OBVIOUS
    <3>1. PICK d \in T : p = [date |-> d, from |-> d, amount |-> r.plan[d]]
      BY <2>5
    <3>2. PICK g \in T : q = [date |-> g, from |-> g, amount |-> r.plan[g]]
      BY <2>5
    <3>3. d # g /\ d \in Int /\ g \in Int
      BY <3>1, <3>2, <2>6
    <3>4. p.date = d /\ q.from = g /\ q.date = g /\ p.from = d
      BY <3>1, <3>2
    <3>5. QED
      BY <3>3, <3>4 DEF Apart
  <2>9. QED
    BY <1>1, <2>4, <2>7, <2>8 DEF BaseOf
<1>2. CASE r.method # "custom"
  <2> DEFINE S == Segments(r)
             T == {x \in S : Cents(r, x) # 0}
             e == [d \in S |-> SegmentEnd(r, d)]
             f == [d \in S |-> Cents(r, d)]
  <2>1. /\ IsFiniteSet(S) /\ S \subseteq r.start..r.last
        /\ \A d \in S : SegmentEnd(r, d) \in d..r.last
        /\ \A d, g \in S : d < g => SegmentEnd(r, d) < g
    BY <1>0, SegmentIs
  <2>2. (\A d \in S : f[d] \in Nat) /\ SumFunctionOnSet(f, S) = r.base
    BY <1>0, CentsAdd
  <2>3. IsFiniteSet(T) /\ T \subseteq S
    BY <2>1, FS_Subset
  <2>4. Installments(r) = {[date |-> e[d], from |-> d, amount |-> f[d]] : d \in T}
    BY <1>2 DEF Installments
  <2>5. SumFunctionOnSet(f, S) = SumFunctionOnSet(f, T)
    <3>1. \A d \in S \ T : f[d] = 0
      OBVIOUS
    <3>3. \A d \in S : f[d] \in Int
      BY <2>2
    <3> HIDE DEF S, T, f
    <3>2. QED
      BY <2>1, <2>3, <3>1, <3>3, SumOver
  <2>6. IsFiniteSet(Installments(r)) /\ Sum(Installments(r)) = SumFunctionOnSet(f, T)
    <3>1. \A d \in T : f[d] \in Int
      BY <2>2, <2>3
    <3> HIDE DEF T, e, f
    <3>2. QED
      BY <2>3, <2>4, <3>1, SumByDay
  <2>7. r.last \in Int /\ r.start..r.last \subseteq Days
    BY <1>0, SchedAssumption DEF Service, Days
  <2>8. \A d \in T : /\ d \in Days /\ d \in Int /\ r.start <= d /\ e[d] \in Days /\ e[d] \in Int /\ d <= e[d]
                     /\ f[d] \in Nat /\ f[d] > 0 /\ e[d] = SegmentEnd(r, d)
    <3> TAKE d \in T
    <3>1. d \in S /\ d \in r.start..r.last /\ d \in Days /\ e[d] = SegmentEnd(r, d) /\ f[d] \in Nat /\ f[d] # 0
      BY <2>1, <2>2, <2>7
    <3>2. e[d] \in d..r.last
      BY <3>1, <2>1
    <3>3. d \in Int /\ r.start <= d /\ e[d] \in Int /\ d <= e[d] /\ e[d] <= r.last
      BY <3>1, <3>2, <1>0, <2>7
    <3>4. e[d] \in Days
      BY <3>3, <1>0, <2>7
    <3> HIDE DEF S, T, e, f
    <3>5. QED
      BY <3>1, <3>3, <3>4
  <2>9. \A p \in Installments(r) : \E d \in T : p = [date |-> e[d], from |-> d, amount |-> f[d]]
    BY <2>4
  <2>10. \A d, g \in T : d < g => e[d] < g
    BY <2>1, <2>8
  <2> HIDE DEF S, T, e, f
  <2>11. \A p \in Installments(r) : IsPart(p) /\ p.amount > 0 /\ r.start <= p.from
    <3> SUFFICES ASSUME NEW p \in Installments(r) PROVE IsPart(p) /\ p.amount > 0 /\ r.start <= p.from
      OBVIOUS
    <3>1. PICK d \in T : p = [date |-> e[d], from |-> d, amount |-> f[d]]
      BY <2>9
    <3>2. p.date = e[d] /\ p.from = d /\ p.amount = f[d]
      BY <3>1
    <3>3. QED
      BY <3>1, <3>2, <2>8 DEF IsPart
  <2>12. \A p, q \in Installments(r) : p # q => Apart(p, q)
    <3> SUFFICES ASSUME NEW p \in Installments(r), NEW q \in Installments(r), p # q PROVE Apart(p, q)
      OBVIOUS
    <3>1. PICK d \in T : p = [date |-> e[d], from |-> d, amount |-> f[d]]
      BY <2>9
    <3>2. PICK g \in T : q = [date |-> e[g], from |-> g, amount |-> f[g]]
      BY <2>9
    <3>3. d # g /\ d \in Int /\ g \in Int
      BY <3>1, <3>2, <2>8
    <3>4. e[d] < g \/ e[g] < d
      BY <3>3, <2>10
    <3>5. p.date = e[d] /\ q.from = g /\ q.date = e[g] /\ p.from = d
      BY <3>1, <3>2
    <3>6. QED
      BY <3>4, <3>5 DEF Apart
  <2>13. QED
    BY <1>2, <2>2, <2>5, <2>6, <2>11, <2>12 DEF BaseOf
<1>3. QED
  BY <1>1, <1>2

\* Sums of parts.
LEMMA SumParts ==
  ASSUME NEW P, IsFiniteSet(P), \A p \in P : IsPart(p), NEW Q, Q \subseteq P
  PROVE  /\ Sum(P) \in Nat /\ Sum(Q) \in Nat /\ Sum(P) = Sum(Q) + Sum(P \ Q)
         /\ \A p \in P : p.amount <= Sum(P)
<1> DEFINE a == [p \in P |-> p.amount]
           Of(T) == SumFunctionOnSet(a, T)
<1>1. \A p \in P : a[p] \in Int /\ a[p] >= 0
  BY DEF IsPart
<1>2. \A T \in SUBSET P : IsFiniteSet(T) /\ Sum(T) = Of(T)
  <2> TAKE T \in SUBSET P
  <2> DEFINE b == [p \in T |-> p.amount]
  <2>1. IsFiniteSet(T)
    BY FS_Subset
  <2>2. Sum(T) = SumFunctionOnSet(b, T)
    BY SumAll DEF Sum
  <2>3. \A p \in T : b[p] = a[p]
    OBVIOUS
  <2> HIDE DEF a, b
  <2>4. SumFunctionOnSet(b, T) = SumFunctionOnSet(a, T)
    BY <2>1, <2>3, SumSame
  <2>5. QED
    BY <2>1, <2>2, <2>4
<1>3. P \in SUBSET P /\ Q \in SUBSET P /\ P \ Q \in SUBSET P
  OBVIOUS
<1>p. \A p \in P : a[p] = p.amount
  OBVIOUS
<1> HIDE DEF a
<1>4. \A T \in SUBSET P : Of(T) \in Int /\ Of(T) >= 0
  <2> TAKE T \in SUBSET P
  <2>1. QED
    BY <1>1, <1>2, SumSigned
<1>5. Of(P) = Of(Q) + Of(P \ Q)
  <2>1. P = Q \union (P \ Q) /\ Q \cap (P \ Q) = {} /\ \A p \in Q \union (P \ Q) : a[p] \in Int
    BY <1>1
  <2>2. IsFiniteSet(Q) /\ IsFiniteSet(P \ Q)
    BY <1>2, <1>3
  <2>3. Of(Q \union (P \ Q)) = Of(Q) + Of(P \ Q)
    BY <2>1, <2>2, SumUnion
  <2>4. QED
    BY <2>1, <2>3
<1>6. \A p \in P : a[p] <= Of(P)
  BY <1>1, SumSigned
<1> HIDE DEF Of
<1>7. Sum(P) = Of(P) /\ Sum(Q) = Of(Q) /\ Sum(P \ Q) = Of(P \ Q)
  BY <1>2, <1>3
<1>8. Of(P) \in Nat /\ Of(Q) \in Nat
  BY <1>3, <1>4
<1>9. QED
  BY <1>5, <1>6, <1>7, <1>8, <1>p

--------------------------------------------------------------------------------
(* The invariant. *)

Fields == {"kind", "method", "plan", "first", "last", "start", "base", "remaining", "recognized", "initial",
           "refunded", "recognizedRefund", "ended", "transferred", "reserved", "originDate", "effectiveFrom",
           "supersedes", "generation", "status", "history"}
Statuses == {"active", "completed", "cancelled", "superseded", "terminated"}

NoteOK(note) == note.date \in Days /\ note.record.base \in Nat /\ note.record.initial \in Nat
HistoryOK(r) == (\E H : r.history \in Seq(H)) /\ \A k \in 1..Len(r.history) : NoteOK(r.history[k])

RecordOK(r) ==
  /\ DOMAIN r = Fields /\ r.kind \in Kinds /\ r.method \in Methods /\ r.status \in Statuses
  /\ r.first \in Days /\ r.first <= r.start /\ Scheduled(r)
  /\ r.remaining \in Nat /\ r.remaining <= r.base
  /\ r.recognized \in Nat /\ r.recognized + r.remaining <= Amount
  /\ r.initial \in Nat /\ r.reserved \in Nat /\ r.generation \in Nat
  /\ r.originDate \in Days /\ r.effectiveFrom \in 0..LastDay
  /\ HistoryOK(r)
RecordsOK ==
  /\ DOMAIN schedules \subseteq Schedules /\ closed \subseteq MonthStarts
  /\ \A s \in DOMAIN schedules : RecordOK(schedules[s])

\* What an allocation is of: a recognition of some generation of its schedule, or the
\* n-th change of it.
AllocOK(x, v, R) ==
  /\ v.schedule \in DOMAIN R /\ v.date \in Days /\ v.from \in Days /\ v.from <= v.date /\ v.amount \in Nat
  /\ \/ \E g \in 0..R[v.schedule].generation : x = Id("recognition", v.schedule, g, v.date)
     \/ \E n \in 1..Len(R[v.schedule].history) : x = Id("change", v.schedule, n, 0)
AllocsOK ==
  /\ IsFiniteSet(DOMAIN schedAllocs)
  /\ \A x \in DOMAIN schedAllocs : AllocOK(x, schedAllocs[x], schedules)

\* Entries are dated, and are the payment, a reclassification, or of an allocation.
EntryOK(e) == e.date \in Days /\ e.lines \in [ScheduleAccounts -> Int]
LedgerOK ==
  /\ IsFiniteSet(DOMAIN schedLedger)
  /\ \A e \in DOMAIN schedLedger :
       /\ EntryOK(schedLedger[e])
       /\ e = Payment \/ (\E s \in DOMAIN schedules : e = Id("reclass", s, 0, 0)) \/ e \in DOMAIN schedAllocs
  /\ DOMAIN schedules # {} => Payment \in DOMAIN schedLedger
  /\ \A a \in ScheduleAccounts : Paid(a) \in {0, Amount, -Amount}

\* A recognition of the present generation is an installment; those of earlier ones are
\* before its service.
GenerationsFollow ==
  \A s \in DOMAIN schedules : \A x \in Recognitions(s) :
    /\ x[3] < schedules[s].generation => schedAllocs[x].date < schedules[s].start
    /\ (schedules[s].status = "active" /\ x[3] = schedules[s].generation) =>
         \E p \in Installments(schedules[s]) : p.date = schedAllocs[x].date /\ p.from = schedAllocs[x].from

WellFormed == RecordsOK /\ AllocsOK /\ LedgerOK
SchedInv == WellFormed /\ RemainderIsScheduled /\ GenerationsFollow /\ DaysRecognizedOnce /\ ControlsMatchRecords
--------------------------------------------------------------------------------
(* What transactions write. *)
Wrote(g, e, f) ==
  /\ DOMAIN g = DOMAIN e \union DOMAIN f
  /\ \A x \in DOMAIN e : g[x] = e[x]
  /\ \A x \in DOMAIN f \ DOMAIN e : g[x] = f[x]

\* What a transaction writes over what there was.
LEMMA OverWrites ==
  /\ \A f, g : Wrote(Over(f, g), f, g)
  /\ \A f : Wrote(f, <<>>, f)
<1>1. \A f, g : Wrote(Over(f, g), f, g)
  BY DEF Wrote, Over
<1>2. \A f : Wrote(f, <<>>, f)
  BY DEF Wrote
<1>3. QED
  BY <1>1, <1>2

\* One more note in the history of a record.
LEMMA HistoryGrows ==
  ASSUME NEW r, HistoryOK(r), NEW note, NoteOK(note), NEW q, q.history = Append(r.history, note)
  PROVE  /\ HistoryOK(q) /\ Len(r.history) \in Nat /\ Len(q.history) = Len(r.history) + 1
         /\ DOMAIN r.history = 1..Len(r.history) /\ DOMAIN q.history = 1..Len(r.history) + 1
         /\ \A k \in 1..Len(r.history) : q.history[k] = r.history[k]
         /\ q.history[Len(r.history) + 1] = note
<1>1. PICK H : r.history \in Seq(H)
  BY DEF HistoryOK
<1> DEFINE G == H \union {note}
<1>2. r.history \in Seq(G)
  <2>1. \A k \in 1..Len(r.history) : r.history[k] \in G
    BY <1>1
  <2>2. r.history = [k \in 1..Len(r.history) |-> r.history[k]] /\ Len(r.history) \in Nat
    BY <1>1
  <2> HIDE DEF G
  <2>3. QED
    BY <2>1, <2>2, SeqDef
<1>3. note \in G
  OBVIOUS
<1> HIDE DEF G
<1>4. q.history \in Seq(G) /\ Len(q.history) = Len(r.history) + 1 /\ Len(r.history) \in Nat
  BY <1>2, <1>3
<1>5. /\ \A k \in 1..Len(r.history) : q.history[k] = r.history[k]
      /\ q.history[Len(r.history) + 1] = note
  BY <1>2, <1>3
<1>6. DOMAIN r.history = 1..Len(r.history) /\ DOMAIN q.history = 1..Len(r.history) + 1
  BY <1>2, <1>4
<1>7. HistoryOK(q)
  <2>1. \A k \in 1..Len(q.history) : NoteOK(q.history[k])
    <3> TAKE k \in 1..Len(q.history)
    <3>1. k \in 1..Len(r.history) \/ k = Len(r.history) + 1
      BY <1>4
    <3>2. QED
      BY <3>1, <1>5 DEF HistoryOK
  <2>2. QED
    BY <2>1, <1>4 DEF HistoryOK
<1>8. QED
  BY <1>4, <1>5, <1>6, <1>7

\* Records of a transaction stay records of their schedules.
Continues(r, q) == q.generation >= r.generation /\ Len(q.history) >= Len(r.history)
\* The records of a transaction go on from those there were.
LEMMA RecordsGrow ==
  ASSUME RecordsOK, NEW R, Wrote(schedules', R, schedules), DOMAIN R \subseteq Schedules, closed' \subseteq MonthStarts,
         \A s \in DOMAIN R : RecordOK(R[s]),
         \A s \in DOMAIN R \cap DOMAIN schedules : Continues(schedules[s], R[s])
  PROVE  /\ RecordsOK' /\ DOMAIN schedules' = DOMAIN R \union DOMAIN schedules
         /\ \A s \in DOMAIN R : schedules'[s] = R[s]
         /\ \A s \in DOMAIN schedules \ DOMAIN R : schedules'[s] = schedules[s]
         /\ \A s \in DOMAIN schedules : Continues(schedules[s], schedules'[s])
<1>1. /\ DOMAIN schedules' = DOMAIN R \union DOMAIN schedules
      /\ \A s \in DOMAIN R : schedules'[s] = R[s]
      /\ \A s \in DOMAIN schedules \ DOMAIN R : schedules'[s] = schedules[s]
  BY DEF Wrote
<1>2. RecordsOK'
  <2>1. \A s \in DOMAIN schedules' : RecordOK(schedules'[s])
    BY <1>1 DEF RecordsOK
  <2>2. DOMAIN schedules' \subseteq Schedules
    BY <1>1 DEF RecordsOK
  <2>3. QED
    BY <2>1, <2>2 DEF RecordsOK, RecordOK, HistoryOK, NoteOK, Scheduled, Service, Days
<1>3. \A s \in DOMAIN schedules : Continues(schedules[s], schedules'[s])
  <2> TAKE s \in DOMAIN schedules
  <2>1. CASE s \in DOMAIN R
    BY <2>1, <1>1
  <2>2. CASE s \notin DOMAIN R
    <3>1. schedules'[s] = schedules[s]
      BY <2>2, <1>1
    <3>2. schedules[s].generation \in Nat /\ \E H : schedules[s].history \in Seq(H)
      BY DEF RecordsOK, RecordOK, HistoryOK
    <3>3. schedules[s].generation >= schedules[s].generation /\ Len(schedules[s].history) >= Len(schedules[s].history)
      BY <3>2
    <3>4. QED
      BY <3>1, <3>3 DEF Continues
  <2>3. QED
    BY <2>1, <2>2
<1>4. QED
  BY <1>1, <1>2, <1>3

\* What is known of an allocation stays true of it.
LEMMA AllocsGrow ==
  ASSUME RecordsOK, AllocsOK, RecordsOK', \A s \in DOMAIN schedules : s \in DOMAIN schedules' /\ Continues(schedules[s], schedules'[s]),
         NEW a, Wrote(schedAllocs', a, schedAllocs), IsFiniteSet(DOMAIN a),
         \A x \in DOMAIN a : AllocOK(x, a[x], schedules')
  PROVE  AllocsOK' /\ DOMAIN schedAllocs' = DOMAIN a \union DOMAIN schedAllocs
<1>1. /\ DOMAIN schedAllocs' = DOMAIN a \union DOMAIN schedAllocs
      /\ \A x \in DOMAIN a : schedAllocs'[x] = a[x]
      /\ \A x \in DOMAIN schedAllocs \ DOMAIN a : schedAllocs'[x] = schedAllocs[x]
  BY DEF Wrote
<1>2. ASSUME NEW x \in DOMAIN schedAllocs, NEW v, v = schedAllocs[x] PROVE AllocOK(x, v, schedules')
  <2>1. AllocOK(x, v, schedules)
    BY <1>2 DEF AllocsOK
  <2> DEFINE s == v.schedule
  <2>2. s \in DOMAIN schedules /\ s \in DOMAIN schedules' /\ Continues(schedules[s], schedules'[s])
    BY <2>1 DEF AllocOK
  <2>3. /\ schedules[s].generation \in Nat /\ schedules'[s].generation \in Nat
        /\ Len(schedules[s].history) \in Nat /\ Len(schedules'[s].history) \in Nat
    <3>1. RecordOK(schedules[s]) /\ RecordOK(schedules'[s])
      BY <2>2 DEF RecordsOK, RecordOK, HistoryOK, NoteOK, Scheduled, Service, Days
    <3>2. schedules[s].generation \in Nat /\ schedules'[s].generation \in Nat
      BY <3>1 DEF RecordOK
    <3>3. \A r : RecordOK(r) => Len(r.history) \in Nat
      <4> SUFFICES ASSUME NEW r, RecordOK(r) PROVE Len(r.history) \in Nat
        OBVIOUS
      <4>1. PICK H : r.history \in Seq(H)
        BY DEF RecordOK, HistoryOK
      <4>2. QED
        BY <4>1
    <3>4. QED
      BY <3>1, <3>2, <3>3
  <2>4. 0..schedules[s].generation \subseteq 0..schedules'[s].generation
    BY <2>2, <2>3 DEF Continues
  <2>5. 1..Len(schedules[s].history) \subseteq 1..Len(schedules'[s].history)
    BY <2>2, <2>3 DEF Continues
  <2>6. QED
    BY <2>1, <2>2, <2>4, <2>5 DEF AllocOK
<1>3. \A x \in DOMAIN schedAllocs' : AllocOK(x, schedAllocs'[x], schedules')
  BY <1>1, <1>2
<1>4. IsFiniteSet(DOMAIN schedAllocs')
  BY <1>1, FS_Union DEF AllocsOK
<1>5. QED
  BY <1>1, <1>3, <1>4 DEF AllocsOK, AllocOK, Days

\* Entries stay what they were, the payment too when it is not written again.
LEMMA LedgerGrows ==
  ASSUME LedgerOK, DOMAIN schedules \subseteq DOMAIN schedules', DOMAIN schedAllocs \subseteq DOMAIN schedAllocs',
         NEW e, Wrote(schedLedger', e, schedLedger), IsFiniteSet(DOMAIN e), Payment \notin DOMAIN e, Payment \in DOMAIN schedLedger,
         \A x \in DOMAIN e : /\ EntryOK(e[x])
                             /\ (\E s \in DOMAIN schedules' : x = Id("reclass", s, 0, 0)) \/ x \in DOMAIN schedAllocs'
  PROVE  LedgerOK' /\ \A a : Paid(a)' = Paid(a)
<1>1. /\ DOMAIN schedLedger' = DOMAIN e \union DOMAIN schedLedger
      /\ \A x \in DOMAIN e : schedLedger'[x] = e[x]
      /\ \A x \in DOMAIN schedLedger \ DOMAIN e : schedLedger'[x] = schedLedger[x]
  BY DEF Wrote
<1>2. Payment' = Payment
  BY DEF Payment, Id
<1>3. schedLedger'[Payment] = schedLedger[Payment] /\ Payment \in DOMAIN schedLedger'
  BY <1>1
<1>4. \A a : Paid(a)' = Paid(a)
  BY <1>2, <1>3 DEF Paid
<1>5. IsFiniteSet(DOMAIN schedLedger')
  <2>1. IsFiniteSet(DOMAIN schedLedger)
    BY DEF LedgerOK
  <2>2. IsFiniteSet(DOMAIN e \union DOMAIN schedLedger)
    BY <2>1, FS_Union
  <2>3. QED
    BY <2>2, <1>1
<1>6. \A x \in DOMAIN schedLedger' :
        /\ EntryOK(schedLedger'[x])
        /\ x = Payment \/ (\E s \in DOMAIN schedules' : x = Id("reclass", s, 0, 0)) \/ x \in DOMAIN schedAllocs'
  <2> TAKE x \in DOMAIN schedLedger'
  <2>1. CASE x \in DOMAIN e
    BY <2>1, <1>1
  <2>2. CASE x \notin DOMAIN e
    BY <2>2, <1>1 DEF LedgerOK
  <2>3. QED
    BY <2>1, <2>2
<1>7. \A a \in ScheduleAccounts : Paid(a)' \in {0, Amount, -Amount}
  BY <1>4 DEF LedgerOK
<1>8. QED
  BY <1>2, <1>3, <1>4, <1>5, <1>6, <1>7 DEF LedgerOK, EntryOK, Days, Id

--------------------------------------------------------------------------------
(* Recognitions. *)

\* Parts of a schedule that can be recognized: apart from each other and from what was.
Recognizable(s, P) ==
  /\ s \in DOMAIN schedules /\ schedules[s].status = "active"
  /\ IsFiniteSet(P) /\ \A p \in P : IsPart(p) /\ schedules[s].start <= p.from
  /\ \A p, q \in P : p # q => Apart(p, q)
  /\ \A p \in P : \A x \in Recognitions(s) : Apart(p, schedAllocs[x])

\* Reading an id.
LEMMA RecognitionIs ==
  ASSUME WellFormed, NEW s, NEW x \in Recognitions(s)
  PROVE  /\ s \in DOMAIN schedules /\ schedAllocs[x].schedule = s
         /\ x[3] \in 0..schedules[s].generation /\ x = Id("recognition", s, x[3], schedAllocs[x].date)
         /\ schedAllocs[x].date \in Int /\ schedAllocs[x].from \in Int /\ schedAllocs[x].from <= schedAllocs[x].date
         /\ schedAllocs[x].date \in Days
<1>1. x \in DOMAIN schedAllocs /\ x[1] = "recognition" /\ x[2] = s
  BY DEF Recognitions
<1>2. AllocOK(x, schedAllocs[x], schedules)
  BY <1>1 DEF WellFormed, AllocsOK
<1>3. PICK g \in 0..schedules[schedAllocs[x].schedule].generation :
        x = Id("recognition", schedAllocs[x].schedule, g, schedAllocs[x].date)
  BY <1>1, <1>2 DEF AllocOK, Id
<1>4. x[2] = schedAllocs[x].schedule /\ x[3] = g
  BY <1>3 DEF Id
<1>5. schedAllocs[x].date \in Int /\ schedAllocs[x].from \in Int
  BY <1>2, DaysFinite DEF AllocOK
<1>6. QED
  BY <1>1, <1>2, <1>3, <1>4, <1>5 DEF AllocOK

\* What of an installment that is not posted yet.
LEMMA UnpostedApart ==
  ASSUME SchedInv, NEW s \in Active, NEW p \in Unposted(s, schedules[s]), NEW x \in Recognitions(s)
  PROVE  Apart(p, schedAllocs[x])
<1> DEFINE r == schedules[s]
<1>1. WellFormed /\ s \in DOMAIN schedules /\ r.status = "active" /\ RecordOK(r) /\ GenerationsFollow
  BY DEF SchedInv, WellFormed, RecordsOK, Active
<1>2. p \in Installments(r) /\ RecognitionId(s, r, p) \notin DOMAIN schedAllocs
  BY DEF Unposted
<1>3. /\ x[3] \in 0..r.generation /\ x = Id("recognition", s, x[3], schedAllocs[x].date) /\ schedAllocs[x].date \in Int
      /\ x \in DOMAIN schedAllocs
  BY <1>1, RecognitionIs DEF Recognitions
<1>4. IsPart(p) /\ r.start <= p.from /\ \A q \in Installments(r) : q # p => Apart(p, q)
  BY <1>1, <1>2, InstallmentsAre DEF RecordOK
<1>5. p.from \in Int /\ r.start \in Int /\ r.generation \in Nat
  BY <1>1, <1>4, DaysFinite DEF RecordOK, IsPart, Scheduled, Service
<1>6. CASE x[3] < r.generation
  <2>1. schedAllocs[x].date < r.start
    BY <1>1, <1>6 DEF GenerationsFollow
  <2>2. schedAllocs[x].date < p.from
    BY <2>1, <1>3, <1>4, <1>5
  <2>3. QED
    BY <2>2 DEF Apart
<1>7. CASE x[3] = r.generation
  <2>1. PICK q \in Installments(r) : q.date = schedAllocs[x].date /\ q.from = schedAllocs[x].from
    BY <1>1, <1>7 DEF GenerationsFollow
  <2>2. q # p
    <3> SUFFICES ASSUME q = p PROVE FALSE
      OBVIOUS
    <3>1. x = RecognitionId(s, r, p)
      BY <1>3, <1>7, <2>1 DEF RecognitionId
    <3>2. QED
      BY <3>1, <1>2, <1>3
  <2>3. Apart(p, q)
    BY <2>2, <1>4
  <2>4. QED
    BY <2>1, <2>3 DEF Apart
<1>8. QED
  BY <1>3, <1>5, <1>6, <1>7

\* What is due of an active schedule can be recognized.
LEMMA DueRecognizable ==
  ASSUME SchedInv, NEW s \in Active, NEW P, P \subseteq Unposted(s, schedules[s])
  PROVE  Recognizable(s, P)
<1> DEFINE r == schedules[s]
<1>1. s \in DOMAIN schedules /\ r.status = "active" /\ RecordOK(r)
  BY DEF SchedInv, WellFormed, RecordsOK, Active
<1>2. P \subseteq Installments(r)
  BY DEF Unposted
<1>3. /\ IsFiniteSet(Installments(r))
      /\ \A p \in Installments(r) : IsPart(p) /\ r.start <= p.from
      /\ \A p, q \in Installments(r) : p # q => Apart(p, q)
  BY <1>1, InstallmentsAre DEF RecordOK
<1>4. IsFiniteSet(P)
  BY <1>2, <1>3, FS_Subset
<1>5. \A p \in P : \A x \in Recognitions(s) : Apart(p, schedAllocs[x])
  BY UnpostedApart
<1>6. QED
  BY <1>1, <1>2, <1>3, <1>4, <1>5 DEF Recognizable

\* The service up to the day it ended: the last part is cut there.
LEMMA EarnedRecognizable ==
  ASSUME SchedInv, NEW s \in Active, NEW e \in Days, \A d \in PostedDates(s) : e >= d
  PROVE  Recognizable(s, EarnedParts(s, e))
<1> DEFINE r == schedules[s]
           I == Installments(r)
           U == {p \in Unposted(s, r) : p.date <= e}
           Y == {y \in I : r.method # "custom" /\ y.from <= e /\ y.date > e /\ Prorated(r, y, e) # 0}
           m == [p \in Y |-> [date |-> e, from |-> p.from, amount |-> Prorated(r, p, e)]]
           V == {m[p] : p \in Y}
<1>1. s \in DOMAIN schedules /\ r.status = "active" /\ RecordOK(r) /\ e \in Int /\ WellFormed /\ GenerationsFollow
  BY DaysFinite DEF SchedInv, WellFormed, RecordsOK, Active
<1>2. /\ IsFiniteSet(I)
      /\ \A p \in I : IsPart(p) /\ r.start <= p.from
      /\ \A p, q \in I : p # q => Apart(p, q)
  BY <1>1, InstallmentsAre DEF RecordOK
<1>3. \A p \in I : p.date \in Int /\ p.from \in Int /\ p.from <= p.date /\ p.amount \in Nat /\ p.from \in Days /\ p.date \in Days
  BY <1>2, DaysFinite DEF IsPart
<1>4. EarnedParts(s, e) = U \union V
  <2>1. V = {[date |-> e, from |-> p.from, amount |-> Prorated(r, p, e)] : p \in Y}
    OBVIOUS
  <2>2. QED
    BY <2>1 DEF EarnedParts
<1>5. U \subseteq I /\ U \subseteq Unposted(s, r) /\ Y \subseteq I
  BY DEF Unposted
<1>6. IsFiniteSet(U \union V)
  <2>1. IsFiniteSet(U) /\ IsFiniteSet(Y)
    BY <1>2, <1>5, FS_Subset
  <2>2. IsFiniteSet(V)
    <3> HIDE DEF Y, m
    <3>1. QED
      BY <2>1, FiniteImage
  <2> HIDE DEF U, V
  <2>3. QED
    BY <2>1, <2>2, FS_Union
<1>7. \A v \in V : \E p \in Y : v = m[p] /\ v.date = e /\ v.from = p.from /\ v.amount = Prorated(r, p, e)
                             /\ v = [date |-> v.date, from |-> v.from, amount |-> v.amount]
  <2> TAKE v \in V
  <2>1. PICK p \in Y : v = m[p]
    OBVIOUS
  <2>2. m[p] = [date |-> e, from |-> p.from, amount |-> Prorated(r, p, e)]
    OBVIOUS
  <2> HIDE DEF V, m, Y
  <2>3. v.date = e /\ v.from = p.from /\ v.amount = Prorated(r, p, e)
    BY <2>1, <2>2
  <2>4. QED
    BY <2>1, <2>2, <2>3
<1>8. \A p \in Y : Prorated(r, p, e) \in Nat
  <2> TAKE p \in Y
  <2> DEFINE n == e - p.from + 1
             k == p.date - p.from + 1
  <2>1. n \in Nat /\ k \in Nat /\ k > 0 /\ p.amount \in Nat
    BY <1>1, <1>3
  <2>2. Prorated(r, p, e) = (p.amount * n) \div k
    BY DEF Prorated
  <2> HIDE DEF n, k
  <2>3. p.amount * n \in Nat
    BY <2>1
  <2>4. QED
    BY <2>1, <2>2, <2>3, DivIs
<1>9. \A v \in V : IsPart(v) /\ r.start <= v.from
  <2> SUFFICES ASSUME NEW v \in V PROVE IsPart(v) /\ r.start <= v.from
    OBVIOUS
  <2>1. PICK p \in Y : v.date = e /\ v.from = p.from /\ v.amount = Prorated(r, p, e)
                       /\ v = [date |-> v.date, from |-> v.from, amount |-> v.amount]
    BY <1>7
  <2>2. p \in I /\ p.from <= e
    OBVIOUS
  <2>3. QED
    BY <2>1, <2>2, <1>2, <1>3, <1>8 DEF IsPart
\* The part that is cut is one, and apart from all that ended before.
<1>10. \A v \in V : \A p \in I : p.date <= e => Apart(v, p) /\ Apart(p, v)
  <2> SUFFICES ASSUME NEW v \in V, NEW p \in I, p.date <= e PROVE Apart(v, p) /\ Apart(p, v)
    OBVIOUS
  <2>1. PICK y \in Y : v.date = e /\ v.from = y.from
    BY <1>7
  <2>2. y \in I /\ y.date > e
    OBVIOUS
  <2>3. y # p /\ y.date \in Int /\ p.date \in Int /\ p.from \in Int /\ p.from <= p.date /\ y.from \in Int
    BY <2>2, <1>1, <1>3
  <2>4. y.date < p.from \/ p.date < y.from
    BY <2>2, <2>3, <1>2 DEF Apart
  <2>5. p.date < y.from
    BY <2>2, <2>3, <2>4, <1>1
  <2>6. QED
    BY <2>1, <2>5 DEF Apart
<1>11. \A v, w \in V : v = w
  <2> SUFFICES ASSUME NEW v \in V, NEW w \in V PROVE v = w
    OBVIOUS
  <2>1. PICK y \in Y : v = m[y]
    BY <1>7
  <2>2. PICK z \in Y : w = m[z]
    BY <1>7
  <2>3. y \in I /\ z \in I /\ y.from <= e /\ z.from <= e /\ y.date > e /\ z.date > e
    OBVIOUS
  <2>4. y = z
    BY <2>3, <1>1, <1>2, <1>3 DEF Apart
  <2>5. QED
    BY <2>1, <2>2, <2>4
<1>12. \A v \in V : \A x \in Recognitions(s) : Apart(v, schedAllocs[x])
  <2> SUFFICES ASSUME NEW v \in V, NEW x \in Recognitions(s) PROVE Apart(v, schedAllocs[x])
    OBVIOUS
  <2>1. x[3] \in 0..r.generation /\ schedAllocs[x].date \in Int /\ x \in DOMAIN schedAllocs
    BY <1>1, RecognitionIs DEF Recognitions
  <2>2. schedAllocs[x].date <= e
    <3>1. schedAllocs[x].date \in PostedDates(s)
      BY DEF PostedDates, Recognitions
    <3>2. QED
      BY <3>1, <2>1, <1>1
  <2>3. r.start \in Int /\ r.start <= v.from /\ v.from \in Int /\ r.generation \in Nat
    BY <1>1, <1>9, DaysFinite DEF RecordOK, IsPart, Scheduled, Service
  <2>4. CASE x[3] < r.generation
    <3>1. schedAllocs[x].date < r.start
      BY <1>1, <2>4 DEF GenerationsFollow
    <3>2. schedAllocs[x].date < v.from
      BY <3>1, <2>1, <2>3
    <3>3. QED
      BY <3>2 DEF Apart
  <2>5. CASE x[3] = r.generation
    <3>1. PICK q \in I : q.date = schedAllocs[x].date /\ q.from = schedAllocs[x].from
      BY <1>1, <2>5 DEF GenerationsFollow
    <3>2. Apart(v, q)
      BY <3>1, <2>2, <1>10
    <3>3. QED
      BY <3>1, <3>2 DEF Apart
  <2>6. QED
    BY <2>1, <2>3, <2>4, <2>5
<1>13. Recognizable(s, U)
  BY <1>5, DueRecognizable
<1>14. \A p \in U : p.date <= e /\ p \in I
  BY <1>5
<1> HIDE DEF U, V, Y, m, I
<1>15. \A p \in U \union V : \A q \in U \union V : p # q => Apart(p, q)
  <2>1. ASSUME NEW p \in U, NEW q \in U, p # q PROVE Apart(p, q)
    BY <2>1, <1>13 DEF Recognizable
  <2>2. ASSUME NEW p \in U, NEW q \in V PROVE Apart(p, q) /\ Apart(q, p)
    BY <1>10, <1>14
  <2>3. QED
    BY <2>1, <2>2, <1>11
<1>16. \A p \in U \union V : IsPart(p) /\ r.start <= p.from
  BY <1>9, <1>13 DEF Recognizable
<1>17. \A p \in U \union V : \A x \in Recognitions(s) : Apart(p, schedAllocs[x])
  BY <1>12, <1>13 DEF Recognizable
<1>18. QED
  BY <1>1, <1>4, <1>6, <1>15, <1>16, <1>17 DEF Recognizable

--------------------------------------------------------------------------------
(* A batch of recognitions. *)

PartIds(Q) == {PartId(q) : q \in Q}
Batch(S, D) == UNION {PartsOf(s, D[s]) : s \in S}
\* The parts of a batch are those of its schedules.
LEMMA PartsAre ==
  ASSUME NEW S, NEW D, NEW Q, Q = Batch(S, D)
  PROVE  /\ \A q \in Q : q.schedule \in S /\ q.part \in D[q.schedule] /\ q = [schedule |-> q.schedule, part |-> q.part]
         /\ \A s \in S : \A p \in D[s] : [schedule |-> s, part |-> p] \in Q
<1>1. \A q \in Q : \E s \in S : \E p \in D[s] : q = [schedule |-> s, part |-> p]
  BY DEF PartsOf, Batch
<1>2. \A s \in S : \A p \in D[s] : [schedule |-> s, part |-> p] \in Q
  BY DEF PartsOf, Batch
<1>3. \A q \in Q : q.schedule \in S /\ q.part \in D[q.schedule] /\ q = [schedule |-> q.schedule, part |-> q.part]
  <2> TAKE q \in Q
  <2>1. PICK s \in S : \E p \in D[s] : q = [schedule |-> s, part |-> p]
    BY <1>1
  <2>2. PICK p \in D[s] : q = [schedule |-> s, part |-> p]
    BY <2>1
  <2>3. QED
    BY <2>2
<1>4. QED
  BY <1>2, <1>3

\* A batch is finite.
LEMMA PartsFinite ==
  ASSUME NEW S, IsFiniteSet(S), NEW D, \A s \in S : IsFiniteSet(D[s])
  PROVE  IsFiniteSet(Batch(S, D))
<1> DEFINE U(T) == UNION {PartsOf(s, D[s]) : s \in T}
           B == {T \in SUBSET S : ~IsFiniteSet(U(T))}
<1> SUFFICES ASSUME B # {} PROVE FALSE
  BY S \in SUBSET S DEF Batch
<1>1. B \in SUBSET (SUBSET S)
  OBVIOUS
<1>2. PICK T \in B : \A V \in B : V \subseteq T => V = T
  <2> HIDE DEF B
  <2>1. QED
    BY <1>1, Smallest
<1>3. T # {}
  <2>1. U({}) = {}
    OBVIOUS
  <2>2. IsFiniteSet(U({}))
    BY <2>1, FS_EmptySet
  <2>3. QED
    BY <2>2, <1>2
<1>4. PICK s \in T : TRUE
  BY <1>3
<1>5. IsFiniteSet(U(T \ {s}))
  <2>1. T \ {s} \in SUBSET S /\ T \ {s} \subseteq T /\ T \ {s} # T
    BY <1>2, <1>4
  <2>2. T \ {s} \notin B
    BY <2>1, <1>2
  <2> HIDE DEF U
  <2>3. QED
    BY <2>1, <2>2
<1>6. IsFiniteSet(PartsOf(s, D[s]))
  <2> DEFINE m == [p \in D[s] |-> [schedule |-> s, part |-> p]]
  <2>1. IsFiniteSet(D[s])
    BY <1>2, <1>4
  <2>2. IsFiniteSet({m[p] : p \in D[s]})
    <3> HIDE DEF m
    <3>1. QED
      BY <2>1, FiniteImage
  <2>3. PartsOf(s, D[s]) = {m[p] : p \in D[s]}
    BY DEF PartsOf
  <2>4. QED
    BY <2>2, <2>3
<1>7. U(T) = U(T \ {s}) \union PartsOf(s, D[s])
  BY <1>4
<1>8. IsFiniteSet(U(T \ {s}) \union PartsOf(s, D[s]))
  <2> HIDE DEF U, B
  <2>1. QED
    BY <1>5, <1>6, FS_Union
<1>9. QED
  BY <1>2, <1>7, <1>8

\* What can be recognized was not: its id is free in the allocations and in the ledger.
LEMMA PartIsFresh ==
  ASSUME SchedInv, NEW s, NEW P, Recognizable(s, P), NEW p \in P
  PROVE  /\ RecognitionId(s, schedules[s], p) \notin DOMAIN schedAllocs
         /\ RecognitionId(s, schedules[s], p) \notin DOMAIN schedLedger
<1> DEFINE x == RecognitionId(s, schedules[s], p)
<1>1. WellFormed
  BY DEF SchedInv
<1>2. x[1] = "recognition" /\ x[2] = s /\ x[4] = p.date
  BY DEF RecognitionId, Id
<1>3. x \notin DOMAIN schedAllocs
  <2> SUFFICES ASSUME x \in DOMAIN schedAllocs PROVE FALSE
    OBVIOUS
  <2>1. x \in Recognitions(s)
    BY <1>2 DEF Recognitions
  <2>2. /\ x = Id("recognition", s, x[3], schedAllocs[x].date)
        /\ schedAllocs[x].date \in Int /\ schedAllocs[x].from \in Int /\ schedAllocs[x].from <= schedAllocs[x].date
    BY <1>1, <2>1, RecognitionIs
  <2>3. schedAllocs[x].date = p.date
    BY <2>2, <1>2 DEF Id
  <2>4. Apart(p, schedAllocs[x]) /\ IsPart(p)
    BY <2>1 DEF Recognizable
  <2>5. p.date \in Int /\ p.from \in Int /\ p.from <= p.date
    BY <2>4, DaysFinite DEF IsPart
  <2>6. QED
    BY <2>2, <2>3, <2>4, <2>5 DEF Apart
<1>4. x # Payment /\ \A n : x # Id("reclass", n, 0, 0)
  BY DEF RecognitionId, Id, Payment
<1>5. x \notin DOMAIN schedLedger
  BY <1>1, <1>3, <1>4 DEF WellFormed, LedgerOK
<1>6. QED
  BY <1>3, <1>5

EntryOf(q) == [date |-> q.part.date, lines |-> RecognitionLines(schedules[q.schedule], q.part.amount)]
AllocationOf(q) == [schedule |-> q.schedule, date |-> q.part.date, from |-> q.part.from, amount |-> q.part.amount, refund |-> 0]

\* Every part of a batch has an id of its own that the books do not hold yet, and
\* its entry and its allocation are written under it.
LEMMA BatchIs ==
  ASSUME SchedInv, NEW S, IsFiniteSet(S), NEW D, \A s \in S : Recognizable(s, D[s]),
         NEW Q, Q = Batch(S, D)
  PROVE  /\ IsFiniteSet(Q) /\ IsFiniteSet(PartIds(Q))
         /\ \A q, w \in Q : PartId(q) = PartId(w) => q = w
         /\ \A q \in Q : PartId(q) \in PartIds(Q)
         /\ \A x \in PartIds(Q) : \E q \in Q : x = PartId(q)
         /\ \A q \in Q : PartId(q) \notin DOMAIN schedAllocs /\ PartId(q) \notin DOMAIN schedLedger
         /\ DOMAIN Entries(Q) = PartIds(Q) /\ DOMAIN Allocations(Q) = PartIds(Q)
         /\ \A q \in Q : Entries(Q)[PartId(q)] = EntryOf(q) /\ Allocations(Q)[PartId(q)] = AllocationOf(q)
<1>1. /\ \A q \in Q : q.schedule \in S /\ q.part \in D[q.schedule] /\ q = [schedule |-> q.schedule, part |-> q.part]
      /\ \A s \in S : \A p \in D[s] : [schedule |-> s, part |-> p] \in Q
  BY PartsAre
<1>2. IsFiniteSet(Q)
  BY PartsFinite DEF Recognizable
<1>3. \A q, w \in Q : PartId(q) = PartId(w) => q = w
  <2> SUFFICES ASSUME NEW q \in Q, NEW w \in Q, PartId(q) = PartId(w) PROVE q = w
    OBVIOUS
  <2>1. q.schedule = w.schedule /\ q.part.date = w.part.date
    BY DEF PartId, RecognitionId, Id
  <2>2. q.part \in D[q.schedule] /\ w.part \in D[q.schedule] /\ Recognizable(q.schedule, D[q.schedule])
    BY <1>1, <2>1
  <2>3. IsPart(q.part) /\ IsPart(w.part) /\ (q.part # w.part => Apart(q.part, w.part))
    BY <2>2 DEF Recognizable
  <2>4. q.part.date \in Int /\ q.part.from \in Int /\ w.part.from \in Int /\ q.part.from <= q.part.date /\ w.part.from <= w.part.date
    BY <2>3, DaysFinite DEF IsPart
  <2>5. q.part = w.part
    BY <2>1, <2>3, <2>4 DEF Apart
  <2>6. QED
    BY <1>1, <2>1, <2>5
<1>4. \A q \in Q : PartId(q) \notin DOMAIN schedAllocs /\ PartId(q) \notin DOMAIN schedLedger
  <2> TAKE q \in Q
  <2>1. Recognizable(q.schedule, D[q.schedule]) /\ q.part \in D[q.schedule]
    BY <1>1
  <2>2. QED
    BY <2>1, PartIsFresh DEF PartId
<1>5. \A q \in Q : PartWith(Q, PartId(q)) = q
  BY <1>3 DEF PartWith
<1>6. DOMAIN Entries(Q) = PartIds(Q) /\ DOMAIN Allocations(Q) = PartIds(Q)
  BY DEF Entries, Allocations, PartIds
<1>7. \A q \in Q : Entries(Q)[PartId(q)] = EntryOf(q) /\ Allocations(Q)[PartId(q)] = AllocationOf(q)
  <2> TAKE q \in Q
  <2>1. PartId(q) \in {PartId(w) : w \in Q}
    OBVIOUS
  <2>2. QED
    BY <2>1, <1>5 DEF Entries, Allocations, EntryOf, AllocationOf
<1>8. IsFiniteSet(PartIds(Q))
  <2> DEFINE m == [q \in Q |-> PartId(q)]
  <2>1. PartIds(Q) = {m[q] : q \in Q}
    BY DEF PartIds
  <2>2. IsFiniteSet({m[q] : q \in Q})
    <3> HIDE DEF m
    <3>1. QED
      BY <1>2, FiniteImage
  <2>3. QED
    BY <2>1, <2>2
<1>9. (\A q \in Q : PartId(q) \in PartIds(Q)) /\ \A x \in PartIds(Q) : \E q \in Q : x = PartId(q)
  BY DEF PartIds
<1>10. QED
  BY <1>9, <1>2, <1>3, <1>4, <1>6, <1>7, <1>8

--------------------------------------------------------------------------------
(* What a batch adds to the accounts. *)
Controls == {"Prepaid", "Deferred", "Equipment", "Accumulated"}
Coef(r, a) == IF a = CreditAccount(r) THEN -NormalSign(r) ELSE 0

\* The lines of a recognition, on the control accounts.
LEMMA RecognitionLinesAre ==
  ASSUME NEW r, r.kind \in Kinds, NEW n \in Int
  PROVE  /\ RecognitionLines(r, n) \in [ScheduleAccounts -> Int]
         /\ \A a \in Controls : Coef(r, a) \in Int /\ RecognitionLines(r, n)[a] = Coef(r, a) * n
<1> DEFINE e == IF r.kind = "depreciation" THEN "Depreciation" ELSE Category(r)
           b == CreditAccount(r)
<1>1. /\ e \in ScheduleAccounts \ Controls /\ b \in Controls /\ NormalSign(r) \in {1, -1} /\ Controls \subseteq ScheduleAccounts
  BY DEF Kinds, Category, CreditAccount, ControlOf, NormalSign, Controls, ScheduleAccounts
<1>2. RecognitionLines(r, n) =
        [a \in ScheduleAccounts |-> IF a \in {e, b} THEN IF a = e THEN NormalSign(r) * n ELSE -(NormalSign(r) * n) ELSE 0]
  BY DEF RecognitionLines, Two, Lines
<1>3. NormalSign(r) * n \in Int /\ -(NormalSign(r) * n) \in Int
  BY <1>1
<1> HIDE DEF e
<1>4. RecognitionLines(r, n) \in [ScheduleAccounts -> Int]
  BY <1>2, <1>3
<1>5. ASSUME NEW a \in Controls PROVE Coef(r, a) \in Int /\ RecognitionLines(r, n)[a] = Coef(r, a) * n
  <2>1. a \in ScheduleAccounts /\ a # e
    BY <1>1
  <2>2. RecognitionLines(r, n)[a] = IF a = b THEN -(NormalSign(r) * n) ELSE 0
    BY <2>1, <1>2
  <2>3. CASE a = b
    <3>1. Coef(r, a) = -NormalSign(r) /\ -(NormalSign(r) * n) = (-NormalSign(r)) * n
      BY <2>3, <1>1 DEF Coef
    <3>2. QED
      BY <3>1, <2>2, <2>3, <1>1
  <2>4. CASE a # b
    <3>1. Coef(r, a) = 0 /\ 0 * n = 0
      BY <2>4 DEF Coef
    <3>2. QED
      BY <3>1, <2>2, <2>4
  <2>5. QED
    BY <2>3, <2>4
<1>6. QED
  BY <1>4, <1>5

\* A sum over a batch, schedule by schedule.
LEMMA SumNested ==
  ASSUME NEW S, IsFiniteSet(S), NEW D, \A s \in S : IsFiniteSet(D[s]) /\ \A p \in D[s] : IsPart(p),
         NEW c, \A s \in S : c[s] \in Int
  PROVE  SumFunctionOnSet([q \in Batch(S, D) |-> c[q.schedule] * q.part.amount], Batch(S, D))
           = SumFunctionOnSet([s \in S |-> c[s] * Sum(D[s])], S)
<1> DEFINE f == [q \in Batch(S, D) |-> c[q.schedule] * q.part.amount]
           h == [s \in S |-> c[s] * Sum(D[s])]
           B == {T \in SUBSET S : SumFunctionOnSet(f, Batch(T, D)) # SumFunctionOnSet(h, T)}
<1> SUFFICES ASSUME B # {} PROVE FALSE
  BY S \in SUBSET S
<1>1. B \in SUBSET (SUBSET S)
  OBVIOUS
<1>2. PICK T \in B : \A V \in B : V \subseteq T => V = T
  <2> HIDE DEF B
  <2>1. QED
    BY <1>1, Smallest
<1>3. T # {}
  <2>1. Batch({}, D) = {}
    BY DEF Batch
  <2>2. {} \notin B
    BY <2>1, SumEmpty
  <2>3. QED
    BY <2>2, <1>2
<1>4. PICK s \in T : TRUE
  BY <1>3
<1> DEFINE W == T \ {s}
           P == PartsOf(s, D[s])
<1>5. W \in SUBSET S /\ W \subseteq T /\ W # T /\ T \in SUBSET S /\ s \in S /\ s \notin W /\ T = W \union {s}
  BY <1>2, <1>4
<1>6. SumFunctionOnSet(f, Batch(W, D)) = SumFunctionOnSet(h, W)
  <2>1. W \notin B
    BY <1>2, <1>5
  <2>2. QED
    BY <2>1, <1>5
<1>7. /\ \A q \in Batch(S, D) : q.schedule \in S /\ q.part \in D[q.schedule]
      /\ \A q \in Batch(W, D) : q.schedule \in W
      /\ \A q \in P : q.schedule = s
  BY PartsAre DEF PartsOf
<1>8. \A q \in Batch(S, D) : f[q] \in Int
  <2> TAKE q \in Batch(S, D)
  <2>1. q.schedule \in S /\ IsPart(q.part)
    BY <1>7
  <2>2. c[q.schedule] \in Int /\ q.part.amount \in Int
    BY <2>1 DEF IsPart
  <2>3. QED
    BY <2>2
<1>9. \A t \in S : h[t] \in Int
  <2> TAKE t \in S
  <2>1. Sum(D[t]) \in Nat
    BY SumParts
  <2>2. QED
    BY <2>1
<1>10. Batch(T, D) = Batch(W, D) \union P /\ Batch(T, D) \subseteq Batch(S, D)
  BY <1>5 DEF Batch
<1>11. Batch(W, D) \cap P = {}
  BY <1>5, <1>7
<1>12. IsFiniteSet(Batch(W, D)) /\ IsFiniteSet(P) /\ IsFiniteSet(W)
  <2>1. IsFiniteSet(W)
    BY <1>5, FS_Subset
  <2>2. IsFiniteSet(Batch(W, D))
    BY <2>1, <1>5, PartsFinite
  <2>3. IsFiniteSet(Batch(T, D))
    <3>1. IsFiniteSet(T)
      BY <1>5, FS_Subset
    <3>2. QED
      BY <3>1, <1>5, PartsFinite
  <2>4. P \subseteq Batch(T, D)
    BY <1>10
  <2>5. QED
    BY <2>1, <2>2, <2>3, <2>4, FS_Subset
<1>13. SumFunctionOnSet(f, P) = c[s] * Sum(D[s])
  <2> DEFINE m == [p \in D[s] |-> [schedule |-> s, part |-> p]]
             g == [p \in D[s] |-> p.amount]
             k == [p \in D[s] |-> c[s] * p.amount]
  <2>1. IsFiniteSet(D[s]) /\ (\A p \in D[s] : p.amount \in Int) /\ c[s] \in Int
    BY <1>5 DEF IsPart
  <2>2. P = {m[p] : p \in D[s]}
    BY DEF PartsOf
  <2>3. \A p, q \in D[s] : m[p] = m[q] => p = q
    OBVIOUS
  <2>4. \A p \in D[s] : m[p] \in P /\ m[p].schedule = s /\ m[p].part = p
    BY <2>2
  <2>5. \A p \in D[s] : k[p] \in Int /\ k[p] = f[m[p]]
    <3> TAKE p \in D[s]
    <3>1. m[p] \in Batch(S, D)
      BY <2>4, <1>10
    <3>2. f[m[p]] = c[m[p].schedule] * m[p].part.amount
      BY <3>1
    <3>3. f[m[p]] = c[s] * p.amount
      BY <3>2, <2>4
    <3>4. QED
      BY <3>3, <2>1
  <2>6. SumFunctionOnSet(k, D[s]) = c[s] * SumFunctionOnSet(g, D[s])
    <3>1. \A p \in D[s] : g[p] \in Int /\ k[p] = c[s] * g[p]
      BY <2>1
    <3> HIDE DEF g, k
    <3>2. QED
      BY <3>1, <2>1, SumScaled
  <2>7. SumFunctionOnSet(f, P) = SumFunctionOnSet(k, D[s])
    <3> HIDE DEF f, m, k, P
    <3> DEFINE E == D[s]
    <3>1. SumFunctionOnSet(f, {m[p] : p \in E}) = SumFunctionOnSet(k, E)
      <4> HIDE DEF E
      <4>1. IsFiniteSet(E) /\ (\A p, q \in E : m[p] = m[q] => p = q) /\ \A p \in E : k[p] \in Int /\ k[p] = f[m[p]]
        BY ONLY <2>1, <2>3, <2>5 DEF E
      <4>2. QED
        BY ONLY <4>1, SumImage
    <3>2. QED
      BY <3>1, <2>2
  <2>8. Sum(D[s]) = SumFunctionOnSet(g, D[s])
    BY SumAll DEF Sum
  <2>9. QED
    BY <2>6, <2>7, <2>8
<1>14. SumFunctionOnSet(f, Batch(T, D)) = SumFunctionOnSet(f, Batch(W, D)) + SumFunctionOnSet(f, P)
  <2>1. \A q \in Batch(W, D) \union P : f[q] \in Int
    BY <1>8, <1>10
  <2> HIDE DEF f, P, W
  <2>2. SumFunctionOnSet(f, Batch(W, D) \union P) = SumFunctionOnSet(f, Batch(W, D)) + SumFunctionOnSet(f, P)
    BY <2>1, <1>11, <1>12, SumUnion
  <2>3. QED
    BY <2>2, <1>10
<1>15. SumFunctionOnSet(h, T) = SumFunctionOnSet(h, W) + h[s]
  <2>1. \A t \in W \union {s} : h[t] \in Int
    BY <1>5, <1>9
  <2> HIDE DEF h, W
  <2>2. SumFunctionOnSet(h, W \union {s}) = SumFunctionOnSet(h, W) + h[s]
    BY <2>1, <1>5, <1>12, SumAdd
  <2>3. QED
    BY <2>2, <1>5
<1>16. h[s] = c[s] * Sum(D[s])
  BY <1>5
<1>17. T \notin B
  <2> HIDE DEF f, h, W, P
  <2>1. QED
    BY <1>6, <1>13, <1>14, <1>15, <1>16
<1>18. QED
  BY <1>2, <1>17

\* What a batch of recognitions adds to a control account.
LEMMA SumBatch ==
  ASSUME SchedInv, NEW S, IsFiniteSet(S), NEW D, \A s \in S : Recognizable(s, D[s]),
         NEW Q, Q = Batch(S, D), NEW a \in Controls, NEW f, \A x \in DOMAIN Entries(Q) : f[x] = Entries(Q)[x].lines[a]
  PROVE  /\ SumFunctionOnSet(f, DOMAIN Entries(Q))
             = SumFunctionOnSet([s \in S |-> Coef(schedules[s], a) * Sum(D[s])], S)
         /\ \A s \in S : Coef(schedules[s], a) \in Int /\ Sum(D[s]) \in Nat
<1> DEFINE m == [q \in Q |-> PartId(q)]
           c == [s \in S |-> Coef(schedules[s], a)]
           h == [q \in Q |-> c[q.schedule] * q.part.amount]
<1>1. /\ IsFiniteSet(Q)
      /\ \A q, w \in Q : PartId(q) = PartId(w) => q = w
      /\ DOMAIN Entries(Q) = PartIds(Q) /\ \A q \in Q : PartId(q) \in PartIds(Q)
  BY BatchIs
<1>e. \A q \in Q : Entries(Q)[PartId(q)].lines = RecognitionLines(schedules[q.schedule], q.part.amount)
  <2> TAKE q \in Q
  <2>1. Entries(Q)[PartId(q)] = EntryOf(q)
    BY BatchIs
  <2>2. QED
    BY <2>1 DEF EntryOf
<1>2. \A s \in S : s \in DOMAIN schedules /\ schedules[s].kind \in Kinds /\ IsFiniteSet(D[s]) /\ \A p \in D[s] : IsPart(p)
  BY DEF Recognizable, SchedInv, WellFormed, RecordsOK, RecordOK
<1>3. \A s \in S : c[s] \in Int /\ Coef(schedules[s], a) \in Int /\ Sum(D[s]) \in Nat
  <2> TAKE s \in S
  <2>1. Coef(schedules[s], a) \in Int
    BY <1>2, RecognitionLinesAre, 0 \in Int
  <2>2. Sum(D[s]) \in Nat
    BY <1>2, SumParts
  <2>3. QED
    BY <2>1, <2>2
<1>4. \A q \in Q : q.schedule \in S /\ q.part \in D[q.schedule]
  BY PartsAre
<1>5. \A q \in Q : h[q] \in Int /\ h[q] = f[m[q]]
  <2> TAKE q \in Q
  <2>1. q.schedule \in S /\ q.part.amount \in Int /\ schedules[q.schedule].kind \in Kinds
    BY <1>2, <1>4 DEF IsPart
  <2>2. RecognitionLines(schedules[q.schedule], q.part.amount)[a] = Coef(schedules[q.schedule], a) * q.part.amount
    BY <2>1, RecognitionLinesAre
  <2>3. f[m[q]] = RecognitionLines(schedules[q.schedule], q.part.amount)[a]
    <3>1. PartId(q) \in DOMAIN Entries(Q) /\ m[q] = PartId(q)
      BY <1>1
    <3>2. f[PartId(q)] = Entries(Q)[PartId(q)].lines[a]
      BY <3>1
    <3>3. QED
      BY <3>1, <3>2, <1>e
  <2>4. h[q] = c[q.schedule] * q.part.amount /\ c[q.schedule] = Coef(schedules[q.schedule], a) /\ c[q.schedule] \in Int
    BY <2>1, <1>3
  <2>5. h[q] \in Int
    BY <2>1, <2>4
  <2>6. QED
    BY <2>2, <2>3, <2>4, <2>5
<1>6. \A q, w \in Q : m[q] = m[w] => q = w
  BY <1>1
<1>7. DOMAIN Entries(Q) = {m[q] : q \in Q}
  BY <1>1 DEF PartIds
<1>8. SumFunctionOnSet(f, DOMAIN Entries(Q)) = SumFunctionOnSet(h, Q)
  <2> HIDE DEF m, h
  <2>1. SumFunctionOnSet(f, {m[q] : q \in Q}) = SumFunctionOnSet(h, Q)
    BY <1>1, <1>5, <1>6, SumImage
  <2>2. QED
    BY <2>1, <1>7
<1>9. SumFunctionOnSet(h, Q) = SumFunctionOnSet([s \in S |-> c[s] * Sum(D[s])], S)
  <2>1. h = [q \in Batch(S, D) |-> c[q.schedule] * q.part.amount]
    OBVIOUS
  <2> HIDE DEF h, c
  <2>2. QED
    BY <2>1, <1>2, <1>3, SumNested
<1>10. [s \in S |-> c[s] * Sum(D[s])] = [s \in S |-> Coef(schedules[s], a) * Sum(D[s])]
  OBVIOUS
<1>11. QED
  BY <1>3, <1>8, <1>9, <1>10

--------------------------------------------------------------------------------
(* Transactions. *)

\* The part of the invariant that is of one schedule.
RemainderOf(s) ==
  schedules[s].status = "active" =>
    schedules[s].remaining > 0 /\ schedules[s].remaining = Sum(Unposted(s, schedules[s]))
FollowsOf(s) ==
  \A x \in Recognitions(s) :
    /\ x[3] < schedules[s].generation => schedAllocs[x].date < schedules[s].start
    /\ (schedules[s].status = "active" /\ x[3] = schedules[s].generation) =>
         \E p \in Installments(schedules[s]) : p.date = schedAllocs[x].date /\ p.from = schedAllocs[x].from
OnceOf(s) ==
  \A x, y \in Recognitions(s) :
    x # y => schedAllocs[x].date < schedAllocs[y].from \/ schedAllocs[y].date < schedAllocs[x].from
ScheduleOK(s) == RemainderOf(s) /\ FollowsOf(s) /\ OnceOf(s)
EverySchedule == \A s \in DOMAIN schedules : ScheduleOK(s)

\* The invariant, schedule by schedule.
LEMMA InvBySchedule ==
  SchedInv <=> WellFormed /\ EverySchedule /\ ControlsMatchRecords
  BY DEF SchedInv, EverySchedule, ScheduleOK, RemainderOf, FollowsOf, OnceOf, RemainderIsScheduled, GenerationsFollow,
         DaysRecognizedOnce, Active

\* A transaction that writes records, entries and allocations under ids of their own.
LEMMA Transaction ==
  ASSUME WellFormed, NEW R, NEW e, NEW a,
         Wrote(schedules', R, schedules), Wrote(schedLedger', e, schedLedger), Wrote(schedAllocs', a, schedAllocs),
         closed' \subseteq MonthStarts, Payment \in DOMAIN schedLedger,
         DOMAIN R \subseteq Schedules, \A s \in DOMAIN R : RecordOK(R[s]),
         \A s \in DOMAIN R \cap DOMAIN schedules : Continues(schedules[s], R[s]),
         IsFiniteSet(DOMAIN a), \A x \in DOMAIN a : AllocOK(x, a[x], schedules'),
         IsFiniteSet(DOMAIN e), DOMAIN e \cap DOMAIN schedLedger = {},
         \A x \in DOMAIN e : EntryOK(e[x]) /\ ((\E s \in DOMAIN schedules' : x = Id("reclass", s, 0, 0)) \/ x \in DOMAIN a)
  PROVE  WellFormed' /\ \A b : Paid(b)' = Paid(b)
<1>1. RecordsOK /\ AllocsOK /\ LedgerOK
  BY DEF WellFormed
<1>2. /\ RecordsOK' /\ DOMAIN schedules' = DOMAIN R \union DOMAIN schedules
      /\ \A s \in DOMAIN schedules : Continues(schedules[s], schedules'[s])
  BY <1>1, RecordsGrow
<1>3. AllocsOK' /\ DOMAIN schedAllocs' = DOMAIN a \union DOMAIN schedAllocs
  BY <1>1, <1>2, AllocsGrow
<1>4. Payment \notin DOMAIN e
  OBVIOUS
<1>5. LedgerOK' /\ \A b : Paid(b)' = Paid(b)
  BY <1>1, <1>2, <1>3, <1>4, LedgerGrows
<1>6. QED
  BY <1>2, <1>3, <1>5 DEF WellFormed

\* A schedule of which nothing is written stays as it is.
LEMMA UntouchedSchedule ==
  ASSUME NEW s \in DOMAIN schedules, ScheduleOK(s), NEW a, Wrote(schedAllocs', a, schedAllocs),
         DOMAIN a \cap DOMAIN schedAllocs = {},
         schedules'[s] = schedules[s], \A x \in DOMAIN a : ~(x[1] = "recognition" /\ x[2] = s)
  PROVE  ScheduleOK(s)'
<1>1. Recognitions(s)' = Recognitions(s)
  BY DEF Recognitions, Wrote
<1>2. \A x \in Recognitions(s) : schedAllocs'[x] = schedAllocs[x]
  BY DEF Recognitions, Wrote
<1>3. \A p : RecognitionId(s, schedules[s], p) \in DOMAIN schedAllocs' <=> RecognitionId(s, schedules[s], p) \in DOMAIN schedAllocs
  BY DEF RecognitionId, Id, Wrote
<1>4. Unposted(s, schedules[s])' = Unposted(s, schedules[s])
  BY <1>3 DEF Unposted, RecognitionId
<1>5. QED
  BY <1>1, <1>2, <1>4 DEF ScheduleOK, RemainderOf, FollowsOf, OnceOf

\* A new schedule, or a new generation of one whose recognitions all lie before it.
LEMMA NewGeneration ==
  ASSUME NEW s, RecordOK(schedules'[s]),
         \A x \in Recognitions(s)' : x[3] < schedules'[s].generation /\ schedAllocs'[x].date < schedules'[s].start,
         OnceOf(s)', schedules'[s].remaining = BaseOf(schedules'[s]), schedules'[s].remaining > 0
  PROVE  ScheduleOK(s)'
<1> DEFINE r == schedules'[s]
<1>1. r.generation \in Nat /\ Scheduled(r)
  BY DEF RecordOK
<1>2. \A p : RecognitionId(s, r, p) \notin DOMAIN schedAllocs'
  <2> SUFFICES ASSUME NEW p, RecognitionId(s, r, p) \in DOMAIN schedAllocs' PROVE FALSE
    OBVIOUS
  <2>1. RecognitionId(s, r, p) \in Recognitions(s)'
    BY DEF Recognitions, RecognitionId, Id
  <2>2. RecognitionId(s, r, p)[3] = r.generation
    BY DEF RecognitionId, Id
  <2>3. QED
    BY <2>1, <2>2, <1>1
<1>3. Unposted(s, schedules[s])' = Installments(r)
  BY <1>2 DEF Unposted, RecognitionId
<1>4. RemainderOf(s)'
  <2>1. Sum(Installments(r)) = BaseOf(r)
    BY <1>1, InstallmentsAre
  <2>2. QED
    BY <1>3, <2>1 DEF RemainderOf
<1>5. FollowsOf(s)'
  BY <1>1 DEF FollowsOf
<1>6. QED
  BY <1>4, <1>5 DEF ScheduleOK

--------------------------------------------------------------------------------
(* The accounts after a transaction. *)

\* The last day is a day.
LEMMA LastDayIs == LastDay \in Days /\ \A d \in Days : d <= LastDay
  BY SchedAssumption DEF Days

\* The balance of a day grows by what the transaction dates up to it.
LEMMA LedgerMoves ==
  ASSUME LedgerOK, NEW e, Wrote(schedLedger', e, schedLedger), DOMAIN e \cap DOMAIN schedLedger = {},
         IsFiniteSet(DOMAIN e), \A x \in DOMAIN e : EntryOK(e[x]),
         NEW a \in ScheduleAccounts, NEW d \in Days,
         NEW f, \A x \in DOMAIN e : f[x] = e[x].lines[a], NEW Y, Y = {x \in DOMAIN e : e[x].date <= d}
  PROVE  /\ BalanceAsOf(a, d)' = BalanceAsOf(a, d) + SumFunctionOnSet(f, Y)
         /\ BalanceAsOf(a, d) \in Int /\ SumFunctionOnSet(f, Y) \in Int
<1> DEFINE X == {x \in DOMAIN schedLedger : schedLedger[x].date <= d}
           Z == {x \in DOMAIN schedLedger' : schedLedger'[x].date <= d}
           h == [x \in X |-> schedLedger[x].lines[a]]
           k == [x \in Z |-> schedLedger'[x].lines[a]]
<1>1. BalanceAsOf(a, d) = SumFunctionOnSet(h, X) /\ BalanceAsOf(a, d)' = SumFunctionOnSet(k, Z)
  BY SumAll DEF BalanceAsOf
<1>2. /\ Z = X \union Y /\ X \cap Y = {}
      /\ \A x \in X : schedLedger'[x] = schedLedger[x]
      /\ \A x \in Y : schedLedger'[x] = e[x]
  BY DEF Wrote
<1>3. IsFiniteSet(X) /\ IsFiniteSet(Y)
  BY FS_Subset DEF LedgerOK
<1>4. \A x \in X : h[x] \in Int /\ k[x] = h[x]
  BY <1>2 DEF LedgerOK, EntryOK
<1>5. \A x \in Y : f[x] \in Int /\ k[x] = f[x]
  BY <1>2 DEF EntryOK
<1> HIDE DEF X, Z, h, k
<1>6. SumFunctionOnSet(k, X \union Y) = SumFunctionOnSet(k, X) + SumFunctionOnSet(k, Y)
  BY <1>2, <1>3, <1>4, <1>5, SumUnion
<1>7. SumFunctionOnSet(k, X) = SumFunctionOnSet(h, X) /\ SumFunctionOnSet(k, Y) = SumFunctionOnSet(f, Y)
  BY <1>3, <1>4, <1>5, SumSame
<1>8. SumFunctionOnSet(h, X) \in Int /\ SumFunctionOnSet(f, Y) \in Int
  BY <1>3, <1>4, <1>5, SumAt
<1>9. QED
  BY <1>1, <1>2, <1>6, <1>7, <1>8

\* What the records hold of an account.
StoredSum(a) == SumFunction([s \in DOMAIN schedules |-> Stored(schedules[s], a)])
Before(s, a) == IF s \in DOMAIN schedules THEN Stored(schedules[s], a) ELSE 0

\* What a record holds of an account is a number.
LEMMA StoredIs == ASSUME NEW r, RecordOK(r), NEW a PROVE Stored(r, a) \in Int
<1>1. r.remaining \in Int /\ r.recognized \in Int /\ Amount \in Int /\ NormalSign(r) \in {1, -1}
  BY SchedAssumption DEF RecordOK, NormalSign
<1>2. NormalSign(r) * r.remaining \in Int
  BY <1>1
<1>3. QED
  BY <1>1, <1>2 DEF Stored

\* There are finitely many schedules.
LEMMA SchedulesFinite == ASSUME RecordsOK PROVE IsFiniteSet(DOMAIN schedules)
  BY FS_Subset, SchedAssumption DEF RecordsOK

\* What the records hold after a transaction.
LEMMA StoredMoves ==
  ASSUME RecordsOK, NEW R, Wrote(schedules', R, schedules), DOMAIN R \subseteq Schedules,
         \A s \in DOMAIN R : RecordOK(R[s]), NEW a,
         NEW g, \A s \in DOMAIN R : g[s] = Stored(R[s], a) - Before(s, a)
  PROVE  StoredSum(a)' = StoredSum(a) + SumFunctionOnSet(g, DOMAIN R) /\ StoredSum(a) \in Int
<1> DEFINE S == DOMAIN schedules
           T == DOMAIN schedules'
           f == [s \in S |-> Stored(schedules[s], a)]
           h == [s \in T |-> Stored(schedules'[s], a)]
           p == [s \in T |-> Before(s, a)]
           q == [s \in T |-> IF s \in DOMAIN R THEN g[s] ELSE 0]
<1>1. StoredSum(a) = SumFunctionOnSet(f, S) /\ StoredSum(a)' = SumFunctionOnSet(h, T)
  BY SumAll DEF StoredSum, Stored, ControlOf, NormalSign
<1>2. /\ T = S \union DOMAIN R /\ (\A s \in DOMAIN R : schedules'[s] = R[s])
      /\ \A s \in S \ DOMAIN R : schedules'[s] = schedules[s]
  BY DEF Wrote
<1>3. IsFiniteSet(S) /\ IsFiniteSet(T) /\ IsFiniteSet(DOMAIN R)
  <2>1. S \subseteq Schedules /\ T \subseteq Schedules
    BY <1>2 DEF RecordsOK
  <2>2. QED
    BY <2>1, FS_Subset, SchedAssumption
<1>4. \A s \in S : f[s] \in Int /\ Before(s, a) = f[s]
  BY StoredIs DEF RecordsOK, Before
<1>5. \A s \in DOMAIN R : Stored(R[s], a) \in Int
  BY StoredIs
<1>6. \A s \in T \ S : Before(s, a) = 0
  BY DEF Before
<1>7. \A s \in T : p[s] \in Int
  BY <1>4, <1>6
<1>8. \A s \in DOMAIN R : g[s] \in Int /\ h[s] = p[s] + g[s]
  <2> TAKE s \in DOMAIN R
  <2>1. s \in T /\ h[s] = Stored(R[s], a) /\ p[s] = Before(s, a)
    BY <1>2
  <2>2. QED
    BY <2>1, <1>5, <1>7
<1>9. \A s \in T : q[s] \in Int /\ h[s] = p[s] + q[s]
  <2> TAKE s \in T
  <2>1. CASE s \in DOMAIN R
    BY <2>1, <1>8
  <2>2. CASE s \notin DOMAIN R
    <3>1. s \in S /\ h[s] = f[s] /\ p[s] = f[s] /\ q[s] = 0
      BY <2>2, <1>2, <1>4
    <3>2. QED
      BY <3>1, <1>4
  <2>3. QED
    BY <2>1, <2>2
<1>10. /\ \A s \in S : p[s] = f[s]
       /\ \A s \in T \ S : p[s] = 0
       /\ \A s \in DOMAIN R : q[s] = g[s]
       /\ \A s \in T \ DOMAIN R : q[s] = 0
  BY <1>2, <1>4, <1>6
<1> HIDE DEF f, h, p, q, T
<1>11. SumFunctionOnSet(h, T) = SumFunctionOnSet(p, T) + SumFunctionOnSet(q, T)
  BY <1>3, <1>7, <1>9, SumPlus
<1>12. SumFunctionOnSet(p, T) = SumFunctionOnSet(f, S)
  <2>1. SumFunctionOnSet(p, T) = SumFunctionOnSet(p, S)
    BY <1>2, <1>3, <1>7, <1>10, SumOver
  <2>2. SumFunctionOnSet(p, S) = SumFunctionOnSet(f, S)
    BY <1>3, <1>10, SumSame
  <2>3. QED
    BY <2>1, <2>2
<1>13. SumFunctionOnSet(q, T) = SumFunctionOnSet(g, DOMAIN R)
  <2>1. SumFunctionOnSet(q, T) = SumFunctionOnSet(q, DOMAIN R)
    BY <1>2, <1>3, <1>9, <1>10, SumOver
  <2>2. SumFunctionOnSet(q, DOMAIN R) = SumFunctionOnSet(g, DOMAIN R)
    BY <1>3, <1>10, SumSame
  <2>3. QED
    BY <2>1, <2>2
<1>14. SumFunctionOnSet(f, S) \in Int
  BY <1>3, <1>4, SumAt
<1>15. QED
  BY <1>1, <1>11, <1>12, <1>13, <1>14

\* What of the payment no schedule took: it does not move when no schedule is funded.
Taken(s) == IF OnControl(schedules[s]) THEN NormalSign(schedules[s]) * schedules[s].reserved ELSE 0
\* What a payment leaves outside the schedules is a number.
LEMMA UnlinkedIs ==
  ASSUME WellFormed, NEW a \in Controls
  PROVE  /\ Unlinked(a) \in Int
         /\ Payment \in DOMAIN schedLedger =>
              Unlinked(a) = Paid(a) - SumFunctionOnSet([s \in FundedOn(a) |-> Taken(s)], FundedOn(a))
         /\ IsFiniteSet(FundedOn(a)) /\ \A s \in FundedOn(a) : Taken(s) \in Int
<1> DEFINE f == [s \in FundedOn(a) |-> Taken(s)]
<1>1. a # "Bank" /\ a \in ScheduleAccounts
  BY DEF Controls, ScheduleAccounts
<1>2. IsFiniteSet(FundedOn(a))
  <2>1. FundedOn(a) \subseteq Schedules
    BY DEF WellFormed, RecordsOK, FundedOn
  <2>2. QED
    BY <2>1, FS_Subset, SchedAssumption
<1>3. \A s \in FundedOn(a) : Taken(s) \in Int
  <2> TAKE s \in FundedOn(a)
  <2>1. schedules[s].reserved \in Nat /\ NormalSign(schedules[s]) \in {1, -1}
    BY DEF FundedOn, WellFormed, RecordsOK, RecordOK, NormalSign
  <2>2. QED
    BY <2>1 DEF Taken
<1>4. SumFunctionOnSet(f, FundedOn(a)) \in Int
  <2>1. \A s \in FundedOn(a) : f[s] \in Int
    BY <1>3
  <2> HIDE DEF f
  <2>2. QED
    BY <2>1, <1>2, SumAt
<1>5. Paid(a) \in Int
  BY <1>1, SchedAssumption DEF WellFormed, LedgerOK
<1>6. SumFunction(f) = SumFunctionOnSet(f, FundedOn(a))
  BY SumAll
<1>7. Unlinked(a) = IF Payment \in DOMAIN schedLedger THEN Paid(a) - SumFunction(f) ELSE 0
  BY <1>1 DEF Unlinked, Taken
<1>f. f = [s \in FundedOn(a) |-> Taken(s)]
  OBVIOUS
<1> HIDE DEF f
<1>8. Unlinked(a) \in Int /\ (Payment \in DOMAIN schedLedger => Unlinked(a) = Paid(a) - SumFunctionOnSet(f, FundedOn(a)))
  BY <1>4, <1>5, <1>6, <1>7
<1>9. QED
  BY ONLY <1>2, <1>3, <1>8, <1>f

\* It stays as it is while no schedule is funded.
LEMMA UnlinkedStays ==
  ASSUME NEW R, Wrote(schedules', R, schedules), Payment \in DOMAIN schedLedger, Payment' \in DOMAIN schedLedger',
         \A b : Paid(b)' = Paid(b),
         \A s \in DOMAIN R \cap DOMAIN schedules :
           R[s].kind = schedules[s].kind /\ R[s].reserved = schedules[s].reserved /\ R[s].supersedes = schedules[s].supersedes,
         \A s \in DOMAIN R \ DOMAIN schedules : R[s].supersedes # {},
         NEW a
  PROVE  Unlinked(a)' = Unlinked(a)
<1>1. /\ DOMAIN schedules' = DOMAIN R \union DOMAIN schedules
      /\ \A s \in DOMAIN schedules : /\ schedules'[s].kind = schedules[s].kind
                                     /\ schedules'[s].reserved = schedules[s].reserved
                                     /\ schedules'[s].supersedes = schedules[s].supersedes
      /\ \A s \in DOMAIN schedules' \ DOMAIN schedules : schedules'[s].supersedes # {}
  BY DEF Wrote
<1>2. FundedOn(a)' = FundedOn(a)
  <2>1. \A s \in DOMAIN schedules : ControlOf(schedules[s])' = ControlOf(schedules[s])
    BY <1>1 DEF ControlOf
  <2>2. QED
    BY <1>1, <2>1 DEF FundedOn
<1>3. \A s \in FundedOn(a) : Taken(s)' = Taken(s)
  BY <1>1 DEF Taken, OnControl, FundedOn, ControlOf, NormalSign
<1>4. [s \in FundedOn(a) |-> Taken(s)]' = [s \in FundedOn(a) |-> Taken(s)]
  BY <1>2, <1>3
<1>5. Unlinked(a) = Paid(a) - SumFunction([s \in FundedOn(a) |-> Taken(s)]) \/ (a = "Bank" /\ Unlinked(a) = 0)
  BY DEF Unlinked, Taken
<1>6. (Unlinked(a) = Paid(a) - SumFunction([s \in FundedOn(a) |-> Taken(s)]))' \/ (a = "Bank" /\ Unlinked(a)' = 0)
  BY DEF Unlinked, Taken
<1>7. a = "Bank" => Unlinked(a) = 0 /\ Unlinked(a)' = 0
  BY DEF Unlinked
<1>8. QED
  BY <1>4, <1>5, <1>6, <1>7

--------------------------------------------------------------------------------
(* Postings of what is due. *)

\* A transaction that moves a control account by as much as the records of it keeps
\* the two the same.
LEMMA ControlsMove ==
  ASSUME WellFormed, ControlsMatchRecords, NEW R, NEW e,
         Wrote(schedules', R, schedules), Wrote(schedLedger', e, schedLedger), DOMAIN e \cap DOMAIN schedLedger = {},
         IsFiniteSet(DOMAIN e), \A x \in DOMAIN e : EntryOK(e[x]),
         DOMAIN R \subseteq Schedules, \A s \in DOMAIN R : RecordOK(R[s]),
         \A a \in Controls : Unlinked(a)' = Unlinked(a),
         NEW f, \A a \in Controls : \A x \in DOMAIN e : f[a][x] = e[x].lines[a],
         NEW g, \A a \in Controls : \A s \in DOMAIN R : g[a][s] = Stored(R[s], a) - Before(s, a),
         \A a \in Controls : SumFunctionOnSet(f[a], DOMAIN e) = SumFunctionOnSet(g[a], DOMAIN R)
  PROVE  ControlsMatchRecords'
<1>1. ASSUME NEW a \in Controls PROVE BalanceAsOf(a, LastDay)' = StoredSum(a)' + Unlinked(a)'
  <2>1. a \in ScheduleAccounts /\ LedgerOK /\ RecordsOK
    BY DEF Controls, ScheduleAccounts, WellFormed
  <2>2. BalanceAsOf(a, LastDay) = StoredSum(a) + Unlinked(a)
    BY DEF ControlsMatchRecords, StoredSum, Controls
  <2>3. DOMAIN e = {x \in DOMAIN e : e[x].date <= LastDay}
    BY LastDayIs DEF EntryOK
  <2>4. /\ BalanceAsOf(a, LastDay)' = BalanceAsOf(a, LastDay) + SumFunctionOnSet(f[a], DOMAIN e)
        /\ BalanceAsOf(a, LastDay) \in Int /\ SumFunctionOnSet(f[a], DOMAIN e) \in Int
    BY <2>1, <2>3, LastDayIs, LedgerMoves
  <2>5. StoredSum(a)' = StoredSum(a) + SumFunctionOnSet(g[a], DOMAIN R) /\ StoredSum(a) \in Int
    BY <2>1, StoredMoves
  <2>6. Unlinked(a) \in Int /\ Unlinked(a)' = Unlinked(a)
    BY UnlinkedIs
  <2>7. SumFunctionOnSet(f[a], DOMAIN e) = SumFunctionOnSet(g[a], DOMAIN R)
    OBVIOUS
  <2>8. QED
    BY ONLY <2>2, <2>4, <2>5, <2>6, <2>7
<1>2. QED
  BY <1>1 DEF ControlsMatchRecords, StoredSum, Controls

\* What a batch writes is new, well formed, and of the days of its parts.
LEMMA BatchWrites ==
  ASSUME SchedInv, NEW S, IsFiniteSet(S), NEW D, \A s \in S : Recognizable(s, D[s]), NEW Q, Q = Batch(S, D),
         NEW x \in PartIds(Q)
  PROVE  /\ x \notin DOMAIN schedAllocs /\ x \notin DOMAIN schedLedger
         /\ x[1] = "recognition" /\ x[2] \in S /\ x[3] = schedules[x[2]].generation
         /\ \E p \in D[x[2]] : /\ x = RecognitionId(x[2], schedules[x[2]], p)
                               /\ Allocations(Q)[x].date = p.date /\ Allocations(Q)[x].from = p.from
                               /\ Entries(Q)[x].date = p.date
         /\ EntryOK(Entries(Q)[x])
         /\ \A R : (x[2] \in DOMAIN R /\ schedules[x[2]].generation \in 0..R[x[2]].generation) => AllocOK(x, Allocations(Q)[x], R)
<1>1. PICK q \in Q : x = PartId(q)
  BY BatchIs
<1>2. Entries(Q)[x] = EntryOf(q) /\ Allocations(Q)[x] = AllocationOf(q) /\ x \notin DOMAIN schedAllocs /\ x \notin DOMAIN schedLedger
  BY <1>1, BatchIs
<1>3. q.schedule \in S /\ q.part \in D[q.schedule]
  BY PartsAre
<1>4. IsPart(q.part) /\ q.schedule \in DOMAIN schedules
  BY <1>3 DEF Recognizable
<1>5. x = <<"recognition", q.schedule, schedules[q.schedule].generation, q.part.date>>
  BY <1>1 DEF PartId, RecognitionId, Id
<1>6. x[1] = "recognition" /\ x[2] = q.schedule /\ x[3] = schedules[q.schedule].generation
  BY <1>5
<1>7. /\ Allocations(Q)[x].date = q.part.date /\ Allocations(Q)[x].from = q.part.from
      /\ Allocations(Q)[x].schedule = q.schedule /\ Allocations(Q)[x].amount = q.part.amount
      /\ Entries(Q)[x].date = q.part.date /\ Entries(Q)[x].lines = RecognitionLines(schedules[q.schedule], q.part.amount)
  BY <1>2 DEF EntryOf, AllocationOf
<1>8. EntryOK(Entries(Q)[x])
  <2>1. schedules[q.schedule].kind \in Kinds /\ q.part.amount \in Int
    BY <1>4 DEF SchedInv, WellFormed, RecordsOK, RecordOK, IsPart
  <2>2. RecognitionLines(schedules[q.schedule], q.part.amount) \in [ScheduleAccounts -> Int]
    BY <2>1, RecognitionLinesAre
  <2>3. QED
    BY <2>2, <1>4, <1>7 DEF EntryOK, IsPart
<1>9. ASSUME NEW R, x[2] \in DOMAIN R, schedules[x[2]].generation \in 0..R[x[2]].generation PROVE AllocOK(x, Allocations(Q)[x], R)
  <2>1. x = Id("recognition", q.schedule, schedules[q.schedule].generation, q.part.date)
    BY <1>5 DEF Id
  <2>2. QED
    BY <2>1, <1>4, <1>6, <1>7, <1>9 DEF AllocOK, IsPart
<1>10. x = RecognitionId(q.schedule, schedules[q.schedule], q.part)
  BY <1>5 DEF RecognitionId, Id
<1>11. \E p \in D[x[2]] : /\ x = RecognitionId(x[2], schedules[x[2]], p)
                               /\ Allocations(Q)[x].date = p.date /\ Allocations(Q)[x].from = p.from
                               /\ Entries(Q)[x].date = p.date
  BY <1>3, <1>6, <1>7, <1>10
<1>12. QED
  BY <1>2, <1>3, <1>6, <1>8, <1>9, <1>11

\* Days recognized once, after what can be recognized is.
LEMMA OnceAfter ==
  ASSUME NEW s, OnceOf(s), NEW a, Wrote(schedAllocs', a, schedAllocs), DOMAIN a \cap DOMAIN schedAllocs = {},
         NEW P, P # {} => Recognizable(s, P),
         \A x \in DOMAIN a : (x[1] = "recognition" /\ x[2] = s) =>
           \E p \in P : x = RecognitionId(s, schedules[s], p) /\ a[x].date = p.date /\ a[x].from = p.from
  PROVE  /\ OnceOf(s)'
         /\ \A x \in Recognitions(s)' : \/ x \in Recognitions(s) /\ schedAllocs'[x] = schedAllocs[x]
                                        \/ \E p \in P : x = RecognitionId(s, schedules[s], p) /\ schedAllocs'[x].date = p.date
                                                        /\ schedAllocs'[x].from = p.from
<1> DEFINE new(x) == \E p \in P : x = RecognitionId(s, schedules[s], p) /\ schedAllocs'[x].date = p.date /\ schedAllocs'[x].from = p.from
           old(x) == x \in Recognitions(s) /\ schedAllocs'[x] = schedAllocs[x]
<1>1. \A x \in Recognitions(s)' : old(x) \/ new(x)
  <2> TAKE x \in Recognitions(s)'
  <2>1. x \in DOMAIN schedAllocs' /\ x[1] = "recognition" /\ x[2] = s
    BY DEF Recognitions
  <2>2. CASE x \in DOMAIN a
    <3>1. schedAllocs'[x] = a[x]
      BY <2>2 DEF Wrote
    <3>2. QED
      BY <3>1, <2>1, <2>2
  <2>3. CASE x \notin DOMAIN a
    BY <2>1, <2>3 DEF Wrote, Recognitions
  <2>4. QED
    BY <2>2, <2>3
<1>2. OnceOf(s)'
  <2> SUFFICES ASSUME NEW x \in Recognitions(s)', NEW y \in Recognitions(s)', x # y
               PROVE  Apart(schedAllocs'[x], schedAllocs'[y])
    BY DEF OnceOf, Apart
  <2>1. CASE old(x) /\ old(y)
    BY <2>1 DEF OnceOf, Apart
  <2>2. CASE new(x) /\ old(y)
    BY <2>2 DEF Recognizable, Apart
  <2>3. CASE old(x) /\ new(y)
    BY <2>3 DEF Recognizable, Apart
  <2>4. CASE new(x) /\ new(y)
    <3>1. PICK p \in P : x = RecognitionId(s, schedules[s], p) /\ schedAllocs'[x].date = p.date /\ schedAllocs'[x].from = p.from
      BY <2>4
    <3>2. PICK q \in P : y = RecognitionId(s, schedules[s], q) /\ schedAllocs'[y].date = q.date /\ schedAllocs'[y].from = q.from
      BY <2>4
    <3>3. p # q
      BY <3>1, <3>2
    <3>4. Apart(p, q)
      BY <3>3 DEF Recognizable
    <3>5. QED
      BY <3>1, <3>2, <3>4 DEF Apart
  <2>5. QED
    BY <1>1, <2>1, <2>2, <2>3, <2>4
<1>3. QED
  BY <1>1, <1>2

\* A record after a posting.
LEMMA AfterDueIs ==
  ASSUME NEW r, RecordOK(r), NEW n \in Nat, n <= r.remaining
  PROVE  /\ RecordOK(AfterDue(r, n)) /\ Continues(r, AfterDue(r, n))
         /\ AfterDue(r, n).remaining = r.remaining - n /\ AfterDue(r, n).recognized = r.recognized + n
         /\ AfterDue(r, n).kind = r.kind /\ AfterDue(r, n).reserved = r.reserved /\ AfterDue(r, n).supersedes = r.supersedes
         /\ AfterDue(r, n).generation = r.generation /\ AfterDue(r, n).start = r.start
         /\ AfterDue(r, n).status = "active" => r.remaining # n
         /\ Installments(AfterDue(r, n)) = Installments(r)
<1> DEFINE q == AfterDue(r, n)
<1>1. /\ DOMAIN q = Fields /\ q.kind = r.kind /\ q.method = r.method /\ q.plan = r.plan /\ q.first = r.first
      /\ q.last = r.last /\ q.start = r.start /\ q.base = r.base /\ q.initial = r.initial /\ q.reserved = r.reserved
      /\ q.originDate = r.originDate /\ q.effectiveFrom = r.effectiveFrom /\ q.supersedes = r.supersedes
      /\ q.generation = r.generation /\ q.history = r.history
      /\ q.remaining = r.remaining - n /\ q.recognized = r.recognized + n
      /\ q.status = IF r.remaining = n THEN "completed" ELSE "active"
  BY DEF AfterDue, RecordOK, Fields
<1> HIDE DEF q
<1>2. r.remaining \in Nat /\ r.base \in Nat /\ r.recognized \in Nat /\ r.recognized + r.remaining <= Amount /\ r.remaining <= r.base
  BY DEF RecordOK, Scheduled
<1>3. q.remaining \in Nat /\ q.remaining <= q.base /\ q.recognized \in Nat /\ q.recognized + q.remaining <= Amount
  BY <1>1, <1>2, SchedAssumption
<1>4. HistoryOK(q)
  BY <1>1 DEF RecordOK, HistoryOK
<1>5. Scheduled(q)
  BY <1>1 DEF RecordOK, Scheduled, Service
<1>6. RecordOK(q)
  BY <1>1, <1>3, <1>4, <1>5 DEF RecordOK, Statuses
<1>7. Continues(r, q)
  <2>1. r.generation \in Nat /\ Len(r.history) \in Nat
    <3>1. PICK H : r.history \in Seq(H)
      BY DEF RecordOK, HistoryOK
    <3>2. QED
      BY <3>1 DEF RecordOK
  <2>2. QED
    BY <1>1, <2>1 DEF Continues
<1>8. Installments(q) = Installments(r)
  BY <1>1 DEF Installments, Segments, SegmentEnd, Cents, Share, Weight, Denominator
<1>9. QED
  BY <1>1, <1>6, <1>7, <1>8 DEF q

\* What a recognition takes off what a record holds.
LEMMA StoredAfterDue ==
  ASSUME NEW r, RecordOK(r), NEW n \in Nat, n <= r.remaining, NEW a \in Controls
  PROVE  Stored(AfterDue(r, n), a) - Stored(r, a) = Coef(r, a) * n
<1>1. AfterDue(r, n).remaining = r.remaining - n /\ AfterDue(r, n).recognized = r.recognized + n
      /\ AfterDue(r, n).kind = r.kind
  BY AfterDueIs
<1>2. r.remaining \in Int /\ r.recognized \in Int /\ NormalSign(r) \in {1, -1} /\ r.kind \in Kinds /\ Amount \in Int
  BY SchedAssumption DEF RecordOK, NormalSign
<1>3. NormalSign(AfterDue(r, n)) = NormalSign(r) /\ ControlOf(AfterDue(r, n)) = ControlOf(r)
  BY <1>1 DEF NormalSign, ControlOf
<1>4. CASE r.kind = "depreciation"
  <2>1. /\ Stored(r, a) = IF a = "Accumulated" THEN -r.recognized ELSE IF a = "Equipment" THEN Amount ELSE 0
        /\ Stored(AfterDue(r, n), a) = IF a = "Accumulated" THEN -(r.recognized + n) ELSE IF a = "Equipment" THEN Amount ELSE 0
        /\ Coef(r, a) = IF a = "Accumulated" THEN -1 ELSE 0
    BY <1>1, <1>4 DEF Stored, Coef, CreditAccount, NormalSign
  <2>2. QED
    BY <2>1, <1>2
<1>5. CASE r.kind # "depreciation"
  <2>1. CASE a = ControlOf(r)
    <3>1. /\ Stored(r, a) = NormalSign(r) * r.remaining
          /\ Stored(AfterDue(r, n), a) = NormalSign(r) * (r.remaining - n)
          /\ Coef(r, a) = -NormalSign(r)
      BY <1>1, <1>3, <1>5, <2>1 DEF Stored, Coef, CreditAccount
    <3>2. QED
      BY <3>1, <1>2
  <2>2. CASE a # ControlOf(r)
    <3>1. Stored(r, a) = 0 /\ Stored(AfterDue(r, n), a) = 0 /\ Coef(r, a) = 0
      BY <1>1, <1>3, <1>5, <2>2 DEF Stored, Coef, CreditAccount
    <3>2. QED
      BY <3>1
  <2>3. QED
    BY <2>1, <2>2
<1>6. QED
  BY <1>4, <1>5

\* Posting what is due keeps the invariant.
LEMMA PostDueKeeps ==
  ASSUME SchedInv, NEW t, PostDue(t)
  PROVE  SchedInv'
<1> DEFINE S == {s \in Active : Due(s, t) # {}}
           D == [s \in S |-> Due(s, t)]
           Q == Batch(S, D)
           n == [s \in S |-> Sum(Due(s, t))]
           R == [s \in S |-> AfterDue(schedules[s], n[s])]
           e == Entries(Q)
           a == Allocations(Q)
<1>0. WellFormed /\ RecordsOK /\ ControlsMatchRecords /\ \A s \in DOMAIN schedules : RecordOK(schedules[s]) /\ ScheduleOK(s)
  BY InvBySchedule DEF WellFormed, RecordsOK, EverySchedule
<1>1. Q = UNION {PartsOf(s, Due(s, t)) : s \in S}
  <2>1. {PartsOf(s, Due(s, t)) : s \in S} = {PartsOf(s, D[s]) : s \in S}
    OBVIOUS
  <2>2. QED
    BY <2>1 DEF Batch
<1>2. /\ schedules' = Saved(R) /\ schedLedger' = Posted(e) /\ schedAllocs' = Allocated(a)
      /\ closed' = closed /\ \A s \in S : Sum(Due(s, t)) <= schedules[s].remaining
  BY <1>1 DEF PostDue
<1>3. Wrote(schedules', R, schedules) /\ Wrote(schedLedger', e, schedLedger) /\ Wrote(schedAllocs', a, schedAllocs)
  BY <1>2, OverWrites DEF Saved, Posted, Allocated
<1>4. S \subseteq Active /\ S \subseteq DOMAIN schedules /\ DOMAIN R = S /\ IsFiniteSet(S) /\ S \subseteq Schedules
  <2>1. S \subseteq Active /\ S \subseteq DOMAIN schedules
    BY DEF Active
  <2>2. QED
    BY <2>1, <1>0, SchedulesFinite, FS_Subset DEF RecordsOK
<1>5. \A s \in S : Recognizable(s, D[s]) /\ D[s] = Due(s, t) /\ D[s] \subseteq Unposted(s, schedules[s])
  <2> TAKE s \in S
  <2>1. D[s] \subseteq Unposted(s, schedules[s])
    BY DEF Due
  <2>2. s \in Active
    BY <1>4
  <2> HIDE DEF S, D
  <2>3. Recognizable(s, D[s])
    BY <2>1, <2>2, DueRecognizable
  <2>4. QED
    BY <2>1, <2>3 DEF S, D
<1>6. \A s \in S : n[s] \in Nat /\ n[s] <= schedules[s].remaining /\ n[s] = Sum(D[s])
  <2> TAKE s \in S
  <2>1. Sum(D[s]) \in Nat
    BY <1>5, SumParts DEF Recognizable
  <2>2. QED
    BY <2>1, <1>2, <1>5
<1>7. \A s \in S : R[s] = AfterDue(schedules[s], n[s]) /\ schedules'[s] = R[s] /\ schedules[s].status = "active"
  BY <1>3, <1>4 DEF Wrote, Active
<1>n. DOMAIN e = PartIds(Q) /\ DOMAIN a = PartIds(Q) /\ IsFiniteSet(PartIds(Q))
  <2> HIDE DEF S, D, Q
  <2>1. Q = Batch(S, D)
    BY DEF Q
  <2>2. QED
    BY <2>1, <1>4, <1>5, BatchIs
<1> HIDE DEF S, D, n, R, e, a
<1>8. \A s \in S :
         /\ RecordOK(R[s]) /\ Continues(schedules[s], R[s])
         /\ R[s].remaining = schedules[s].remaining - n[s]
         /\ R[s].kind = schedules[s].kind /\ R[s].reserved = schedules[s].reserved /\ R[s].supersedes = schedules[s].supersedes
         /\ R[s].generation = schedules[s].generation /\ R[s].start = schedules[s].start
         /\ R[s].status = "active" => schedules[s].remaining # n[s]
         /\ Installments(R[s]) = Installments(schedules[s])
  <2> TAKE s \in S
  <2>1. RecordOK(schedules[s])
    BY <1>0, <1>4
  <2>2. QED
    BY <2>1, <1>6, <1>7, AfterDueIs
<1>9. \A x \in PartIds(Q) :
         /\ x \notin DOMAIN schedAllocs /\ x \notin DOMAIN schedLedger
         /\ x[2] \in S /\ EntryOK(e[x])
         /\ \E p \in D[x[2]] : /\ x = RecognitionId(x[2], schedules[x[2]], p) /\ a[x].date = p.date /\ a[x].from = p.from
         /\ AllocOK(x, a[x], schedules')
  <2> TAKE x \in PartIds(Q)
  <2>1. \A K : (x[2] \in DOMAIN K /\ schedules[x[2]].generation \in 0..K[x[2]].generation) => AllocOK(x, a[x], K)
    BY <1>4, <1>5, BatchWrites DEF a
  <2>2. /\ x \notin DOMAIN schedAllocs /\ x \notin DOMAIN schedLedger
        /\ x[2] \in S /\ EntryOK(e[x])
        /\ \E p \in D[x[2]] : /\ x = RecognitionId(x[2], schedules[x[2]], p) /\ a[x].date = p.date /\ a[x].from = p.from
    BY <1>4, <1>5, BatchWrites DEF a, e
  <2>3. x[2] \in DOMAIN schedules' /\ schedules'[x[2]].generation = schedules[x[2]].generation
    BY <2>2, <1>3, <1>4, <1>7, <1>8 DEF Wrote
  <2>4. schedules[x[2]].generation \in Nat
    BY <2>2, <1>0, <1>4 DEF RecordOK
  <2>5. QED
    BY <2>1, <2>2, <2>3, <2>4
<1>10. Payment \in DOMAIN schedLedger \/ S = {}
  BY <1>0, <1>4 DEF WellFormed, LedgerOK
<1>11. S # {}
  BY DEF PostDue, S
<1>12. WellFormed' /\ \A b : Paid(b)' = Paid(b)
  <2>1. closed' \subseteq MonthStarts
    BY <1>0, <1>2 DEF RecordsOK
  <2>2. DOMAIN e \cap DOMAIN schedLedger = {}
    BY <1>9, <1>n
  <2>3. DOMAIN R \subseteq Schedules /\ (\A s \in DOMAIN R : RecordOK(R[s]))
        /\ \A s \in DOMAIN R \cap DOMAIN schedules : Continues(schedules[s], R[s])
    BY <1>4, <1>8
  <2>4. /\ \A x \in DOMAIN a : AllocOK(x, a[x], schedules')
        /\ \A x \in DOMAIN e : EntryOK(e[x]) /\ x \in DOMAIN a
    BY <1>9, <1>n
  <2>5. QED
    BY <1>0, <1>3, <1>n, <1>10, <1>11, <2>1, <2>2, <2>3, <2>4, Transaction
<1>13. DOMAIN a \cap DOMAIN schedAllocs = {}
  BY <1>9, <1>n
<1>14. ASSUME NEW s \in DOMAIN schedules' PROVE ScheduleOK(s)'
  <2>1. s \in DOMAIN schedules /\ ScheduleOK(s) /\ RecordOK(schedules[s])
    BY <1>0, <1>3, <1>4 DEF Wrote
  <2>2. CASE s \notin S
    <3>1. schedules'[s] = schedules[s]
      BY <2>1, <2>2, <1>3, <1>4 DEF Wrote
    <3>2. \A x \in DOMAIN a : ~(x[1] = "recognition" /\ x[2] = s)
      BY <2>2, <1>9, <1>n
    <3>3. QED
      BY <2>1, <3>1, <3>2, <1>3, <1>13, UntouchedSchedule
  <2>3. CASE s \in S
    <3> DEFINE r == schedules[s]
               P == D[s]
    <3>0. OnceOf(s) /\ RemainderOf(s) /\ FollowsOf(s) /\ schedules[s].status = "active" /\ Recognizable(s, P)
      BY <2>1, <2>3, <1>5, <1>7 DEF ScheduleOK
    <3>1. \A x \in DOMAIN a : (x[1] = "recognition" /\ x[2] = s) =>
            \E p \in P : x = RecognitionId(s, schedules[s], p) /\ a[x].date = p.date /\ a[x].from = p.from
      BY <1>9, <1>n
    <3> HIDE DEF P
    <3>2. /\ OnceOf(s)'
          /\ \A x \in Recognitions(s)' : \/ x \in Recognitions(s) /\ schedAllocs'[x] = schedAllocs[x]
                                        \/ \E p \in P : x = RecognitionId(s, schedules[s], p) /\ schedAllocs'[x].date = p.date
                                                        /\ schedAllocs'[x].from = p.from
      BY <3>0, <3>1, <1>3, <1>13, OnceAfter
    <3>3. schedules'[s] = R[s]
      BY <2>3, <1>7
    <3>4. P \subseteq Unposted(s, r) /\ P \subseteq Installments(r)
      BY <2>3, <1>5 DEF P, Unposted
    <3>5. FollowsOf(s)'
      <4> SUFFICES ASSUME NEW x \in Recognitions(s)'
                   PROVE  /\ x[3] < R[s].generation => schedAllocs'[x].date < R[s].start
                          /\ (R[s].status = "active" /\ x[3] = R[s].generation) =>
                               \E p \in Installments(R[s]) : p.date = schedAllocs'[x].date /\ p.from = schedAllocs'[x].from
        BY <3>3 DEF FollowsOf
      <4>1. CASE x \in Recognitions(s) /\ schedAllocs'[x] = schedAllocs[x]
        BY <4>1, <3>0, <2>3, <1>8 DEF FollowsOf
      <4>2. CASE \E p \in P : x = RecognitionId(s, schedules[s], p) /\ schedAllocs'[x].date = p.date /\ schedAllocs'[x].from = p.from
        <5>1. x[3] = r.generation /\ r.generation \in Nat
          BY <4>2, <2>1 DEF RecognitionId, Id, RecordOK
        <5>2. ~(x[3] < R[s].generation)
          BY <5>1, <2>3, <1>8
        <5>3. QED
          BY <4>2, <5>2, <3>4, <2>3, <1>8
      <4>3. QED
        BY <4>1, <4>2, <3>2
    <3>6. RemainderOf(s)'
      <4> SUFFICES ASSUME R[s].status = "active"
                   PROVE  R[s].remaining > 0 /\ R[s].remaining = Sum(Unposted(s, schedules[s])')
        BY <3>3 DEF RemainderOf
      <4>1. \A p \in Installments(r) : RecognitionId(s, r, p) \in DOMAIN schedAllocs' <=>
                                         (RecognitionId(s, r, p) \in DOMAIN schedAllocs \/ p \in P)
        <5> SUFFICES ASSUME NEW p \in Installments(r)
                     PROVE  RecognitionId(s, r, p) \in DOMAIN a <=> p \in P
          BY <1>3 DEF Wrote
        <5>1. ASSUME RecognitionId(s, r, p) \in DOMAIN a PROVE p \in P
          <6>1. RecognitionId(s, r, p)[1] = "recognition" /\ RecognitionId(s, r, p)[2] = s
            BY DEF RecognitionId, Id
          <6>2. PICK q \in P : RecognitionId(s, r, p) = RecognitionId(s, r, q)
            BY <5>1, <6>1, <3>1
          <6>3. p.date = q.date
            BY <6>2 DEF RecognitionId, Id
          <6>4. q \in Installments(r) /\ Scheduled(r)
            BY <3>4, <2>1 DEF RecordOK
          <6>5. IsPart(p) /\ IsPart(q) /\ (p # q => Apart(p, q))
            BY <6>4, InstallmentsAre
          <6>6. p = q
            BY <6>3, <6>5, DaysFinite DEF IsPart, Apart
          <6>7. QED
            BY <6>6
        <5>2. ASSUME p \in P PROVE RecognitionId(s, r, p) \in DOMAIN a
          <6> DEFINE q == [schedule |-> s, part |-> p]
          <6>1. q \in Q
            BY <5>2, <2>3, PartsAre DEF P
          <6>2. PartId(q) \in PartIds(Q)
            BY <6>1 DEF PartIds
          <6>3. PartId(q) = RecognitionId(s, r, p)
            BY DEF PartId
          <6>4. QED
            BY <6>2, <6>3, <1>n
        <5>3. QED
          BY <5>1, <5>2
      <4>2. Unposted(s, schedules[s])' = Unposted(s, r) \ P
        <5>1. Unposted(s, schedules[s])' = {p \in Installments(r) : RecognitionId(s, r, p) \notin DOMAIN schedAllocs'}
          BY <3>3, <2>3, <1>8 DEF Unposted, RecognitionId
        <5>2. QED
          BY <5>1, <4>1 DEF Unposted
      <4>3. Sum(Unposted(s, r)) = Sum(P) + Sum(Unposted(s, r) \ P) /\ Sum(P) \in Nat /\ Sum(Unposted(s, r)) \in Nat
        <5>1. Scheduled(r) /\ Unposted(s, r) \subseteq Installments(r)
          BY <2>1 DEF RecordOK, Unposted
        <5>2. IsFiniteSet(Unposted(s, r)) /\ \A p \in Unposted(s, r) : IsPart(p)
          BY <5>1, InstallmentsAre, FS_Subset
        <5>3. QED
          BY <5>2, <3>4, SumParts
      <4>4. r.remaining = Sum(Unposted(s, r)) /\ r.remaining > 0
        BY <3>0 DEF RemainderOf
      <4>5. n[s] = Sum(P) /\ R[s].remaining = r.remaining - n[s] /\ r.remaining # n[s] /\ n[s] <= r.remaining /\ n[s] \in Nat
        BY <2>3, <1>6, <1>8 DEF P
      <4>6. r.remaining \in Nat
        BY <2>1 DEF RecordOK
      <4>7. Sum(Unposted(s, r) \ P) = r.remaining - n[s]
        <5>1. Sum(Unposted(s, r) \ P) \in Nat
          <6>1. Scheduled(r) /\ Unposted(s, r) \subseteq Installments(r)
            BY <2>1 DEF RecordOK, Unposted
          <6>2. IsFiniteSet(Unposted(s, r)) /\ \A p \in Unposted(s, r) : IsPart(p)
            BY <6>1, InstallmentsAre, FS_Subset
          <6>3. Unposted(s, r) \ P \subseteq Unposted(s, r)
            OBVIOUS
          <6>4. QED
            BY <6>2, <6>3, SumParts
        <5>2. QED
          BY <5>1, <4>3, <4>4, <4>5
      <4>8. QED
        BY <4>2, <4>5, <4>6, <4>7
    <3>7. QED
      BY <3>2, <3>5, <3>6 DEF ScheduleOK
  <2>4. QED
    BY <2>2, <2>3
<1>15. ControlsMatchRecords'
  <2> DEFINE f == [c \in Controls |-> [x \in DOMAIN e |-> e[x].lines[c]]]
             g == [c \in Controls |-> [s \in S |-> Stored(R[s], c) - Before(s, c)]]
  <2>1. \A c \in Controls : \A x \in DOMAIN e : f[c][x] = e[x].lines[c]
    OBVIOUS
  <2>2. \A c \in Controls : \A s \in DOMAIN R : g[c][s] = Stored(R[s], c) - Before(s, c)
    BY <1>4
  <2>3. ASSUME NEW c \in Controls PROVE SumFunctionOnSet(f[c], DOMAIN e) = SumFunctionOnSet(g[c], DOMAIN R)
    <3> DEFINE k == [s \in S |-> Coef(schedules[s], c) * Sum(D[s])]
    <3>1. \A x \in DOMAIN Entries(Q) : f[c][x] = Entries(Q)[x].lines[c]
      BY DEF e
    <3> HIDE DEF f
    <3>2. SumFunctionOnSet(f[c], DOMAIN e) = SumFunctionOnSet(k, S)
      BY <3>1, <1>4, <1>5, SumBatch DEF e
    <3>3. \A s \in S : k[s] = g[c][s]
      <4> TAKE s \in S
      <4>1. RecordOK(schedules[s]) /\ R[s] = AfterDue(schedules[s], n[s]) /\ n[s] = Sum(D[s]) /\ n[s] \in Nat /\ n[s] <= schedules[s].remaining
        BY <1>0, <1>4, <1>6, <1>7
      <4>2. Stored(R[s], c) - Stored(schedules[s], c) = Coef(schedules[s], c) * n[s]
        BY <4>1, StoredAfterDue
      <4>3. Before(s, c) = Stored(schedules[s], c)
        BY <1>4 DEF Before
      <4>4. QED
        BY <4>1, <4>2, <4>3
    <3> HIDE DEF g, k
    <3>4. SumFunctionOnSet(k, S) = SumFunctionOnSet(g[c], S)
      BY <3>3, <1>4, SumSame
    <3>5. QED
      BY <3>2, <3>4, <1>4
  <2>4. \A c \in Controls : Unlinked(c)' = Unlinked(c)
    <3>1. Payment' = Payment /\ Payment' \in DOMAIN schedLedger'
      BY <1>3, <1>10, <1>11 DEF Payment, Id, Wrote
    <3>2. \A s \in DOMAIN R \cap DOMAIN schedules :
           R[s].kind = schedules[s].kind /\ R[s].reserved = schedules[s].reserved /\ R[s].supersedes = schedules[s].supersedes
      BY <1>4, <1>8
    <3>3. \A s \in DOMAIN R \ DOMAIN schedules : R[s].supersedes # {}
      BY <1>4
    <3>4. QED
      BY <3>1, <3>2, <3>3, <1>3, <1>10, <1>11, <1>12, UnlinkedStays
  <2>5. (\A s \in DOMAIN R : RecordOK(R[s])) /\ DOMAIN R \subseteq Schedules /\ DOMAIN e \cap DOMAIN schedLedger = {}
        /\ IsFiniteSet(DOMAIN e) /\ \A x \in DOMAIN e : EntryOK(e[x])
    BY <1>4, <1>8, <1>9, <1>n
  <2> HIDE DEF f, g
  <2>6. QED
    BY <1>0, <1>3, <2>1, <2>2, <2>3, <2>4, <2>5, ControlsMove
<1>16. QED
  <2>1. (WellFormed /\ EverySchedule /\ ControlsMatchRecords)'
    BY <1>12, <1>14, <1>15 DEF EverySchedule
  <2>2. QED
    BY <2>1, InvBySchedule, PTL

--------------------------------------------------------------------------------
(* Changes of one schedule. *)

\* A record with one more note: all else of it is as before.
LEMMA NotedIs ==
  ASSUME NEW r, RecordOK(r), NEW q, RecordOK(q), q.history = r.history, NEW when \in Days, NEW action,
         NEW m, m = Noted(r, when, action, q)
  PROVE  /\ RecordOK(m) /\ Len(r.history) \in Nat /\ Len(m.history) = Len(r.history) + 1
         /\ m.kind = q.kind /\ m.reserved = q.reserved /\ m.supersedes = q.supersedes /\ m.status = q.status
         /\ m.generation = q.generation /\ m.start = q.start /\ m.remaining = q.remaining
         /\ Installments(m) = Installments(q) /\ BaseOf(m) = BaseOf(q) /\ \A a : Stored(m, a) = Stored(q, a)
<1> DEFINE note == [date |-> when, action |-> action, record |-> Kept(r)]
<1>1. /\ DOMAIN m = Fields /\ m.kind = q.kind /\ m.method = q.method /\ m.plan = q.plan /\ m.first = q.first
      /\ m.last = q.last /\ m.start = q.start /\ m.base = q.base /\ m.initial = q.initial /\ m.reserved = q.reserved
      /\ m.originDate = q.originDate /\ m.effectiveFrom = q.effectiveFrom /\ m.supersedes = q.supersedes
      /\ m.generation = q.generation /\ m.history = Append(r.history, note)
      /\ m.remaining = q.remaining /\ m.recognized = q.recognized /\ m.status = q.status
  BY DEF Noted, RecordOK, Fields
<1>2. Kept(r).base = r.base /\ Kept(r).initial = r.initial
  BY DEF Kept, RecordOK, Fields
<1>3. NoteOK(note)
  BY <1>2 DEF NoteOK, RecordOK, Scheduled
<1> HIDE DEF note
<1>4. HistoryOK(r)
  BY DEF RecordOK
<1>5. HistoryOK(m) /\ Len(r.history) \in Nat /\ Len(m.history) = Len(r.history) + 1
  BY <1>1, <1>3, <1>4, HistoryGrows
<1>6. Scheduled(m)
  BY <1>1 DEF RecordOK, Scheduled, Service
<1>7. RecordOK(m)
  BY <1>1, <1>5, <1>6 DEF RecordOK
<1>8. Installments(m) = Installments(q) /\ BaseOf(m) = BaseOf(q)
  BY <1>1 DEF Installments, Segments, SegmentEnd, Cents, Share, Weight, Denominator, BaseOf
<1>9. \A a : Stored(m, a) = Stored(q, a)
  BY <1>1 DEF Stored, ControlOf, NormalSign
<1>10. QED
  BY <1>1, <1>5, <1>7, <1>8, <1>9

\* What is handed back.
OffControl(r, a, n) == IF a = ControlOf(r) THEN -(NormalSign(r) * n) ELSE 0
ReleaseOK(s, when, left, back, rel) ==
  /\ DOMAIN rel = IF left + back > 0 THEN {ChangeId(s)} ELSE {}
  /\ \A x \in DOMAIN rel : rel[x].date = when /\ EntryOK(rel[x])
  /\ \A a \in Controls : \A x \in DOMAIN rel : rel[x].lines[a] = OffControl(schedules[s], a, left)
\* The entry that hands a balance back, on the control accounts.
LEMMA ReleaseIs ==
  ASSUME NEW s \in DOMAIN schedules, RecordOK(schedules[s]), NEW when \in Days, NEW left \in Nat, NEW back \in Nat
  PROVE  ReleaseOK(s, when, left, back, Release(s, when, left, back))
<1> DEFINE rel == Release(s, when, left, back)
           r == schedules[s]
           A == {ControlOf(r), "Bank", Category(r)}
           v == [a \in A |-> CASE a = ControlOf(r) -> -(NormalSign(r) * left)
                               [] a = "Bank"       -> NormalSign(r) * (left + back)
                               [] a = Category(r)  -> -(NormalSign(r) * back)]
<1>1. DOMAIN rel = IF left + back > 0 THEN {ChangeId(s)} ELSE {}
  BY DEF Release
<1>2. \A x \in DOMAIN rel : rel[x] = [date |-> when, lines |-> Lines(v)]
  BY <1>1 DEF Release
<1>3. r.kind \in Kinds /\ NormalSign(r) \in {1, -1}
  BY DEF RecordOK, NormalSign
<1>4. /\ ControlOf(r) \in Controls /\ Category(r) \notin Controls /\ "Bank" \notin Controls /\ Category(r) # "Bank"
      /\ Controls \subseteq ScheduleAccounts
  BY <1>3 DEF Controls, ControlOf, Category, Kinds, ScheduleAccounts
<1>5. -(NormalSign(r) * left) \in Int /\ NormalSign(r) * (left + back) \in Int /\ -(NormalSign(r) * back) \in Int
  BY <1>3
<1>6. \A a \in A : v[a] \in Int
  BY <1>4, <1>5
<1>7. \A a \in Controls : (a \in A <=> a = ControlOf(r)) /\ v[ControlOf(r)] = -(NormalSign(r) * left)
  BY <1>4
<1>8. DOMAIN v = A
  OBVIOUS
<1> HIDE DEF v, A
<1>9. Lines(v) \in [ScheduleAccounts -> Int]
  BY <1>6, <1>8 DEF Lines
<1>10. \A a \in Controls : Lines(v)[a] = OffControl(r, a, left)
  <2> TAKE a \in Controls
  <2>1. CASE a = ControlOf(r)
    BY <2>1, <1>4, <1>7, <1>8 DEF Lines, OffControl
  <2>2. CASE a # ControlOf(r)
    BY <2>2, <1>4, <1>7, <1>8 DEF Lines, OffControl
  <2>3. QED
    BY <2>1, <2>2
<1>11. \A x \in DOMAIN rel : rel[x].date = when /\ rel[x].lines = Lines(v)
  BY <1>2
<1> HIDE DEF rel
<1>12. ReleaseOK(s, when, left, back, rel)
  BY <1>1, <1>9, <1>10, <1>11 DEF EntryOK, ReleaseOK
<1>13. QED
  BY <1>12 DEF rel

\* The id of a change is not in the books yet.
LEMMA ChangeIdIsFresh ==
  ASSUME WellFormed, NEW s \in DOMAIN schedules
  PROVE  /\ ChangeId(s) \notin DOMAIN schedAllocs /\ ChangeId(s) \notin DOMAIN schedLedger
         /\ ChangeId(s)[1] # "recognition"
<1> DEFINE x == ChangeId(s)
           n == Len(schedules[s].history) + 1
<1>1. x = <<"change", s, n, 0>>
  BY DEF ChangeId, Id
<1>2. x \notin DOMAIN schedAllocs
  <2> SUFFICES ASSUME x \in DOMAIN schedAllocs PROVE FALSE
    OBVIOUS
  <2>1. AllocOK(x, schedAllocs[x], schedules)
    BY DEF WellFormed, AllocsOK
  <2>2. PICK k \in 1..Len(schedules[schedAllocs[x].schedule].history) : x = Id("change", schedAllocs[x].schedule, k, 0)
    BY <2>1, <1>1 DEF AllocOK, Id
  <2>3. s = schedAllocs[x].schedule /\ n = k
    BY <2>2, <1>1 DEF Id
  <2>4. Len(schedules[s].history) \in Nat
    <3>1. PICK H : schedules[s].history \in Seq(H)
      BY DEF WellFormed, RecordsOK, RecordOK, HistoryOK
    <3>2. QED
      BY <3>1
  <2>5. QED
    BY <2>2, <2>3, <2>4
<1>3. x # Payment /\ (\A m : x # Id("reclass", m, 0, 0)) /\ x[1] # "recognition"
  BY <1>1 DEF Payment, Id
<1>4. x \notin DOMAIN schedLedger
  BY <1>2, <1>3 DEF WellFormed, LedgerOK
<1>5. QED
  BY <1>2, <1>3, <1>4

\* Parts of one schedule as a batch; there may be none.
LEMMA PartsWrite ==
  ASSUME SchedInv, NEW s \in DOMAIN schedules, NEW P, P # {} => Recognizable(s, P), NEW Q, Q = PartsOf(s, P)
  PROVE  /\ DOMAIN Entries(Q) = PartIds(Q) /\ DOMAIN Allocations(Q) = PartIds(Q) /\ IsFiniteSet(PartIds(Q))
         /\ \A x \in PartIds(Q) :
              /\ x \notin DOMAIN schedAllocs /\ x \notin DOMAIN schedLedger /\ x[1] = "recognition" /\ x[2] = s
              /\ \E p \in P : /\ x = RecognitionId(s, schedules[s], p)
                              /\ Allocations(Q)[x].date = p.date /\ Allocations(Q)[x].from = p.from
                              /\ Entries(Q)[x].date = p.date
              /\ EntryOK(Entries(Q)[x])
              /\ \A R : (s \in DOMAIN R /\ schedules[s].generation \in 0..R[s].generation) => AllocOK(x, Allocations(Q)[x], R)
         /\ \A a \in Controls :
              SumFunctionOnSet([x \in PartIds(Q) |-> Entries(Q)[x].lines[a]], PartIds(Q)) = Coef(schedules[s], a) * Sum(P)
         /\ Sum(P) \in Nat
<1> DEFINE S == {s}
           D == [x \in S |-> P]
<1>1. CASE P = {}
  <2>1. Q = {}
    BY <1>1 DEF PartsOf
  <2>2. PartIds(Q) = {}
    BY <2>1 DEF PartIds
  <2>3. DOMAIN Entries(Q) = {} /\ DOMAIN Allocations(Q) = {}
    BY <2>1 DEF Entries, Allocations
  <2>4. Sum(P) = 0
    <3>1. Sum(P) = SumFunctionOnSet([p \in {} |-> p.amount], {})
      BY <1>1, SumAll DEF Sum
    <3>2. QED
      BY <3>1, SumEmpty
  <2>5. ASSUME NEW a \in Controls
        PROVE SumFunctionOnSet([x \in PartIds(Q) |-> Entries(Q)[x].lines[a]], PartIds(Q)) = Coef(schedules[s], a) * Sum(P)
    <3> DEFINE z == [x \in PartIds(Q) |-> Entries(Q)[x].lines[a]]
    <3>1. Coef(schedules[s], a) \in Int
      <4>1. schedules[s].kind \in Kinds
        BY DEF SchedInv, WellFormed, RecordsOK, RecordOK
      <4>2. QED
        BY <4>1, RecognitionLinesAre, 0 \in Int
    <3>2. Coef(schedules[s], a) * Sum(P) = 0
      BY <3>1, <2>4
    <3> HIDE DEF z
    <3>3. SumFunctionOnSet(z, PartIds(Q)) = 0
      BY <2>2, SumEmpty
    <3>4. QED
      BY <3>2, <3>3 DEF z
  <2>6. IsFiniteSet(PartIds(Q))
    BY <2>2, FS_EmptySet
  <2>7. QED
    BY <2>2, <2>3, <2>4, <2>5, <2>6
<1>2. CASE P # {}
  <2>1. Q = Batch(S, D)
    BY DEF Batch
  <2>2. IsFiniteSet(S) /\ \A x \in S : Recognizable(x, D[x])
    BY <1>2, FS_Singleton
  <2>3. D[s] = P /\ s \in S /\ \A x \in S : x = s
    OBVIOUS
  <2>4. Sum(P) \in Nat
    BY <1>2, SumParts DEF Recognizable
  <2> HIDE DEF S, D
  <2>5. DOMAIN Entries(Q) = PartIds(Q) /\ DOMAIN Allocations(Q) = PartIds(Q) /\ IsFiniteSet(PartIds(Q))
    BY <2>1, <2>2, BatchIs
  <2>6. ASSUME NEW x \in PartIds(Q)
        PROVE /\ x \notin DOMAIN schedAllocs /\ x \notin DOMAIN schedLedger /\ x[1] = "recognition" /\ x[2] = s
              /\ \E p \in P : /\ x = RecognitionId(s, schedules[s], p)
                              /\ Allocations(Q)[x].date = p.date /\ Allocations(Q)[x].from = p.from
                              /\ Entries(Q)[x].date = p.date
              /\ EntryOK(Entries(Q)[x])
              /\ \A R : (s \in DOMAIN R /\ schedules[s].generation \in 0..R[s].generation) => AllocOK(x, Allocations(Q)[x], R)
    <3>1. x[2] \in S
      BY <2>1, <2>2, BatchWrites
    <3>2. x[2] = s /\ D[x[2]] = P
      BY <3>1, <2>3
    <3>3. \A R : (x[2] \in DOMAIN R /\ schedules[x[2]].generation \in 0..R[x[2]].generation) => AllocOK(x, Allocations(Q)[x], R)
      BY <2>1, <2>2, BatchWrites
    <3>4. /\ x \notin DOMAIN schedAllocs /\ x \notin DOMAIN schedLedger /\ x[1] = "recognition"
          /\ EntryOK(Entries(Q)[x])
      BY <2>1, <2>2, BatchWrites
    <3>5. \E p \in D[x[2]] : /\ x = RecognitionId(x[2], schedules[x[2]], p)
                              /\ Allocations(Q)[x].date = p.date /\ Allocations(Q)[x].from = p.from
                              /\ Entries(Q)[x].date = p.date
      BY <2>1, <2>2, BatchWrites
    <3>6. QED
      BY <3>2, <3>3, <3>4, <3>5
  <2>7. ASSUME NEW a \in Controls
        PROVE SumFunctionOnSet([x \in PartIds(Q) |-> Entries(Q)[x].lines[a]], PartIds(Q)) = Coef(schedules[s], a) * Sum(P)
    <3> DEFINE z == [x \in PartIds(Q) |-> Entries(Q)[x].lines[a]]
               k == [x \in S |-> Coef(schedules[x], a) * Sum(D[x])]
    <3>1. \A x \in DOMAIN Entries(Q) : z[x] = Entries(Q)[x].lines[a]
      BY <2>5
    <3> HIDE DEF z
    <3>2. SumFunctionOnSet(z, DOMAIN Entries(Q)) = SumFunctionOnSet(k, S) /\ Coef(schedules[s], a) \in Int
      BY <3>1, <2>1, <2>2, <2>3, SumBatch
    <3>3. k[s] = Coef(schedules[s], a) * Sum(P) /\ k[s] \in Int
      BY <2>3, <2>4, <3>2
    <3> HIDE DEF k
    <3>4. SumFunctionOnSet(k, {s}) = k[s]
      BY <3>3, SumOne
    <3>5. SumFunctionOnSet(z, PartIds(Q)) = Coef(schedules[s], a) * Sum(P)
      BY <3>2, <3>3, <3>4, <2>5 DEF S
    <3>6. QED
      BY <3>5 DEF z
  <2>8. QED
    BY <2>4, <2>5, <2>6, <2>7
<1>3. QED
  BY <1>1, <1>2

\* What a change moves on the control accounts, and how it leaves a schedule.
Moves(r, q, P, n) == \A c \in Controls : Stored(q, c) - Stored(r, c) = Coef(r, c) * Sum(P) + OffControl(r, c, n)
Ends(r, q) == q.status # "active" /\ q.generation = r.generation /\ q.start = r.start
Renews(s, r, q) ==
  /\ q.generation > r.generation /\ \A d \in PostedDates(s) : d < q.start
  /\ q.remaining = BaseOf(q) /\ q.remaining > 0
Leaves(s, r, q, P) == Ends(r, q) \/ (P = {} /\ Renews(s, r, q))
Follows(r, q) ==
  /\ RecordOK(q) /\ q.history = r.history /\ q.generation >= r.generation
  /\ q.kind = r.kind /\ q.reserved = r.reserved /\ q.supersedes = r.supersedes
  /\ q.originDate = r.originDate /\ q.effectiveFrom = r.effectiveFrom
Recognizes(s, P) == P = {} \/ Recognizable(s, P)
Hands(s, when, given, back, rel) == rel = Release(s, when, given, back) \/ (DOMAIN rel = {} /\ given = 0)

\* A change of one schedule: it recognizes some parts, hands some balance back, and
\* leaves a record that is either ended or of a new generation.
LEMMA ChangeKeeps ==
  ASSUME SchedInv, NEW s \in DOMAIN schedules, NEW when \in Days, NEW action, NEW q, NEW e, NEW a,
         Change(s, when, action, q, e, a), Follows(schedules[s], q),
         NEW P, Recognizes(s, P), NEW given \in Nat, Moves(schedules[s], q, P, given), Leaves(s, schedules[s], q, P),
         NEW left \in Nat, NEW back \in Nat, NEW rel, Hands(s, when, given, back, rel),
         Wrote(e, Entries(PartsOf(s, P)), rel),
         Wrote(a, Allocations(PartsOf(s, P)), Returned(s, when, left, back))
  PROVE  SchedInv'
<1> DEFINE r == schedules[s]
           Q == PartsOf(s, P)
<1>h. /\ P # {} => Recognizable(s, P)
      /\ rel = Release(s, when, given, back) \/ (DOMAIN rel = {} /\ given = 0)
      /\ Wrote(e, Entries(Q), rel) /\ Wrote(a, Allocations(Q), Returned(s, when, left, back))
      /\ RecordOK(q) /\ q.history = r.history /\ q.generation >= r.generation
      /\ q.kind = r.kind /\ q.reserved = r.reserved /\ q.supersedes = r.supersedes
      /\ \A c \in Controls : Stored(q, c) - Stored(r, c) = Coef(r, c) * Sum(P) + OffControl(r, c, given)
      /\ \/ q.status # "active" /\ q.generation = r.generation /\ q.start = r.start
         \/ /\ P = {} /\ q.generation > r.generation /\ \A d \in PostedDates(s) : d < q.start
            /\ q.remaining = BaseOf(q) /\ q.remaining > 0
  BY DEF Recognizes, Hands, Moves, Leaves, Ends, Renews, Follows
<1>r. r = schedules[s] /\ Q = PartsOf(s, P)
  OBVIOUS
<1> HIDE DEF r, Q
<1> USE <1>h, <1>r
<1> DEFINE m == Noted(r, when, action, q)
           R == [x \in {s} |-> m]
           y == ChangeId(s)
           ret == Returned(s, when, left, back)
<1>0. /\ WellFormed /\ RecordsOK /\ LedgerOK /\ ControlsMatchRecords
      /\ \A z \in DOMAIN schedules : RecordOK(schedules[z]) /\ ScheduleOK(z)
      /\ Payment \in DOMAIN schedLedger /\ RecordOK(r)
  BY InvBySchedule DEF WellFormed, RecordsOK, LedgerOK, EverySchedule
<1>1. /\ schedules' = Saved(R) /\ schedLedger' = Posted(e) /\ schedAllocs' = Allocated(a) /\ closed' = closed
  BY DEF Change
<1>2. Wrote(schedules', R, schedules) /\ Wrote(schedLedger', e, schedLedger) /\ Wrote(schedAllocs', a, schedAllocs)
  BY <1>1, OverWrites DEF Saved, Posted, Allocated
<1>3. DOMAIN R = {s} /\ R[s] = m
  OBVIOUS
<1>4. /\ RecordOK(m) /\ Len(r.history) \in Nat /\ Len(m.history) = Len(r.history) + 1
      /\ m.kind = q.kind /\ m.reserved = q.reserved /\ m.supersedes = q.supersedes /\ m.status = q.status
      /\ m.generation = q.generation /\ m.start = q.start /\ m.remaining = q.remaining
      /\ BaseOf(m) = BaseOf(q) /\ \A c : Stored(m, c) = Stored(q, c)
  BY <1>0, NotedIs
<1> HIDE DEF m, R
<1>5. schedules'[s] = m /\ \A z \in DOMAIN schedules : z # s => schedules'[z] = schedules[z]
  BY <1>2, <1>3 DEF Wrote
<1>6. DOMAIN schedules' = DOMAIN schedules
  BY <1>2, <1>3 DEF Wrote
<1>7. Continues(r, m) /\ r.generation \in Nat /\ m.generation \in Nat
  BY <1>0, <1>4 DEF Continues, RecordOK
<1>8. /\ DOMAIN Entries(Q) = PartIds(Q) /\ DOMAIN Allocations(Q) = PartIds(Q) /\ IsFiniteSet(PartIds(Q))
      /\ Sum(P) \in Nat
  BY PartsWrite
<1>9. \A x \in PartIds(Q) :
              /\ x \notin DOMAIN schedAllocs /\ x \notin DOMAIN schedLedger /\ x[1] = "recognition" /\ x[2] = s
              /\ \E p \in P : /\ x = RecognitionId(s, schedules[s], p)
                              /\ Allocations(Q)[x].date = p.date /\ Allocations(Q)[x].from = p.from
              /\ EntryOK(Entries(Q)[x])
  BY PartsWrite
<1>10. \A x \in PartIds(Q) : AllocOK(x, Allocations(Q)[x], schedules')
  <2> TAKE x \in PartIds(Q)
  <2>1. \A K : (s \in DOMAIN K /\ schedules[s].generation \in 0..K[s].generation) => AllocOK(x, Allocations(Q)[x], K)
    BY PartsWrite
  <2>2. s \in DOMAIN schedules' /\ schedules[s].generation \in 0..schedules'[s].generation
    BY <1>4, <1>5, <1>6, <1>7
  <2>3. QED
    BY <2>1, <2>2
<1>11. y \notin DOMAIN schedAllocs /\ y \notin DOMAIN schedLedger /\ y[1] # "recognition" /\ y \notin PartIds(Q)
  BY <1>0, <1>9, ChangeIdIsFresh
<1>12. /\ DOMAIN rel \subseteq {y}
       /\ \A x \in DOMAIN rel : EntryOK(rel[x])
       /\ \A c \in Controls : \A x \in DOMAIN rel : rel[x].lines[c] = OffControl(r, c, given)
       /\ DOMAIN rel = {} => given = 0
  <2>1. CASE rel = Release(s, when, given, back)
    <3>1. /\ DOMAIN rel = IF given + back > 0 THEN {y} ELSE {}
          /\ \A x \in DOMAIN rel : EntryOK(rel[x])
          /\ \A c \in Controls : \A x \in DOMAIN rel : rel[x].lines[c] = OffControl(r, c, given)
      <4>1. RecordOK(schedules[s])
        BY <1>0
      <4>2. ReleaseOK(s, when, given, back, Release(s, when, given, back))
        BY <4>1, ReleaseIs
      <4>3. ReleaseOK(s, when, given, back, rel)
        BY <4>2, <2>1
      <4>4. QED
        BY <4>3 DEF ReleaseOK
    <3>2. DOMAIN rel = {} => given = 0
      BY <3>1
    <3>3. QED
      BY <3>1, <3>2
  <2>2. CASE DOMAIN rel = {} /\ given = 0
    BY <2>2
  <2>3. QED
    BY <2>1, <2>2
<1>13. /\ DOMAIN ret = {y}
       /\ ret[y] = [schedule |-> s, date |-> when, from |-> when, amount |-> left, refund |-> back]
  BY DEF Returned
<1>14. AllocOK(y, ret[y], schedules')
  <2>1. y = Id("change", s, Len(r.history) + 1, 0) /\ Len(r.history) + 1 \in 1..Len(schedules'[s].history)
    BY <1>4, <1>5 DEF ChangeId
  <2>2. ret[y].schedule = s /\ ret[y].date = when /\ ret[y].from = when /\ ret[y].amount = left
    BY <1>13
  <2>3. when \in Int
    BY DaysFinite
  <2>4. QED
    BY <2>1, <2>2, <2>3, <1>6 DEF AllocOK
<1> HIDE DEF y, ret
<1>15. /\ DOMAIN e = PartIds(Q) \union DOMAIN rel
       /\ \A x \in PartIds(Q) : e[x] = Entries(Q)[x]
       /\ \A x \in DOMAIN rel : e[x] = rel[x]
  BY <1>8, <1>11, <1>12 DEF Wrote
<1>16. /\ DOMAIN a = PartIds(Q) \union {y}
       /\ \A x \in PartIds(Q) : a[x] = Allocations(Q)[x]
       /\ a[y] = ret[y]
  BY <1>8, <1>11, <1>13 DEF Wrote, ret
<1>17. /\ IsFiniteSet(DOMAIN e) /\ IsFiniteSet(DOMAIN a) /\ IsFiniteSet(DOMAIN rel)
       /\ DOMAIN e \subseteq DOMAIN a
  <2>1. IsFiniteSet({y})
    BY FS_Singleton
  <2>2. IsFiniteSet(DOMAIN rel)
    BY <2>1, <1>12, FS_Subset
  <2>3. IsFiniteSet(PartIds(Q) \union DOMAIN rel) /\ IsFiniteSet(PartIds(Q) \union {y})
    BY <2>1, <2>2, <1>8, FS_Union
  <2>4. QED
    BY <2>2, <2>3, <1>12, <1>15, <1>16
<1>18. /\ DOMAIN e \cap DOMAIN schedLedger = {} /\ DOMAIN a \cap DOMAIN schedAllocs = {}
       /\ (\A x \in DOMAIN e : EntryOK(e[x])) /\ \A x \in DOMAIN a : AllocOK(x, a[x], schedules')
  BY <1>9, <1>10, <1>11, <1>12, <1>14, <1>15, <1>16
<1>19. /\ DOMAIN R \subseteq Schedules /\ (\A z \in DOMAIN R : RecordOK(R[z]))
       /\ \A z \in DOMAIN R \cap DOMAIN schedules : Continues(schedules[z], R[z])
  BY <1>0, <1>3, <1>4, <1>7 DEF RecordsOK
<1>20. WellFormed' /\ \A b : Paid(b)' = Paid(b)
  <2>1. closed' \subseteq MonthStarts
    BY <1>0, <1>1 DEF RecordsOK
  <2>2. \A x \in DOMAIN e : EntryOK(e[x]) /\ x \in DOMAIN a
    BY <1>17, <1>18
  <2>3. QED
    BY <1>0, <1>2, <1>17, <1>18, <1>19, <2>1, <2>2, Transaction
<1>21. ScheduleOK(s)'
  <2>0. OnceOf(s) /\ FollowsOf(s)
    BY <1>0 DEF ScheduleOK
  <2>1. \A x \in DOMAIN a : (x[1] = "recognition" /\ x[2] = s) =>
            \E p \in P : x = RecognitionId(s, schedules[s], p) /\ a[x].date = p.date /\ a[x].from = p.from
    BY <1>9, <1>11, <1>16
  <2>2. /\ OnceOf(s)'
        /\ \A x \in Recognitions(s)' : \/ x \in Recognitions(s) /\ schedAllocs'[x] = schedAllocs[x]
                                       \/ \E p \in P : x = RecognitionId(s, schedules[s], p) /\ schedAllocs'[x].date = p.date
                                                       /\ schedAllocs'[x].from = p.from
    BY <2>0, <2>1, <1>2, <1>18, OnceAfter
  <2>3. CASE q.status # "active" /\ q.generation = r.generation /\ q.start = r.start
    <3>1. RemainderOf(s)'
      BY <2>3, <1>4, <1>5 DEF RemainderOf
    <3>2. FollowsOf(s)'
      <4> SUFFICES ASSUME NEW x \in Recognitions(s)', x[3] < r.generation
                   PROVE  schedAllocs'[x].date < r.start
        BY <2>3, <1>4, <1>5 DEF FollowsOf
      <4>1. ASSUME NEW p \in P, x = RecognitionId(s, schedules[s], p) PROVE FALSE
        <5>1. x[3] = r.generation
          BY <4>1 DEF RecognitionId, Id
        <5>2. QED
          BY <5>1, <1>7
      <4>2. x \in Recognitions(s) /\ schedAllocs'[x] = schedAllocs[x]
        BY <4>1, <2>2
      <4>3. QED
        BY <4>2, <2>0 DEF FollowsOf
    <3>3. QED
      BY <2>2, <3>1, <3>2 DEF ScheduleOK
  <2>4. CASE /\ P = {} /\ q.generation > r.generation /\ \A d \in PostedDates(s) : d < q.start
             /\ q.remaining = BaseOf(q) /\ q.remaining > 0
    <3>1. \A x \in Recognitions(s)' : x[3] < schedules'[s].generation /\ schedAllocs'[x].date < schedules'[s].start
      <4> TAKE x \in Recognitions(s)'
      <4>1. x \in Recognitions(s) /\ schedAllocs'[x] = schedAllocs[x]
        BY <2>2, <2>4
      <4>2. x[3] \in 0..r.generation
        BY <4>1, <1>0, RecognitionIs
      <4>3. schedAllocs[x].date \in PostedDates(s)
        BY <4>1 DEF PostedDates, Recognitions
      <4>4. QED
        BY <4>1, <4>2, <4>3, <2>4, <1>4, <1>5, <1>7
    <3>2. RecordOK(schedules'[s]) /\ schedules'[s].remaining = BaseOf(schedules'[s]) /\ schedules'[s].remaining > 0
      BY <2>4, <1>4, <1>5
    <3>3. QED
      BY <3>1, <3>2, <2>2, NewGeneration
  <2>5. QED
    BY <2>3, <2>4
<1>22. ASSUME NEW z \in DOMAIN schedules' PROVE ScheduleOK(z)'
  <2>1. CASE z = s
    BY <2>1, <1>21
  <2>2. CASE z # s
    <3>1. z \in DOMAIN schedules /\ ScheduleOK(z) /\ schedules'[z] = schedules[z]
      BY <2>2, <1>0, <1>5, <1>6
    <3>2. \A x \in DOMAIN a : ~(x[1] = "recognition" /\ x[2] = z)
      BY <2>2, <1>9, <1>11, <1>16
    <3>3. QED
      BY <3>1, <3>2, <1>2, <1>18, UntouchedSchedule
  <2>3. QED
    BY <2>1, <2>2
<1>23. ControlsMatchRecords'
  <2> DEFINE f == [c \in Controls |-> [x \in DOMAIN e |-> e[x].lines[c]]]
             g == [c \in Controls |-> [z \in {s} |-> Stored(m, c) - Stored(r, c)]]
             h == [c \in Controls |-> [x \in PartIds(Q) |-> Entries(Q)[x].lines[c]]]
  <2>1. \A c \in Controls : \A x \in DOMAIN e : f[c][x] = e[x].lines[c]
    OBVIOUS
  <2>2. \A c \in Controls : \A z \in DOMAIN R : g[c][z] = Stored(R[z], c) - Before(z, c)
    BY <1>3 DEF Before
  <2>3. ASSUME NEW c \in Controls PROVE SumFunctionOnSet(f[c], DOMAIN e) = SumFunctionOnSet(g[c], DOMAIN R)
    <3> DEFINE G == OffControl(r, c, given)
    <3>0. c \in ScheduleAccounts
      BY DEF Controls, ScheduleAccounts
    <3>1. Coef(r, c) \in Int /\ G \in Int
      <4>1. r.kind \in Kinds /\ NormalSign(r) \in {1, -1}
        BY <1>0 DEF RecordOK, NormalSign
      <4>2. Coef(r, c) \in Int
        BY <4>1, RecognitionLinesAre, 0 \in Int
      <4>3. QED
        BY <4>1, <4>2 DEF OffControl
    <3>2. g[c][s] = Coef(r, c) * Sum(P) + G
      BY <1>4
    <3>3. Coef(r, c) * Sum(P) \in Int
      BY <3>1, <1>8
    <3>4. SumFunctionOnSet(h[c], PartIds(Q)) = Coef(r, c) * Sum(P)
      <4>1. \A b \in Controls :
              SumFunctionOnSet([x \in PartIds(Q) |-> Entries(Q)[x].lines[b]], PartIds(Q)) = Coef(schedules[s], b) * Sum(P)
        BY PartsWrite
      <4>2. h[c] = [x \in PartIds(Q) |-> Entries(Q)[x].lines[c]]
        OBVIOUS
      <4> HIDE DEF h
      <4>3. QED
        BY <4>1, <4>2
    <3>5. \A x \in DOMAIN e : f[c][x] \in Int
      BY <3>0, <1>18 DEF EntryOK
    <3>6. \A x \in PartIds(Q) : f[c][x] = h[c][x]
      BY <1>15
    <3>7. \A x \in DOMAIN rel : f[c][x] = G
      BY <1>12, <1>15, <3>1
    <3>8. PartIds(Q) \cap DOMAIN rel = {}
      BY <1>11, <1>12
    <3> HIDE DEF f, g, h, G
    <3>9. SumFunctionOnSet(f[c], PartIds(Q) \union DOMAIN rel)
            = SumFunctionOnSet(f[c], PartIds(Q)) + SumFunctionOnSet(f[c], DOMAIN rel)
      BY <3>5, <3>8, <1>8, <1>15, <1>17, SumUnion
    <3>10. SumFunctionOnSet(f[c], PartIds(Q)) = SumFunctionOnSet(h[c], PartIds(Q))
      BY <3>6, <1>8, SumSame
    <3>11. SumFunctionOnSet(f[c], DOMAIN rel) = G
      <4>1. CASE DOMAIN rel = {}
        <5>1. G = 0
          <6>1. given = 0 /\ NormalSign(r) \in {1, -1}
            BY <4>1, <1>12 DEF NormalSign
          <6>2. -(NormalSign(r) * given) = 0
            BY <6>1
          <6>3. QED
            BY <6>2 DEF G, OffControl
        <5>2. SumFunctionOnSet(f[c], DOMAIN rel) = 0
          BY <4>1, SumEmpty
        <5>3. QED
          BY <5>1, <5>2
      <4>2. CASE DOMAIN rel = {y}
        <5>1. f[c][y] = G /\ f[c][y] \in Int
          BY <4>2, <3>1, <3>7
        <5>2. SumFunctionOnSet(f[c], {y}) = f[c][y]
          BY <5>1, SumOne
        <5>3. QED
          BY <5>1, <5>2, <4>2
      <4>3. QED
        BY <4>1, <4>2, <1>12
    <3>12. SumFunctionOnSet(g[c], DOMAIN R) = Coef(r, c) * Sum(P) + G
      <4>1. g[c][s] \in Int
        BY <3>1, <3>2, <3>3
      <4>2. SumFunctionOnSet(g[c], {s}) = g[c][s]
        BY <4>1, SumOne
      <4>3. QED
        BY <4>2, <3>2, <1>3
    <3>13. QED
      BY <3>1, <3>3, <3>4, <3>9, <3>10, <3>11, <3>12, <1>15
  <2>4. \A c \in Controls : Unlinked(c)' = Unlinked(c)
    <3>1. Payment' = Payment /\ Payment' \in DOMAIN schedLedger'
      BY <1>0, <1>2 DEF Payment, Id, Wrote
    <3>2. \A z \in DOMAIN R \cap DOMAIN schedules :
           R[z].kind = schedules[z].kind /\ R[z].reserved = schedules[z].reserved /\ R[z].supersedes = schedules[z].supersedes
      BY <1>3, <1>4
    <3>3. \A z \in DOMAIN R \ DOMAIN schedules : R[z].supersedes # {}
      BY <1>3
    <3>4. QED
      BY <3>1, <3>2, <3>3, <1>0, <1>2, <1>20, UnlinkedStays
  <2>5. /\ IsFiniteSet(DOMAIN e) /\ DOMAIN e \cap DOMAIN schedLedger = {} /\ \A x \in DOMAIN e : EntryOK(e[x])
        /\ DOMAIN R \subseteq Schedules /\ \A z \in DOMAIN R : RecordOK(R[z])
    BY <1>17, <1>18, <1>19
  <2> HIDE DEF f, g
  <2>6. QED
    BY ONLY <1>0, <1>2, <2>1, <2>2, <2>3, <2>4, <2>5, ControlsMove
<1>24. QED
  <2>1. (WellFormed /\ EverySchedule /\ ControlsMatchRecords)'
    BY <1>20, <1>22, <1>23 DEF EverySchedule
  <2>2. QED
    BY <2>1, InvBySchedule, PTL

\* What a change hands back, and when: a depreciation is never handed back.
Exactly(s, when, q, given, left, back, rel) ==
  LET r == schedules[s] IN
  /\ r.status # "superseded" /\ q.status # "superseded" /\ r.start <= q.start
  /\ when >= r.originDate /\ when >= r.effectiveFrom
  /\ IF r.kind = "depreciation" THEN DOMAIN rel = {} ELSE given = left /\ rel = Release(s, when, left, back)

\* The changes of schedules.py that write one transaction for one schedule.
Changing(s, when, action, q, e, a, P, given, left, back, rel) ==
  /\ Change(s, when, action, q, e, a) /\ Follows(schedules[s], q) /\ action # "supersede"
  /\ Recognizes(s, P) /\ Moves(schedules[s], q, P, given) /\ Leaves(s, schedules[s], q, P)
  /\ Hands(s, when, given, back, rel) /\ Exactly(s, when, q, given, left, back, rel)
  /\ Wrote(e, Entries(PartsOf(s, P)), rel)
  /\ Wrote(a, Allocations(PartsOf(s, P)), Returned(s, when, left, back))
IsChange(s, when) ==
  \E given, left, back \in Nat : \E action, q, e, a, P, rel :
    Changing(s, when, action, q, e, a, P, given, left, back, rel)

\* The witnesses of such a change.
LEMMA IsChangeOf ==
  ASSUME NEW s, NEW when, NEW given \in Nat, NEW left \in Nat, NEW back \in Nat,
         NEW action, NEW q, NEW e, NEW a, NEW P, NEW rel,
         Changing(s, when, action, q, e, a, P, given, left, back, rel)
  PROVE  IsChange(s, when)
<1> HIDE DEF Changing
<1>1. QED
  BY DEF IsChange

\* Each of them keeps the invariant.
LEMMA IsChangeKeeps ==
  ASSUME SchedInv, NEW s \in DOMAIN schedules, NEW when \in Days, IsChange(s, when)
  PROVE  SchedInv'
<1>a. PICK given, left, back \in Nat : \E action, q, e, a, P, rel :
        Changing(s, when, action, q, e, a, P, given, left, back, rel)
  BY DEF IsChange
<1>1. PICK action, q, e, a, P, rel : Changing(s, when, action, q, e, a, P, given, left, back, rel)
  BY <1>a
<1>2. QED
  BY <1>1, ChangeKeeps DEF Changing

\* Nothing recognized.
LEMMA NoParts ==
  ASSUME NEW s
  PROVE  Sum({}) = 0 /\ \A g : Wrote(g, Entries(PartsOf(s, {})), g) /\ Wrote(g, Allocations(PartsOf(s, {})), g)
<1>1. Sum({}) = 0
  <2>1. Sum({}) = SumFunctionOnSet([p \in {} |-> p.amount], {})
    BY SumAll DEF Sum
  <2>2. QED
    BY <2>1, SumEmpty
<1>2. PartsOf(s, {}) = {}
  BY DEF PartsOf
<1>3. DOMAIN Entries(PartsOf(s, {})) = {} /\ DOMAIN Allocations(PartsOf(s, {})) = {}
  BY <1>2 DEF Entries, Allocations
<1>4. QED
  BY <1>1, <1>3 DEF Wrote

\* A balance that loses what is recognized and what is handed back.
LEMMA StoredChange ==
  ASSUME NEW r, RecordOK(r), NEW q, RecordOK(q), q.kind = r.kind, NEW m \in Nat, NEW n \in Nat,
         r.kind # "depreciation" => q.remaining = r.remaining - m - n,
         r.kind = "depreciation" => q.recognized = r.recognized + m /\ n = 0,
         NEW c \in Controls
  PROVE  Stored(q, c) - Stored(r, c) = Coef(r, c) * m + OffControl(r, c, n)
<1>1. /\ r.remaining \in Int /\ r.recognized \in Int /\ NormalSign(r) \in {1, -1} /\ Amount \in Int
      /\ q.remaining \in Int /\ q.recognized \in Int
  BY SchedAssumption DEF RecordOK, NormalSign
<1>2. NormalSign(q) = NormalSign(r) /\ ControlOf(q) = ControlOf(r)
  BY DEF NormalSign, ControlOf
<1>3. CASE r.kind = "depreciation"
  <2>1. /\ Stored(r, c) = IF c = "Accumulated" THEN -r.recognized ELSE IF c = "Equipment" THEN Amount ELSE 0
        /\ Stored(q, c) = IF c = "Accumulated" THEN -(r.recognized + m) ELSE IF c = "Equipment" THEN Amount ELSE 0
        /\ Coef(r, c) = IF c = "Accumulated" THEN -1 ELSE 0
    BY <1>3 DEF Stored, Coef, CreditAccount, NormalSign
  <2>2. OffControl(r, c, n) = 0
    <3>1. n = 0 /\ NormalSign(r) \in {1, -1}
      BY <1>1, <1>3
    <3>2. -(NormalSign(r) * n) = 0
      BY <3>1
    <3>3. QED
      BY <3>2 DEF OffControl
  <2>3. QED
    BY <2>1, <2>2, <1>1
<1>4. CASE r.kind # "depreciation"
  <2>1. CASE c = ControlOf(r)
    <3>1. /\ Stored(r, c) = NormalSign(r) * r.remaining
          /\ Stored(q, c) = NormalSign(r) * (r.remaining - m - n)
          /\ Coef(r, c) = -NormalSign(r) /\ OffControl(r, c, n) = -(NormalSign(r) * n)
      BY <1>2, <1>4, <2>1 DEF Stored, Coef, CreditAccount, OffControl
    <3>2. QED
      BY <3>1, <1>1
  <2>2. CASE c # ControlOf(r)
    <3>1. Stored(r, c) = 0 /\ Stored(q, c) = 0 /\ Coef(r, c) = 0 /\ OffControl(r, c, n) = 0
      BY <1>2, <1>4, <2>2 DEF Stored, Coef, CreditAccount, OffControl
    <3>2. QED
      BY <3>1
  <2>3. QED
    BY <2>1, <2>2
<1>5. QED
  BY <1>3, <1>4

\* The day after the later of two.
LEMMA MaxOfTwo ==
  ASSUME NEW a \in Int, NEW b \in Int
  PROVE  Max({a, b}) \in {a, b} /\ Max({a, b}) >= a /\ Max({a, b}) >= b
<1>1. IsFiniteSet({a, b})
  <2>1. IsFiniteSet({a}) /\ IsFiniteSet({b})
    BY FS_Singleton
  <2>2. {a, b} = {a} \union {b}
    OBVIOUS
  <2>3. IsFiniteSet({a} \union {b})
    BY <2>1, FS_Union
  <2>4. QED
    BY <2>2, <2>3
<1>2. {a, b} # {} /\ {a, b} \subseteq Int
  OBVIOUS
<1>3. Max({a, b}) \in {a, b} /\ \A y \in {a, b} : Max({a, b}) >= y
  BY <1>1, <1>2, MaxIs
<1>4. QED
  BY <1>3

\* A change is no earlier than the balance it changes.
LEMMA ChangeFollows ==
  ASSUME NEW s \in DOMAIN schedules, RecordOK(schedules[s]), NEW when \in Days, NEW guard, MayChange(s, when, guard)
  PROVE  when >= schedules[s].originDate /\ when >= schedules[s].effectiveFrom
<1> DEFINE r == schedules[s]
<1>1. r.originDate \in Int /\ r.effectiveFrom \in Int /\ when \in Int
  BY DaysFinite, SchedAssumption DEF RecordOK
<1>2. when >= Max({r.originDate, r.effectiveFrom})
  BY DEF MayChange
<1> HIDE DEF r
<1>3. Max({r.originDate, r.effectiveFrom}) \in Int
      /\ Max({r.originDate, r.effectiveFrom}) >= r.originDate /\ Max({r.originDate, r.effectiveFrom}) >= r.effectiveFrom
  BY <1>1, MaxOfTwo
<1>4. when >= r.originDate /\ when >= r.effectiveFrom
  BY <1>1, <1>2, <1>3
<1>5. QED
  BY <1>4 DEF r

\* A cancellation is a change that recognizes nothing and ends the schedule.
LEMMA CancelIs ==
  ASSUME SchedInv, NEW s \in DOMAIN schedules, NEW when \in Days, Cancel(s, when)
  PROVE  IsChange(s, when)
<1> DEFINE r == schedules[s]
           q == [r EXCEPT !.remaining = 0, !.ended = @ + r.remaining, !.status = "cancelled"]
           rel == Release(s, when, r.remaining, 0)
           ret == Returned(s, when, r.remaining, 0)
<1>1. RecordOK(r)
  BY DEF SchedInv, WellFormed, RecordsOK
<1>2. r.status = "active" /\ r.kind # "depreciation" /\ Change(s, when, "cancel", q, rel, ret)
  BY DEF Cancel
<1>o. when >= r.originDate /\ when >= r.effectiveFrom
  BY <1>1, ChangeFollows DEF Cancel
<1>3. /\ DOMAIN q = Fields /\ q.kind = r.kind /\ q.method = r.method /\ q.plan = r.plan /\ q.first = r.first
      /\ q.last = r.last /\ q.start = r.start /\ q.base = r.base /\ q.initial = r.initial /\ q.reserved = r.reserved
      /\ q.originDate = r.originDate /\ q.effectiveFrom = r.effectiveFrom /\ q.supersedes = r.supersedes
      /\ q.generation = r.generation /\ q.history = r.history
      /\ q.remaining = 0 /\ q.recognized = r.recognized /\ q.status = "cancelled"
  BY <1>1 DEF RecordOK, Fields
<1> HIDE DEF q, r, rel, ret
<1>4. RecordOK(q)
  <2>1. Scheduled(q)
    BY <1>1, <1>3 DEF RecordOK, Scheduled, Service
  <2>2. HistoryOK(q)
    BY <1>1, <1>3 DEF RecordOK, HistoryOK
  <2>3. q.remaining \in Nat /\ q.remaining <= q.base /\ q.recognized \in Nat /\ q.recognized + q.remaining <= Amount
    BY <1>1, <1>3, SchedAssumption DEF RecordOK, Scheduled
  <2>4. QED
    BY <2>1, <2>2, <2>3, <1>1, <1>3 DEF RecordOK, Statuses
<1>5. Sum({}) = 0 /\ Wrote(rel, Entries(PartsOf(s, {})), rel) /\ Wrote(ret, Allocations(PartsOf(s, {})), ret)
  BY NoParts
<1>6. r.remaining \in Nat /\ r.generation \in Nat
  BY <1>1 DEF RecordOK
<1>7. \A c \in Controls : Stored(q, c) - Stored(r, c) = Coef(r, c) * Sum({}) + OffControl(r, c, r.remaining)
  <2>1. q.remaining = r.remaining - 0 - r.remaining
    BY <1>3, <1>6
  <2>2. QED
    BY <2>1, <1>1, <1>2, <1>3, <1>4, <1>5, <1>6, StoredChange
<1>8. q.generation >= r.generation
  BY <1>3, <1>6
<1>9. 0 \in Nat /\ q.status # "active"
  BY <1>3
<1>10. QED
  <2>1. Follows(r, q) /\ Ends(r, q) /\ Moves(r, q, {}, r.remaining) /\ Recognizes(s, {})
    BY <1>2, <1>3, <1>4, <1>5, <1>6, <1>7, <1>8, <1>9 DEF Follows, Ends, Moves, Recognizes
  <2>2. Leaves(s, r, q, {}) /\ Hands(s, when, r.remaining, 0, rel) /\ r = schedules[s]
    BY <2>1 DEF Leaves, Hands, rel, r
  <2>3. QED
    <3>1. Exactly(s, when, q, r.remaining, r.remaining, 0, rel)
      <4>1. r.start \in Int
        BY <1>1, DaysFinite DEF RecordOK, Scheduled, Service
      <4>2. QED
        BY <4>1, <1>2, <1>3, <1>o DEF Exactly, rel, r
    <3>2. Changing(s, when, "cancel", q, rel, ret, {}, r.remaining, r.remaining, 0, rel)
      BY <1>2, <1>5, <2>1, <2>2, <3>1 DEF Changing, ret, r
    <3>3. QED
      BY <3>2, <1>6, IsChangeOf

\* Recognitions are posted on days.
LEMMA PostedDatesAre ==
  ASSUME WellFormed, NEW s
  PROVE  PostedDates(s) \subseteq Days
<1>1. \A d \in PostedDates(s) : \E x \in DOMAIN schedAllocs : d = schedAllocs[x].date
  BY DEF PostedDates
<1>2. QED
  BY <1>1 DEF WellFormed, AllocsOK, AllocOK

\* So is a refund of the rest, and a partial refund begins a new generation.
LEMMA RefundIs ==
  ASSUME SchedInv, NEW s \in DOMAIN schedules, NEW when \in Days, NEW left \in Nat, NEW back \in Nat,
         Refund(s, when, left, back)
  PROVE  IsChange(s, when)
<1> DEFINE r == schedules[s]
           rest == r.remaining - left
           day == Max({r.start, when + 1})
           whole == [[r EXCEPT !.remaining = 0, !.status = "completed"]
                       EXCEPT !.refunded = @ + left, !.recognizedRefund = @ + back]
           part == [Respread(r, when, rest) EXCEPT !.refunded = @ + left, !.recognizedRefund = @ + back]
           q == IF left = r.remaining THEN whole ELSE part
           rel == Release(s, when, left, back)
           ret == Returned(s, when, left, back)
<1>1. RecordOK(r) /\ WellFormed
  BY DEF SchedInv, WellFormed, RecordsOK
<1>2. /\ r.kind # "depreciation" /\ left <= r.remaining
      /\ left # r.remaining => r.method # "custom" /\ day <= r.last
      /\ \A d \in PostedDates(s) : when >= d
      /\ Change(s, when, "refund", q, rel, ret)
  BY DEF Refund, MayChange, Refundable
<1>o. when >= r.originDate /\ when >= r.effectiveFrom /\ r.status # "superseded"
  BY <1>1, ChangeFollows DEF Refund
<1>3. /\ r.remaining \in Nat /\ r.generation \in Nat /\ r.recognized \in Nat /\ r.recognized + r.remaining <= Amount
      /\ r.start \in Int /\ when \in Int /\ r.start \in Days /\ r.last \in Days /\ r.base \in Nat /\ Amount \in Int
      /\ r.first \in Days /\ r.first <= r.start /\ r.first \in Int
  BY <1>1, DaysFinite, SchedAssumption DEF RecordOK, Scheduled, Service
<1>4. day >= r.start /\ day >= when + 1 /\ day \in Int
  <2>1. when + 1 \in Int
    BY <1>3
  <2>2. QED
    BY <2>1, <1>3, MaxOfTwo
<1>5. /\ DOMAIN q = Fields /\ q.kind = r.kind /\ q.method = r.method /\ q.plan = r.plan /\ q.first = r.first
      /\ q.last = r.last /\ q.initial = r.initial /\ q.reserved = r.reserved
      /\ q.originDate = r.originDate /\ q.effectiveFrom = r.effectiveFrom /\ q.supersedes = r.supersedes
      /\ q.history = r.history /\ q.recognized = r.recognized
  BY <1>1 DEF RecordOK, Fields, Respread
<1>6. CASE left = r.remaining
  <2>1. q.remaining = 0 /\ q.status = "completed" /\ q.start = r.start /\ q.base = r.base /\ q.generation = r.generation
    BY <1>1, <1>6 DEF RecordOK, Fields
  <2> HIDE DEF q, r, rel, ret
  <2>2. RecordOK(q)
    <3>1. Scheduled(q)
      BY <1>1, <1>5, <2>1 DEF RecordOK, Scheduled, Service
    <3>2. HistoryOK(q)
      BY <1>1, <1>5 DEF RecordOK, HistoryOK
    <3>3. q.remaining \in Nat /\ q.remaining <= q.base /\ q.recognized \in Nat /\ q.recognized + q.remaining <= Amount
      BY <1>3, <1>5, <2>1
    <3>4. QED
      BY <3>1, <3>2, <3>3, <1>1, <1>5, <2>1 DEF RecordOK, Statuses
  <2>3. Sum({}) = 0 /\ Wrote(rel, Entries(PartsOf(s, {})), rel) /\ Wrote(ret, Allocations(PartsOf(s, {})), ret)
    BY NoParts
  <2>4. \A c \in Controls : Stored(q, c) - Stored(r, c) = Coef(r, c) * Sum({}) + OffControl(r, c, left)
    <3>1. q.remaining = r.remaining - 0 - left /\ 0 \in Nat
      BY <2>1, <1>3, <1>6
    <3>2. QED
      BY <3>1, <1>1, <1>2, <1>5, <2>2, <2>3, StoredChange
  <2>5. q.generation >= r.generation /\ q.status # "active"
    BY <2>1, <1>3
  <2>6. QED
    <3>1. Follows(r, q) /\ Ends(r, q) /\ Moves(r, q, {}, left) /\ Recognizes(s, {})
      BY <1>5, <2>1, <2>2, <2>4, <2>5 DEF Follows, Ends, Moves, Recognizes
    <3>2. Leaves(s, r, q, {}) /\ Hands(s, when, left, back, rel) /\ r = schedules[s]
      BY <3>1 DEF Leaves, Hands, rel, r
    <3>3. Exactly(s, when, q, left, left, back, rel)
      BY <1>2, <1>3, <1>o, <2>1 DEF Exactly, rel, r
    <3>4. Changing(s, when, "refund", q, rel, ret, {}, left, left, back, rel)
      BY <1>2, <2>3, <3>1, <3>2, <3>3 DEF Changing, ret, r
    <3>5. QED
      BY <3>4, IsChangeOf
<1>7. CASE left # r.remaining
  <2>1. q.remaining = rest /\ q.status = r.status /\ q.start = day /\ q.base = rest /\ q.generation = r.generation + 1
    BY <1>1, <1>7 DEF RecordOK, Fields, Respread
  <2>2. rest \in Nat /\ rest > 0 /\ r.recognized + rest <= Amount
    BY <1>2, <1>3, <1>7
  <2>3. day \in Days /\ day <= r.last /\ r.first <= day /\ r.method # "custom"
    <3>1. day <= r.last /\ r.first <= day /\ r.method # "custom"
      BY <1>2, <1>3, <1>4, <1>7
    <3>2. r.start >= 1 /\ r.last <= LastDay /\ r.last \in Int
      BY <1>3, SchedAssumption DEF Days
    <3>3. day \in Days
      BY <3>1, <3>2, <1>3, <1>4, SchedAssumption DEF Days
    <3>4. QED
      BY <3>1, <3>3
  <2> HIDE DEF q, r, rel, ret, rest, day
  <2>4. RecordOK(q)
    <3>1. Scheduled(q)
      BY <1>3, <1>5, <2>1, <2>2, <2>3 DEF Scheduled, Service
    <3>2. HistoryOK(q)
      BY <1>1, <1>5 DEF RecordOK, HistoryOK
    <3>3. /\ q.remaining \in Nat /\ q.remaining <= q.base /\ q.recognized \in Nat /\ q.recognized + q.remaining <= Amount
          /\ q.generation \in Nat /\ q.first <= q.start
      BY <1>3, <1>5, <2>1, <2>2, <2>3
    <3>4. QED
      BY <3>1, <3>2, <3>3, <1>1, <1>5, <2>1 DEF RecordOK, Statuses
  <2>5. Sum({}) = 0 /\ Wrote(rel, Entries(PartsOf(s, {})), rel) /\ Wrote(ret, Allocations(PartsOf(s, {})), ret)
    BY NoParts
  <2>6. \A c \in Controls : Stored(q, c) - Stored(r, c) = Coef(r, c) * Sum({}) + OffControl(r, c, left)
    <3>1. q.remaining = r.remaining - 0 - left /\ 0 \in Nat
      BY <2>1, <1>3 DEF rest
    <3>2. QED
      BY <3>1, <1>1, <1>2, <1>5, <2>4, <2>5, StoredChange
  <2>7. q.generation >= r.generation /\ q.generation > r.generation
    BY <2>1, <1>3
  <2>8. \A d \in PostedDates(s) : d < q.start
    <3> TAKE d \in PostedDates(s)
    <3>1. d \in Int /\ when >= d
      BY <1>1, <1>2, PostedDatesAre, DaysFinite
    <3>2. QED
      BY <3>1, <2>1, <1>3, <1>4
  <2>9. q.remaining = BaseOf(q) /\ q.remaining > 0
    BY <1>5, <2>1, <2>2, <2>3 DEF BaseOf
  <2>10. QED
    <3>1. Follows(r, q) /\ Renews(s, r, q) /\ Moves(r, q, {}, left) /\ Recognizes(s, {})
      BY <1>5, <2>1, <2>4, <2>6, <2>7, <2>8, <2>9 DEF Follows, Renews, Moves, Recognizes
    <3>2. Leaves(s, r, q, {}) /\ Hands(s, when, left, back, rel) /\ r = schedules[s]
      BY <3>1 DEF Leaves, Hands, rel, r
    <3>3. Exactly(s, when, q, left, left, back, rel)
      BY <1>2, <1>4, <1>o, <2>1 DEF Exactly, rel, r
    <3>4. Changing(s, when, "refund", q, rel, ret, {}, left, left, back, rel)
      BY <1>2, <2>5, <3>1, <3>2, <3>3 DEF Changing, ret, r
    <3>5. QED
      BY <3>4, IsChangeOf
<1>8. QED
  BY <1>6, <1>7

\* An early end recognizes the service until then and ends the schedule.
LEMMA TerminateIs ==
  ASSUME SchedInv, NEW s \in DOMAIN schedules, NEW when \in Days, NEW effective \in Days, Terminate(s, when, effective)
  PROVE  IsChange(s, when)
<1> DEFINE r == schedules[s]
           P == EarnedParts(s, effective)
           Q == PartsOf(s, P)
           unearned == r.remaining - Sum(P)
           over == r.kind = "depreciation"
           given == IF over THEN 0 ELSE unearned
           q == [r EXCEPT !.remaining = 0, !.recognized = @ + Sum(P), !.ended = unearned, !.status = "terminated"]
           rel == IF over THEN <<>> ELSE Release(s, when, unearned, 0)
           ret == Returned(s, when, unearned, 0)
           e == Over(Entries(Q), rel)
           a == Over(Allocations(Q), ret)
<1>1. RecordOK(r) /\ WellFormed
  BY DEF SchedInv, WellFormed, RecordsOK
<1>2. /\ r.status = "active" /\ unearned >= 0 /\ \A d \in PostedDates(s) : effective >= d
      /\ Change(s, when, "terminate", q, e, a)
  BY DEF Terminate, MayChange
<1>o. when >= r.originDate /\ when >= r.effectiveFrom
  BY <1>1, ChangeFollows DEF Terminate
<1>x. IF r.kind = "depreciation" THEN DOMAIN rel = {} ELSE given = unearned /\ rel = Release(s, when, unearned, 0)
  OBVIOUS
<1>3. Wrote(e, Entries(Q), rel) /\ Wrote(a, Allocations(Q), ret)
  BY OverWrites
<1>4. Recognizable(s, P)
  <2>1. s \in Active
    BY <1>2 DEF Active
  <2>2. QED
    BY <2>1, <1>2, EarnedRecognizable
<1>5. Sum(P) \in Nat
  BY <1>4, SumParts DEF Recognizable
<1>6. /\ DOMAIN q = Fields /\ q.kind = r.kind /\ q.method = r.method /\ q.plan = r.plan /\ q.first = r.first
      /\ q.last = r.last /\ q.start = r.start /\ q.base = r.base /\ q.initial = r.initial /\ q.reserved = r.reserved
      /\ q.originDate = r.originDate /\ q.effectiveFrom = r.effectiveFrom /\ q.supersedes = r.supersedes
      /\ q.generation = r.generation /\ q.history = r.history
      /\ q.remaining = 0 /\ q.recognized = r.recognized + Sum(P) /\ q.status = "terminated"
  BY <1>1 DEF RecordOK, Fields
<1>7. rel = Release(s, when, given, 0) \/ (DOMAIN rel = {} /\ given = 0)
  OBVIOUS
<1>8. r.remaining \in Nat /\ r.recognized \in Nat /\ r.generation \in Nat /\ r.recognized + r.remaining <= Amount
      /\ r.base \in Nat /\ Amount \in Int
  BY <1>1, SchedAssumption DEF RecordOK, Scheduled
<1>9. given \in Nat /\ unearned \in Nat /\ unearned = r.remaining - Sum(P) /\ given = IF r.kind = "depreciation" THEN 0 ELSE unearned
  BY <1>2, <1>5, <1>8
<1> HIDE DEF q, r, rel, ret, e, a, P, Q, unearned, over, given
<1>10. RecordOK(q)
  <2>1. Scheduled(q)
    BY <1>1, <1>6 DEF RecordOK, Scheduled, Service
  <2>2. HistoryOK(q)
    BY <1>1, <1>6 DEF RecordOK, HistoryOK
  <2>3. q.remaining \in Nat /\ q.remaining <= q.base /\ q.recognized \in Nat /\ q.recognized + q.remaining <= Amount
    BY <1>5, <1>6, <1>8, <1>9
  <2>4. QED
    BY <2>1, <2>2, <2>3, <1>1, <1>6 DEF RecordOK, Statuses
<1>11. \A c \in Controls : Stored(q, c) - Stored(r, c) = Coef(r, c) * Sum(P) + OffControl(r, c, given)
  <2>1. r.kind # "depreciation" => q.remaining = r.remaining - Sum(P) - given
    BY <1>5, <1>6, <1>8, <1>9
  <2>2. r.kind = "depreciation" => q.recognized = r.recognized + Sum(P) /\ given = 0
    BY <1>6, <1>9
  <2>3. q.kind = r.kind /\ RecordOK(r) /\ RecordOK(q) /\ Sum(P) \in Nat /\ given \in Nat
    BY <1>1, <1>5, <1>6, <1>9, <1>10
  <2>4. QED
    BY ONLY <2>1, <2>2, <2>3, StoredChange
<1>12. q.generation >= r.generation /\ q.status # "active"
  BY <1>6, <1>8
<1>13. QED
  <2>1. r = schedules[s] /\ ret = Returned(s, when, unearned, 0) /\ Q = PartsOf(s, P)
    BY DEF r, ret, Q
  <2>2. Follows(r, q) /\ Ends(r, q) /\ Moves(r, q, P, given) /\ Recognizes(s, P)
    BY <1>4, <1>6, <1>10, <1>11, <1>12 DEF Follows, Ends, Moves, Recognizes
  <2>3. Leaves(s, r, q, P) /\ Hands(s, when, given, 0, rel)
    BY <2>2, <1>7 DEF Leaves, Hands
  <2>4. given \in Nat /\ unearned \in Nat /\ 0 \in Nat
    BY <1>9
  <2>5. Exactly(s, when, q, given, unearned, 0, rel)
    <3>1. r.start \in Int
      BY <1>1, DaysFinite DEF RecordOK, Scheduled, Service
    <3>2. QED
      BY <3>1, <1>2, <1>6, <1>o, <1>x, <2>1 DEF Exactly
  <2>6. QED
    <3>1. Changing(s, when, "terminate", q, e, a, P, given, unearned, 0, rel)
      BY <1>2, <1>3, <2>1, <2>2, <2>3, <2>5 DEF Changing
    <3>2. QED
      BY <3>1, <2>4, IsChangeOf

--------------------------------------------------------------------------------
(* Replacements and new schedules. *)

\* What _check_service lets through.
LEMMA CheckedService ==
  ASSUME NEW w \in Terms, NEW plan \in CustomPlans \union {<<>>}, NEW start \in Int, NEW total, NEW rest,
         CheckService(w.method, w.first, w.last, start, plan, total, rest)
  PROVE  /\ w.kind \in Kinds /\ w.method \in Methods /\ w.first \in Days /\ w.last \in Days /\ start \in Days
         /\ w.first <= start /\ start <= w.last
         /\ w.method = "custom" =>
              plan \in CustomPlans /\ SumFunctionOnSet(plan, {d \in DOMAIN plan : d >= start}) = rest
<1>1. w.kind \in Kinds /\ w.method \in Methods /\ w.first \in Days /\ w.last \in Days
  BY SchedAssumption
<1>2. w.first <= start /\ start <= w.last
  BY DEF CheckService
<1>3. start \in Days
  BY <1>1, <1>2, SchedAssumption DEF Days
<1>4. w.method = "custom" => plan \in CustomPlans /\ SumFunctionOnSet(plan, {d \in DOMAIN plan : d >= start}) = rest
  BY DEF CheckService
<1>5. QED
  BY <1>1, <1>2, <1>3, <1>4

\* Nothing is recognized of a schedule that is not there.
LEMMA NothingOfOthers ==
  ASSUME WellFormed, NEW s, s \notin DOMAIN schedules
  PROVE  Recognitions(s) = {}
<1> SUFFICES ASSUME NEW x \in Recognitions(s) PROVE FALSE
  OBVIOUS
<1>1. s \in DOMAIN schedules
  BY RecognitionIs
<1>2. QED
  BY <1>1

\* A replacement keeps the invariant.
LEMMA SupersedeKeeps ==
  ASSUME SchedInv, NEW s \in DOMAIN schedules, NEW when \in Days, NEW n \in Schedules,
         NEW w \in Terms, NEW plan \in CustomPlans \union {<<>>}, Supersede(s, when, n, w, plan)
  PROVE  SchedInv'
<1> DEFINE r == schedules[s]
           q == [Kept(r) EXCEPT
                   !.method = w.method, !.plan = plan, !.first = w.first, !.last = w.last,
                   !.start = w.first, !.base = r.remaining, !.remaining = r.remaining, !.recognized = 0,
                   !.initial = 0,
                   !.effectiveFrom = when, !.generation = 0, !.supersedes = {s}]
           z == [r EXCEPT !.remaining = 0, !.transferred = r.remaining, !.status = "superseded"]
           m == Noted(r, when, "supersede", z)
           R == [x \in {n, s} |-> IF x = n THEN q ELSE m]
<1>1. /\ r.status = "active" /\ r.kind # "depreciation" /\ n \notin DOMAIN schedules
      /\ CheckService(w.method, w.first, w.last, w.first, plan, r.remaining, r.remaining)
      /\ schedules' = Saved(R) /\ schedLedger' = schedLedger /\ schedAllocs' = schedAllocs /\ closed' = closed
  BY DEF Supersede
<1>2. /\ WellFormed /\ RecordsOK /\ LedgerOK /\ ControlsMatchRecords /\ RecordOK(r)
      /\ \A x \in DOMAIN schedules : ScheduleOK(x)
      /\ Payment \in DOMAIN schedLedger
  BY InvBySchedule DEF WellFormed, RecordsOK, LedgerOK, EverySchedule
<1>3. /\ Wrote(schedules', R, schedules) /\ Wrote(schedLedger', <<>>, schedLedger) /\ Wrote(schedAllocs', <<>>, schedAllocs)
  BY <1>1, OverWrites DEF Saved
<1>4. r.remaining > 0 /\ r.remaining \in Nat /\ r.recognized \in Nat /\ r.recognized + r.remaining <= Amount
      /\ r.base \in Nat /\ Amount \in Int
  BY <1>1, <1>2, SchedAssumption DEF RecordOK, ScheduleOK, RemainderOf, Scheduled
<1>5. n # s /\ DOMAIN R = {n, s} /\ R[n] = q /\ R[s] = m
  BY <1>1
<1>6. /\ DOMAIN q = Fields /\ q.kind = r.kind /\ q.method = w.method /\ q.plan = plan /\ q.first = w.first
      /\ q.last = w.last /\ q.start = w.first /\ q.base = r.remaining /\ q.remaining = r.remaining /\ q.recognized = 0
      /\ q.initial = 0 /\ q.reserved = r.reserved /\ q.originDate = r.originDate /\ q.effectiveFrom = when
      /\ q.supersedes = {s} /\ q.generation = 0 /\ q.status = r.status /\ q.history = <<>>
  BY <1>2 DEF RecordOK, Fields, Kept
<1>7. /\ DOMAIN z = Fields /\ z.kind = r.kind /\ z.method = r.method /\ z.plan = r.plan /\ z.first = r.first
      /\ z.last = r.last /\ z.start = r.start /\ z.base = r.base /\ z.initial = r.initial /\ z.reserved = r.reserved
      /\ z.originDate = r.originDate /\ z.effectiveFrom = r.effectiveFrom /\ z.supersedes = r.supersedes
      /\ z.generation = r.generation /\ z.history = r.history
      /\ z.remaining = 0 /\ z.recognized = r.recognized /\ z.status = "superseded"
  BY <1>2 DEF RecordOK, Fields
<1>8. /\ w.method \in Methods /\ w.first \in Days /\ w.last \in Days /\ w.first <= w.last /\ w.first \in Int
      /\ w.method = "custom" =>
           plan \in CustomPlans /\ SumFunctionOnSet(plan, {d \in DOMAIN plan : d >= w.first}) = r.remaining
  <2>1. w.first \in Int
    BY SchedAssumption, DaysFinite
  <2>2. QED
    BY <2>1, <1>1, CheckedService
<1>m. m = Noted(r, when, "supersede", z)
  OBVIOUS
<1> HIDE DEF q, z, m, R, r
<1>9. RecordOK(q) /\ BaseOf(q) = q.remaining
  <2>1. Scheduled(q)
    BY <1>4, <1>6, <1>8 DEF Scheduled, Service
  <2>2. HistoryOK(q)
    <3>1. q.history \in Seq({}) /\ Len(q.history) = 0
      BY <1>6
    <3>2. QED
      BY <3>1 DEF HistoryOK
  <2>3. q.remaining \in Nat /\ q.remaining <= q.base /\ q.recognized \in Nat /\ q.recognized + q.remaining <= Amount
        /\ q.first <= q.start /\ q.initial \in Nat /\ q.generation \in Nat
    BY <1>4, <1>6, <1>8
  <2>4. q.effectiveFrom \in 0..LastDay
    BY <1>6, SchedAssumption DEF Days
  <2>5. RecordOK(q)
    BY <2>1, <2>2, <2>3, <2>4, <1>2, <1>6, <1>8 DEF RecordOK
  <2>6. BaseOf(q) = q.remaining
    BY <1>6, <1>8 DEF BaseOf
  <2>7. QED
    BY <2>5, <2>6
<1>10. RecordOK(z)
  <2>1. Scheduled(z)
    BY <1>2, <1>7 DEF RecordOK, Scheduled, Service
  <2>2. HistoryOK(z)
    BY <1>2, <1>7 DEF RecordOK, HistoryOK
  <2>3. z.remaining \in Nat /\ z.remaining <= z.base /\ z.recognized \in Nat /\ z.recognized + z.remaining <= Amount
    BY <1>4, <1>7
  <2>4. QED
    BY <2>1, <2>2, <2>3, <1>2, <1>7 DEF RecordOK, Statuses
<1>11. /\ RecordOK(m) /\ Len(r.history) \in Nat /\ Len(m.history) = Len(r.history) + 1
       /\ m.kind = r.kind /\ m.reserved = r.reserved /\ m.supersedes = r.supersedes /\ m.status = "superseded"
       /\ m.generation = r.generation /\ m.start = r.start
       /\ \A c : Stored(m, c) = Stored(z, c)
  BY <1>2, <1>7, <1>10, <1>m, NotedIs
<1>12. /\ schedules'[s] = m /\ schedules'[n] = q /\ DOMAIN schedules' = DOMAIN schedules \union {n}
       /\ \A x \in DOMAIN schedules : x # s => schedules'[x] = schedules[x]
  BY <1>1, <1>3, <1>5 DEF Wrote
<1>13. Continues(r, m)
  BY <1>2, <1>11 DEF Continues, RecordOK
<1>14. /\ DOMAIN R \subseteq Schedules /\ (\A x \in DOMAIN R : RecordOK(R[x]))
       /\ \A x \in DOMAIN R \cap DOMAIN schedules : Continues(schedules[x], R[x])
  <2>1. s \in Schedules /\ n \in Schedules
    BY <1>2 DEF RecordsOK
  <2>2. \A x \in DOMAIN R \cap DOMAIN schedules : x = s
    BY <1>1, <1>5
  <2>3. QED
    BY <2>1, <2>2, <1>5, <1>9, <1>11, <1>13 DEF r
<1>15. DOMAIN <<>> = {} /\ IsFiniteSet({})
  BY FS_EmptySet
<1>16. WellFormed' /\ \A b : Paid(b)' = Paid(b)
  <2>1. closed' \subseteq MonthStarts
    BY <1>1, <1>2 DEF RecordsOK
  <2> DEFINE e == <<>>
  <2>2. /\ IsFiniteSet(DOMAIN e) /\ DOMAIN e \cap DOMAIN schedLedger = {} /\ DOMAIN e = {}
        /\ Wrote(schedLedger', e, schedLedger) /\ Wrote(schedAllocs', e, schedAllocs)
    BY <1>3, <1>15
  <2> HIDE DEF e
  <2>3. /\ \A x \in DOMAIN e : AllocOK(x, e[x], schedules')
        /\ \A x \in DOMAIN e : EntryOK(e[x]) /\ ((\E y \in DOMAIN schedules' : x = Id("reclass", y, 0, 0)) \/ x \in DOMAIN e)
    BY <2>2
  <2>4. QED
    BY <1>2, <1>3, <1>14, <2>1, <2>2, <2>3, Transaction
<1>17. ScheduleOK(s)'
  <2>1. OnceOf(s) /\ FollowsOf(s)
    BY <1>2 DEF ScheduleOK
  <2>2. Recognitions(s)' = Recognitions(s)
    BY <1>1 DEF Recognitions
  <2>3. OnceOf(s)'
    BY <2>1, <2>2, <1>1 DEF OnceOf
  <2>4. FollowsOf(s)'
    BY <2>1, <2>2, <1>1, <1>11, <1>12 DEF FollowsOf, r
  <2>5. RemainderOf(s)'
    BY <1>11, <1>12 DEF RemainderOf
  <2>6. QED
    BY <2>3, <2>4, <2>5 DEF ScheduleOK
<1>18. ScheduleOK(n)'
  <2>1. Recognitions(n)' = {}
    <3>1. Recognitions(n) = {}
      BY <1>1, <1>2, NothingOfOthers
    <3>2. QED
      BY <3>1, <1>1 DEF Recognitions
  <2>2. OnceOf(n)' /\ \A x \in Recognitions(n)' : x[3] < schedules'[n].generation /\ schedAllocs'[x].date < schedules'[n].start
    BY <2>1 DEF OnceOf
  <2>3. RecordOK(schedules'[n]) /\ schedules'[n].remaining = BaseOf(schedules'[n]) /\ schedules'[n].remaining > 0
    BY <1>4, <1>6, <1>9, <1>12
  <2>4. QED
    BY <2>2, <2>3, NewGeneration
<1>19. ASSUME NEW x \in DOMAIN schedules' PROVE ScheduleOK(x)'
  <2>1. CASE x = s
    BY <2>1, <1>17
  <2>2. CASE x = n
    BY <2>2, <1>18
  <2>3. CASE x # s /\ x # n
    <3>1. x \in DOMAIN schedules /\ ScheduleOK(x) /\ schedules'[x] = schedules[x]
      BY <2>3, <1>2, <1>12
    <3> DEFINE a == <<>>
    <3>2. Wrote(schedAllocs', a, schedAllocs) /\ DOMAIN a = {}
      BY <1>3
    <3> HIDE DEF a
    <3>3. \A y \in DOMAIN a : ~(y[1] = "recognition" /\ y[2] = x)
      BY <3>2
    <3>4. QED
      BY <3>1, <3>2, <3>3, UntouchedSchedule
  <2>4. QED
    BY <2>1, <2>2, <2>3
<1>20. ControlsMatchRecords'
  <2> DEFINE e == <<>>
             f == [c \in Controls |-> e]
             g == [c \in Controls |-> [x \in {n, s} |-> IF x = n THEN Stored(r, c) ELSE -Stored(r, c)]]
  <2>1. /\ IsFiniteSet(DOMAIN e) /\ DOMAIN e \cap DOMAIN schedLedger = {} /\ DOMAIN e = {}
        /\ Wrote(schedLedger', e, schedLedger)
    BY <1>3, <1>15
  <2>2. ASSUME NEW c \in Controls
        PROVE  /\ \A x \in DOMAIN R : g[c][x] = Stored(R[x], c) - Before(x, c)
               /\ SumFunctionOnSet(f[c], DOMAIN e) = SumFunctionOnSet(g[c], DOMAIN R)
    <3>1. Stored(r, c) \in Int
      BY <1>2, StoredIs
    <3>2. Stored(q, c) = Stored(r, c)
      BY <1>6 DEF Stored, ControlOf, NormalSign
    <3>3. Stored(m, c) = 0
      <4>1. NormalSign(z) \in {1, -1} /\ z.kind # "depreciation"
        BY <1>1, <1>7 DEF NormalSign, r
      <4>2. NormalSign(z) * z.remaining = 0
        BY <4>1, <1>7
      <4>3. Stored(z, c) = 0
        BY <4>1, <4>2 DEF Stored
      <4>4. QED
        BY <4>3, <1>11
    <3>4. Before(n, c) = 0 /\ Before(s, c) = Stored(r, c)
      BY <1>1 DEF Before, r
    <3>5. g[c][n] = Stored(r, c) /\ g[c][s] = -Stored(r, c)
      BY <1>5
    <3>6. \A x \in DOMAIN R : g[c][x] = Stored(R[x], c) - Before(x, c)
      BY <3>1, <3>2, <3>3, <3>4, <3>5, <1>5
    <3>7. SumFunctionOnSet(f[c], DOMAIN e) = 0
      BY <2>1, SumEmpty
    <3>8. g[c][n] \in Int /\ g[c][s] \in Int /\ g[c][n] + g[c][s] = 0
      BY <3>1, <3>5
    <3>9. IsFiniteSet({n}) /\ IsFiniteSet({s}) /\ {n} \cap {s} = {} /\ {n, s} = {n} \union {s}
      BY <1>5, FS_Singleton
    <3> HIDE DEF g, f, e
    <3>10. SumFunctionOnSet(g[c], {n} \union {s}) = SumFunctionOnSet(g[c], {n}) + SumFunctionOnSet(g[c], {s})
      BY <3>8, <3>9, SumUnion
    <3>11. SumFunctionOnSet(g[c], {n}) = g[c][n] /\ SumFunctionOnSet(g[c], {s}) = g[c][s]
      BY <3>8, SumOne
    <3>12. QED
      BY <3>6, <3>7, <3>8, <3>9, <3>10, <3>11, <1>5
  <2>3. \A c \in Controls : Unlinked(c)' = Unlinked(c)
    <3>1. Payment' = Payment /\ Payment' \in DOMAIN schedLedger'
      BY <1>1, <1>2 DEF Payment, Id
    <3>2. \A x \in DOMAIN R \cap DOMAIN schedules :
           R[x].kind = schedules[x].kind /\ R[x].reserved = schedules[x].reserved /\ R[x].supersedes = schedules[x].supersedes
      BY <1>1, <1>5, <1>11 DEF r
    <3>3. \A x \in DOMAIN R \ DOMAIN schedules : R[x].supersedes # {}
      BY <1>5, <1>6
    <3>4. QED
      BY <3>1, <3>2, <3>3, <1>2, <1>3, <1>16, UnlinkedStays
  <2> HIDE DEF e, f, g
  <2>4. /\ \A x \in DOMAIN e : EntryOK(e[x])
        /\ \A c \in Controls : \A x \in DOMAIN e : f[c][x] = e[x].lines[c]
    BY <2>1
  <2>5. QED
    BY ONLY <1>2, <1>3, <1>14, <2>1, <2>2, <2>3, <2>4, ControlsMove
<1>21. QED
  <2>1. (WellFormed /\ EverySchedule /\ ControlsMatchRecords)'
    BY <1>16, <1>19, <1>20 DEF EverySchedule
  <2>2. QED
    BY <2>1, InvBySchedule, PTL

\* A request for a schedule, as it is read.
LEMMA RequestIs ==
  ASSUME NEW mode, NEW q \in ScheduleRequests(mode)
  PROVE  /\ q.mode = mode /\ q.id \in Schedules /\ q.terms \in Terms /\ q.plan \in CustomPlans \union {<<>>}
         /\ q.start \in Int /\ q.salvage \in Nat /\ q.recognized \in Nat /\ q.date \in Days /\ Planned(q)
         /\ mode = "opening" => q.terms.kind # "depreciation"
         /\ mode # "opening" => q.recognized = 0
         /\ q.terms.kind # "depreciation" => q.salvage = 0
<1>1. \A w \in Terms : w.first \in Int /\ w.last \in Int
  BY SchedAssumption, DaysFinite
<1>2. CASE mode = "opening"
  <2>1. q \in Opened
    BY <1>2 DEF ScheduleRequests
  <2>2. Planned(q) /\ q \in UNION {[id : Schedules, terms : {w}, plan : CustomPlans \union {<<>>},
                 recognized : {0} \union Refunds, salvage : {0}, start : w.first..w.last,
                 mode : {"opening"}, date : {PaidOn}] :
                w \in {x \in Terms : x.kind # "depreciation"}}
    BY <2>1 DEF Opened
  <2>3. PICK w \in {x \in Terms : x.kind # "depreciation"} :
           q \in [id : Schedules, terms : {w}, plan : CustomPlans \union {<<>>},
                 recognized : {0} \union Refunds, salvage : {0}, start : w.first..w.last,
                 mode : {"opening"}, date : {PaidOn}]
    BY <2>2
  <2>4. /\ q.mode = "opening" /\ q.id \in Schedules /\ q.terms = w /\ q.plan \in CustomPlans \union {<<>>}
        /\ q.start \in w.first..w.last /\ q.salvage = 0 /\ q.recognized \in {0} \union Refunds /\ q.date = PaidOn
    BY <2>3
  <2>5. q.recognized \in Nat /\ q.date \in Days
    BY <2>4, SchedAssumption
  <2>6. q.start \in Int
    BY <2>4
  <2>7. QED
    BY <1>2, <2>2, <2>4, <2>5, <2>6
<1>3. CASE mode # "opening"
  <2>1. q \in FromPayment(mode)
    BY <1>3 DEF ScheduleRequests
  <2>2. Planned(q) /\ q \in UNION {[id : Schedules, terms : {w}, plan : CustomPlans \union {<<>>}, recognized : {0},
                 salvage : IF w.kind = "depreciation" THEN Salvages ELSE {0}, start : {w.first},
                 mode : {mode}, date : Dates \union {PaidOn}] : w \in Terms}
    BY <2>1 DEF FromPayment
  <2>3. PICK w \in Terms :
           q \in [id : Schedules, terms : {w}, plan : CustomPlans \union {<<>>}, recognized : {0},
                 salvage : IF w.kind = "depreciation" THEN Salvages ELSE {0}, start : {w.first},
                 mode : {mode}, date : Dates \union {PaidOn}]
    BY <2>2
  <2>4. /\ q.mode = mode /\ q.id \in Schedules /\ q.terms = w /\ q.plan \in CustomPlans \union {<<>>}
        /\ q.start = w.first /\ q.salvage \in (IF w.kind = "depreciation" THEN Salvages ELSE {0})
        /\ q.recognized = 0 /\ q.date \in Dates \union {PaidOn}
    BY <2>3
  <2>5. q.salvage \in Nat /\ q.date \in Days /\ q.start \in Int /\ q.recognized \in Nat
    BY <1>1, <2>4, SchedAssumption
  <2>6. w.kind # "depreciation" => q.salvage = 0
    BY <2>4
  <2>7. QED
    BY <1>3, <2>2, <2>4, <2>5, <2>6
<1>4. QED
  BY <1>2, <1>3

\* The record of a new schedule: nothing of it is recognized here, and all of its
\* balance is still to be.
LEMMA NewRecordIs ==
  ASSUME NEW mode, NEW q \in ScheduleRequests(mode), NEW r, r = Record(q)
  PROVE  /\ RecordOK(r) /\ r.remaining = BaseOf(r) /\ r.remaining > 0 /\ r.supersedes = {} /\ r.kind = q.terms.kind
         /\ r.kind \in Kinds /\ r.originDate = (IF q.mode = "new" THEN q.date ELSE PaidOn)
         /\ mode # "opening" => r.reserved = Amount /\ r.recognized = 0 /\ (r.kind # "depreciation" => r.remaining = Amount)
         /\ mode = "opening" => r.reserved = r.remaining /\ r.kind # "depreciation"
<1> DEFINE w == q.terms
           base == Amount - q.salvage - q.recognized
<1>1. /\ q.mode = mode /\ q.id \in Schedules /\ w \in Terms /\ q.plan \in CustomPlans \union {<<>>}
      /\ q.start \in Int /\ q.salvage \in Nat /\ q.recognized \in Nat /\ q.date \in Days
      /\ Planned(q)
      /\ mode = "opening" => w.kind # "depreciation"
      /\ mode # "opening" => q.recognized = 0
      /\ w.kind # "depreciation" => q.salvage = 0
  BY RequestIs
<1>2. /\ q.recognized < Amount - q.salvage
      /\ CheckService(w.method, w.first, w.last, q.start, q.plan, Amount - q.salvage, Amount - q.salvage - q.recognized)
  BY <1>1 DEF Planned
<1>3. base \in Nat /\ base > 0 /\ q.recognized + base <= Amount /\ Amount \in Nat
  BY <1>1, <1>2, SchedAssumption
<1>4. /\ w.kind \in Kinds /\ w.method \in Methods /\ w.first \in Days /\ w.last \in Days /\ q.start \in Days
      /\ w.first <= q.start /\ q.start <= w.last
      /\ w.method = "custom" =>
           q.plan \in CustomPlans /\ SumFunctionOnSet(q.plan, {d \in DOMAIN q.plan : d >= q.start}) = base
  BY <1>1, <1>2, CheckedService
<1>5. /\ DOMAIN r = Fields /\ r.kind = w.kind /\ r.method = w.method /\ r.plan = q.plan /\ r.first = w.first
      /\ r.last = w.last /\ r.start = q.start /\ r.base = base /\ r.remaining = base /\ r.recognized = q.recognized
      /\ r.initial = q.recognized /\ r.reserved = (IF q.mode = "opening" THEN base ELSE Amount)
      /\ r.originDate = (IF q.mode = "new" THEN q.date ELSE PaidOn) /\ r.effectiveFrom = 0
      /\ r.supersedes = {} /\ r.generation = 0 /\ r.status = "active" /\ r.history = <<>>
  BY DEF Record, Fields
<1> HIDE DEF w, base
<1>6. Scheduled(r) /\ BaseOf(r) = base
  <2>1. Scheduled(r)
    BY <1>3, <1>4, <1>5 DEF Scheduled, Service
  <2>2. BaseOf(r) = base
    BY <1>4, <1>5 DEF BaseOf
  <2>3. QED
    BY <2>1, <2>2
<1>7. HistoryOK(r)
  <2>1. r.history \in Seq({}) /\ Len(r.history) = 0
    BY <1>5
  <2>2. QED
    BY <2>1 DEF HistoryOK
<1>8. r.originDate \in Days /\ r.effectiveFrom \in 0..LastDay /\ r.reserved \in Nat
  <2>1. r.originDate \in Days
    BY <1>1, <1>5, SchedAssumption
  <2>2. 0 \in 0..LastDay
    BY SchedAssumption
  <2>3. QED
    BY <2>1, <2>2, <1>3, <1>5
<1>9. r.remaining <= r.base
  BY <1>3, <1>5
<1>10. RecordOK(r)
  BY <1>1, <1>3, <1>4, <1>5, <1>6, <1>7, <1>8, <1>9 DEF RecordOK, Statuses
<1>11. mode # "opening" => r.reserved = Amount /\ r.recognized = 0 /\ (r.kind # "depreciation" => r.remaining = Amount)
  <2>1. mode # "opening" /\ r.kind # "depreciation" => base = Amount
    BY <1>1, <1>3, <1>5, SchedAssumption DEF base
  <2>2. QED
    BY <1>1, <1>5, <2>1
<1>12. mode = "opening" => r.reserved = r.remaining /\ r.kind # "depreciation"
  BY <1>1, <1>5
<1>13. QED
  BY <1>3, <1>4, <1>5, <1>6, <1>10, <1>11, <1>12 DEF w

\* What funds it: its amount, on its control account.
Funds(r, c) == IF c = ControlOf(r) THEN NormalSign(r) * Amount ELSE 0
\* The lines of the entry that funds a schedule.
LEMMA FundingLines ==
  ASSUME NEW r, r.kind \in Kinds, NEW b \in {"Bank", Category(r)}, NEW l, l = Two(ControlOf(r), NormalSign(r) * Amount, b)
  PROVE  /\ l \in [ScheduleAccounts -> Int] /\ (\A c \in Controls : l[c] = Funds(r, c) /\ Funds(r, c) \in Int)
         /\ \A c \in ScheduleAccounts : l[c] \in {0, Amount, -Amount}
<1>1. /\ b \in ScheduleAccounts \ Controls /\ ControlOf(r) \in Controls /\ NormalSign(r) \in {1, -1} /\ Controls \subseteq ScheduleAccounts
  BY DEF Kinds, Category, ControlOf, NormalSign, Controls, ScheduleAccounts
<1>2. NormalSign(r) * Amount \in {Amount, -Amount} /\ NormalSign(r) * Amount \in Int /\ Amount \in Int
  BY <1>1, SchedAssumption
<1> DEFINE n == NormalSign(r) * Amount
<1>3. n \in {Amount, -Amount} /\ -n \in {Amount, -Amount} /\ n \in Int /\ -n \in Int
  BY <1>2
<1>4. \A c \in ScheduleAccounts : l[c] = IF c = ControlOf(r) THEN n ELSE IF c = b THEN -n ELSE 0
  BY <1>1 DEF Two, Lines
<1>5. l = [c \in ScheduleAccounts |-> l[c]]
  BY DEF Two, Lines
<1>f. \A c : Funds(r, c) = IF c = ControlOf(r) THEN n ELSE 0
  BY DEF Funds
<1> HIDE DEF n
<1>6. QED
  BY <1>1, <1>3, <1>4, <1>5, <1>f

\* The balance of a record of a payment is the payment's.
LEMMA StoredFunds ==
  ASSUME NEW mode, NEW q \in ScheduleRequests(mode), NEW r, r = Record(q), NEW c \in Controls
  PROVE  /\ mode # "opening" => Stored(r, c) = Funds(r, c)
         /\ mode = "opening" => Stored(r, c) = IF c = ControlOf(r) THEN NormalSign(r) * r.reserved ELSE 0
<1>1. /\ r.kind \in Kinds
      /\ mode # "opening" => r.recognized = 0 /\ (r.kind # "depreciation" => r.remaining = Amount)
      /\ mode = "opening" => r.reserved = r.remaining /\ r.kind # "depreciation"
  BY NewRecordIs
<1>2. CASE r.kind # "depreciation"
  BY <1>1, <1>2 DEF Stored, Funds
<1>3. CASE r.kind = "depreciation"
  <2>1. mode # "opening" /\ r.recognized = 0
    BY <1>1, <1>3
  <2>2. NormalSign(r) * Amount = Amount
    BY <1>3, SchedAssumption DEF NormalSign
  <2>3. ControlOf(r) = "Equipment"
    BY <1>3 DEF ControlOf
  <2>4. r.recognized \in Int /\ r.recognized <= 0 /\ r.recognized >= 0
    BY <2>1
  <2>5. -r.recognized = 0
    BY ONLY <2>4
  <2>6. QED
    BY <1>3, <2>1, <2>2, <2>3, <2>5 DEF Stored, Funds
<1>4. QED
  BY <1>2, <1>3

\* What the schedules took of the payment.
TakenSum(c) == SumFunctionOnSet([s \in FundedOn(c) |-> Taken(s)], FundedOn(c))

\* What a schedule takes of a payment is a number.
LEMMA TakenIs ==
  ASSUME WellFormed, NEW c \in Controls
  PROVE  TakenSum(c) \in Int /\ (FundedOn(c) = {} => TakenSum(c) = 0)
<1> DEFINE f == [s \in FundedOn(c) |-> Taken(s)]
<1>1. IsFiniteSet(FundedOn(c)) /\ \A s \in FundedOn(c) : Taken(s) \in Int
  BY UnlinkedIs
<1>2. \A s \in FundedOn(c) : f[s] \in Int
  BY <1>1
<1>3. TakenSum(c) = SumFunctionOnSet(f, FundedOn(c))
  BY DEF TakenSum
<1> HIDE DEF f
<1>4. SumFunctionOnSet(f, FundedOn(c)) \in Int
  BY <1>1, <1>2, SumAt
<1>5. FundedOn(c) = {} => SumFunctionOnSet(f, FundedOn(c)) = 0
  BY SumEmpty
<1>6. QED
  BY <1>3, <1>4, <1>5

\* What the payment leaves outside the schedules, once a new one takes its part.
LEMMA UnlinkedGrows ==
  ASSUME WellFormed, NEW s, s \notin DOMAIN schedules, NEW r, RecordOK(r), r.supersedes = {},
         schedules' = Saved([x \in {s} |-> r]), Payment' \in DOMAIN schedLedger',
         DOMAIN schedules = {} \/ \A b : Paid(b)' = Paid(b), NEW c \in Controls
  PROVE  /\ Unlinked(c)' = Paid(c)' - (TakenSum(c) + IF c = ControlOf(r) THEN Taken(s)' ELSE 0)
         /\ Taken(s)' = IF OnControl(r)' THEN NormalSign(r) * r.reserved ELSE 0
<1>1. /\ DOMAIN schedules' = DOMAIN schedules \union {s} /\ schedules'[s] = r
      /\ \A x \in DOMAIN schedules : schedules'[x] = schedules[x]
  BY DEF Saved, Over
<1> DEFINE F == FundedOn(c)
           G == FundedOn(c)'
           f == [x \in F |-> Taken(x)]
           h == [x \in G |-> Taken(x)']
<1>2. G = F \union {x \in {s} : c = ControlOf(r)} /\ s \notin F /\ F \subseteq DOMAIN schedules
  BY <1>1 DEF FundedOn
<1>3. \A x \in F : Taken(x)' = Taken(x)
  BY <1>1, <1>2 DEF Taken, OnControl
<1>4. Taken(s)' = IF OnControl(r)' THEN NormalSign(r) * r.reserved ELSE 0
  BY <1>1 DEF Taken, OnControl
<1>5. Taken(s)' \in Int
  <2>1. r.reserved \in Nat /\ NormalSign(r) \in {1, -1}
    BY DEF RecordOK, NormalSign
  <2>2. NormalSign(r) * r.reserved \in Int
    BY <2>1
  <2>3. QED
    BY <2>2, <1>4
<1>6. IsFiniteSet(F) /\ \A x \in F : Taken(x) \in Int
  BY UnlinkedIs
<1>7. Unlinked(c)' = Paid(c)' - SumFunctionOnSet(h, G)
  <2>1. c # "Bank"
    BY DEF Controls
  <2>2. Unlinked(c)' = Paid(c)' - SumFunction(h)
    BY <2>1 DEF Unlinked, Taken
  <2>3. DOMAIN h = G
    OBVIOUS
  <2> HIDE DEF h, G
  <2>4. SumFunction(h) = SumFunctionOnSet(h, G)
    BY <2>3, SumAll
  <2>5. QED
    BY <2>2, <2>4
<1>8. /\ \A x \in F : h[x] = f[x] /\ h[x] \in Int /\ f[x] \in Int
      /\ c = ControlOf(r) => h[s] = Taken(s)' /\ h[s] \in Int
  BY <1>2, <1>3, <1>5, <1>6
<1>9. TakenSum(c) = SumFunctionOnSet(f, F)
  BY DEF TakenSum
<1>10. TakenSum(c) \in Int
  BY TakenIs
<1> HIDE DEF F, G, f, h
<1>11. SumFunctionOnSet(h, F) = SumFunctionOnSet(f, F)
  BY <1>6, <1>8, SumSame
<1>12. CASE c = ControlOf(r)
  <2>1. G = F \union {s}
    BY <1>2, <1>12
  <2>2. SumFunctionOnSet(h, F \union {s}) = SumFunctionOnSet(h, F) + h[s]
    BY <1>2, <1>6, <1>8, <1>12, SumAdd
  <2>3. QED
    BY <2>1, <2>2, <1>4, <1>7, <1>8, <1>9, <1>11, <1>12
<1>13. CASE c # ControlOf(r)
  <2>1. G = F
    BY <1>2, <1>13
  <2>2. QED
    BY <2>1, <1>4, <1>7, <1>9, <1>10, <1>11, <1>13
<1>14. QED
  BY <1>12, <1>13

\* The accounts after a new schedule and the entry, if any, that funds it.
LEMMA ControlsFunded ==
  ASSUME WellFormed, ControlsMatchRecords, NEW s \in Schedules, s \notin DOMAIN schedules, NEW r, RecordOK(r),
         schedules' = Saved([x \in {s} |-> r]),
         NEW e, Wrote(schedLedger', e, schedLedger), DOMAIN e \cap DOMAIN schedLedger = {}, \A x \in DOMAIN e : EntryOK(e[x]),
         NEW c \in Controls, NEW k \in Int,
         (DOMAIN e = {} /\ k = 0) \/ (\E y : DOMAIN e = {y} /\ e[y].lines[c] = k),
         Unlinked(c)' = Unlinked(c) + k - Stored(r, c)
  PROVE  BalanceAsOf(c, LastDay)' = StoredSum(c)' + Unlinked(c)'
<1> DEFINE R == [x \in {s} |-> r]
           f == [x \in DOMAIN e |-> e[x].lines[c]]
           g == [x \in {s} |-> Stored(r, c)]
<1>1. c \in ScheduleAccounts /\ LedgerOK /\ RecordsOK
  BY DEF Controls, ScheduleAccounts, WellFormed
<1>2. BalanceAsOf(c, LastDay) = StoredSum(c) + Unlinked(c)
  BY DEF ControlsMatchRecords, StoredSum, Controls
<1>3. DOMAIN e = {x \in DOMAIN e : e[x].date <= LastDay}
  BY LastDayIs DEF EntryOK
<1>4. IsFiniteSet(DOMAIN e)
  <2>1. DOMAIN e = {} \/ \E y : DOMAIN e = {y}
    OBVIOUS
  <2>2. QED
    BY ONLY <2>1, FS_EmptySet, FS_Singleton
<1>5. /\ \A x \in DOMAIN e : f[x] = e[x].lines[c]
      /\ DOMAIN R = {s} /\ R[s] = r /\ g[s] = Stored(r, c) /\ Stored(r, c) \in Int
      /\ Wrote(schedules', R, schedules)
  BY StoredIs, OverWrites DEF Saved
<1> HIDE DEF R, f, g
<1>6. /\ BalanceAsOf(c, LastDay)' = BalanceAsOf(c, LastDay) + SumFunctionOnSet(f, DOMAIN e)
      /\ BalanceAsOf(c, LastDay) \in Int
  <2>1. /\ BalanceAsOf(c, LastDay)' = BalanceAsOf(c, LastDay) + SumFunctionOnSet(f, DOMAIN e)
        /\ BalanceAsOf(c, LastDay) \in Int /\ SumFunctionOnSet(f, DOMAIN e) \in Int
    BY <1>1, <1>3, <1>4, <1>5, LastDayIs, LedgerMoves
  <2>2. QED
    BY <2>1
<1>7. SumFunctionOnSet(f, DOMAIN e) = k
  <2>1. CASE DOMAIN e = {} /\ k = 0
    BY <2>1, SumEmpty
  <2>2. CASE \E y : DOMAIN e = {y} /\ e[y].lines[c] = k
    <3>1. PICK y : DOMAIN e = {y} /\ e[y].lines[c] = k
      BY <2>2
    <3>2. f[y] = k
      BY <3>1, <1>5
    <3>3. SumFunctionOnSet(f, {y}) = f[y]
      BY <3>2, SumOne
    <3>4. QED
      BY <3>1, <3>2, <3>3
  <2>3. QED
    BY <2>1, <2>2
<1>8. StoredSum(c)' = StoredSum(c) + Stored(r, c) /\ StoredSum(c) \in Int
  <2>1. \A x \in DOMAIN R : g[x] = Stored(R[x], c) - Before(x, c)
    <3>1. Before(s, c) = 0
      BY DEF Before
    <3>2. QED
      BY <3>1, <1>5
  <2>2. DOMAIN R \subseteq Schedules /\ \A x \in DOMAIN R : RecordOK(R[x])
    BY <1>5
  <2>3. StoredSum(c)' = StoredSum(c) + SumFunctionOnSet(g, DOMAIN R) /\ StoredSum(c) \in Int
    BY <2>1, <2>2, <1>1, <1>5, StoredMoves
  <2>4. SumFunctionOnSet(g, {s}) = g[s]
    BY <1>5, SumOne
  <2>5. QED
    BY <2>3, <2>4, <1>5
<1>9. Unlinked(c) \in Int
  BY UnlinkedIs
<1>10. QED
  BY <1>2, <1>5, <1>6, <1>7, <1>8, <1>9

\* A new schedule among the others.
LEMMA NewSchedule ==
  ASSUME SchedInv, NEW s, s \notin DOMAIN schedules, NEW r, RecordOK(r), r.remaining = BaseOf(r), r.remaining > 0,
         schedules' = Saved([x \in {s} |-> r]), schedAllocs' = schedAllocs, WellFormed', ControlsMatchRecords'
  PROVE  SchedInv'
<1>1. WellFormed /\ \A x \in DOMAIN schedules : ScheduleOK(x)
  BY InvBySchedule DEF EverySchedule
<1>2. /\ DOMAIN schedules' = DOMAIN schedules \union {s} /\ schedules'[s] = r
      /\ \A x \in DOMAIN schedules : schedules'[x] = schedules[x]
  BY DEF Saved, Over
<1>3. ScheduleOK(s)'
  <2>1. Recognitions(s)' = {}
    <3>1. Recognitions(s) = {}
      BY <1>1, NothingOfOthers
    <3>2. QED
      BY <3>1 DEF Recognitions
  <2>2. OnceOf(s)' /\ \A x \in Recognitions(s)' : x[3] < schedules'[s].generation /\ schedAllocs'[x].date < schedules'[s].start
    BY <2>1 DEF OnceOf
  <2>3. RecordOK(schedules'[s]) /\ schedules'[s].remaining = BaseOf(schedules'[s]) /\ schedules'[s].remaining > 0
    BY <1>2
  <2>4. QED
    BY <2>2, <2>3, NewGeneration
<1>4. ASSUME NEW x \in DOMAIN schedules PROVE ScheduleOK(x)'
  <2> DEFINE a == <<>>
  <2>1. Wrote(schedAllocs', a, schedAllocs) /\ DOMAIN a = {}
    BY OverWrites
  <2>2. ScheduleOK(x) /\ schedules'[x] = schedules[x]
    BY <1>1, <1>2
  <2> HIDE DEF a
  <2>3. \A y \in DOMAIN a : ~(y[1] = "recognition" /\ y[2] = x)
    BY <2>1
  <2>4. QED
    BY <2>1, <2>2, <2>3, UntouchedSchedule
<1>5. EverySchedule'
  BY <1>2, <1>3, <1>4 DEF EverySchedule
<1>6. QED
  BY <1>5, InvBySchedule, PTL

\* The entry that funds a schedule: none, or one of its amount.
FundingOK(mode, q, r, e) ==
  /\ mode = "new" => DOMAIN e = {Payment} /\ e[Payment].lines = Two(ControlOf(r), NormalSign(r) * Amount, "Bank")
  /\ mode = "existing" /\ ~OnControl(r) => DOMAIN e = {Id("reclass", q.id, 0, 0)}
  /\ mode = "opening" \/ (mode = "existing" /\ OnControl(r)) => DOMAIN e = {}
  /\ \A x \in DOMAIN e : /\ EntryOK(e[x]) /\ e[x].date = q.date
                         /\ \A c \in Controls : e[x].lines[c] = Funds(r, c)
\* The entry that funds a schedule is one of these.
LEMMA FundingIs ==
  ASSUME NEW mode \in {"new", "existing", "opening"}, NEW q \in ScheduleRequests(mode), NEW r, r = Record(q),
         NEW e, e = Funding(q, r)
  PROVE  FundingOK(mode, q, r, e)
<1>1. q.mode = mode /\ q.date \in Days
  BY RequestIs
<1>2. r.kind \in Kinds
  BY NewRecordIs
<1>3. \A b \in {"Bank", Category(r)} : LET l == Two(ControlOf(r), NormalSign(r) * Amount, b) IN
        l \in [ScheduleAccounts -> Int] /\ \A c \in Controls : l[c] = Funds(r, c)
  BY <1>2, FundingLines
<1> DEFINE y == Id("reclass", q.id, 0, 0)
<1>4. CASE mode = "new"
  <2>1. e = [x \in {Payment} |-> [date |-> q.date, lines |-> Two(ControlOf(r), NormalSign(r) * Amount, "Bank")]]
    BY <1>1, <1>4 DEF Funding
  <2>2. /\ DOMAIN e = {Payment} /\ e[Payment].date = q.date
        /\ e[Payment].lines = Two(ControlOf(r), NormalSign(r) * Amount, "Bank")
    BY <2>1
  <2>3. QED
    BY <2>2, <1>1, <1>3, <1>4 DEF EntryOK, FundingOK
<1>5. CASE mode = "existing" /\ ~OnControl(r)
  <2>1. e = [x \in {y} |-> [date |-> q.date, lines |-> Two(ControlOf(r), NormalSign(r) * Amount, Category(r))]]
    BY <1>1, <1>5 DEF Funding
  <2> HIDE DEF y
  <2>2. /\ DOMAIN e = {y} /\ e[y].date = q.date
        /\ e[y].lines = Two(ControlOf(r), NormalSign(r) * Amount, Category(r))
    BY <2>1
  <2>3. QED
    BY <2>2, <1>1, <1>3, <1>5 DEF EntryOK, FundingOK, y
<1>6. CASE mode = "opening" \/ (mode = "existing" /\ OnControl(r))
  <2>1. e = <<>>
    BY <1>1, <1>6 DEF Funding
  <2>2. DOMAIN e = {}
    BY <2>1
  <2>3. QED
    BY <2>2, <1>6 DEF FundingOK
<1>7. QED
  BY <1>4, <1>5, <1>6

\* Books without the payment are empty, and books without schedules hold it alone.
LEMMA EmptyBooks ==
  ASSUME WellFormed
  PROVE  /\ DOMAIN schedules = {} => DOMAIN schedAllocs = {} /\ DOMAIN schedLedger \subseteq {Payment}
         /\ Payment \notin DOMAIN schedLedger => DOMAIN schedules = {} /\ DOMAIN schedLedger = {}
<1>1. DOMAIN schedules = {} => DOMAIN schedAllocs = {}
  BY DEF WellFormed, AllocsOK, AllocOK
<1>2. DOMAIN schedules = {} => DOMAIN schedLedger \subseteq {Payment}
  BY <1>1 DEF WellFormed, LedgerOK
<1>3. Payment \notin DOMAIN schedLedger => DOMAIN schedules = {}
  BY DEF WellFormed, LedgerOK
<1>4. QED
  BY <1>1, <1>2, <1>3

\* A schedule of a payment that is new.
LEMMA FundNew ==
  ASSUME SchedInv, NEW q \in ScheduleRequests("new"), Payment \notin DOMAIN schedLedger, Create(q)
  PROVE  SchedInv'
<1> DEFINE r == Record(q)
           e == Funding(q, r)
           s == q.id
           l == Two(ControlOf(r), NormalSign(r) * Amount, "Bank")
<1>1. /\ s \notin DOMAIN schedules /\ schedules' = Saved([x \in {s} |-> r]) /\ schedLedger' = Posted(e)
      /\ schedAllocs' = schedAllocs /\ closed' = closed
  BY DEF Create
<1>2. s \in Schedules
  BY RequestIs
<1>r. r = Record(q) /\ e = Funding(q, r)
  OBVIOUS
<1> HIDE DEF r, e, s
<1>3. RecordOK(r) /\ r.remaining = BaseOf(r) /\ r.remaining > 0 /\ r.supersedes = {} /\ r.kind \in Kinds /\ r.reserved = Amount
  BY <1>r, NewRecordIs
<1>4. \A c \in Controls : Stored(r, c) = Funds(r, c)
  BY <1>r, StoredFunds
<1>5. WellFormed /\ RecordsOK /\ ControlsMatchRecords /\ DOMAIN schedules = {} /\ DOMAIN schedAllocs = {} /\ DOMAIN schedLedger = {}
  BY EmptyBooks DEF SchedInv, WellFormed
<1>6. DOMAIN e = {Payment} /\ e[Payment].lines = l /\ EntryOK(e[Payment]) /\ \A c \in Controls : e[Payment].lines[c] = Funds(r, c)
  <2>1. FundingOK("new", q, r, e)
    BY <1>r, FundingIs
  <2>2. QED
    BY <2>1 DEF FundingOK, l
<1>7. /\ l \in [ScheduleAccounts -> Int] /\ (\A c \in Controls : l[c] = Funds(r, c) /\ Funds(r, c) \in Int)
      /\ \A c \in ScheduleAccounts : l[c] \in {0, Amount, -Amount}
  BY <1>3, FundingLines
<1> HIDE DEF l
<1>8. /\ Wrote(schedLedger', e, schedLedger) /\ DOMAIN schedLedger' = {Payment} /\ schedLedger'[Payment] = e[Payment]
      /\ Payment' = Payment
  <2>1. Wrote(schedLedger', e, schedLedger)
    BY <1>1, OverWrites DEF Posted
  <2>2. Payment' = Payment
    BY DEF Payment, Id
  <2>3. QED
    BY <2>1, <2>2, <1>5, <1>6 DEF Wrote
<1>9. \A c : Paid(c)' = l[c]
  BY <1>6, <1>8 DEF Paid
<1> DEFINE R == [x \in {s} |-> r]
<1>10. Wrote(schedules', R, schedules) /\ DOMAIN R = {s} /\ R[s] = r
  BY <1>1, OverWrites DEF Saved
<1> HIDE DEF R
<1>11. RecordsOK' /\ DOMAIN schedules' = {s}
  <2>1. /\ DOMAIN R \subseteq Schedules /\ (\A x \in DOMAIN R : RecordOK(R[x])) /\ closed' \subseteq MonthStarts
        /\ \A x \in DOMAIN R \cap DOMAIN schedules : Continues(schedules[x], R[x])
    BY <1>1, <1>2, <1>3, <1>5, <1>10 DEF RecordsOK
  <2>2. RecordsOK' /\ DOMAIN schedules' = DOMAIN R \union DOMAIN schedules
    BY <2>1, <1>5, <1>10, RecordsGrow
  <2>3. QED
    BY <2>2, <1>5, <1>10
<1>12. AllocsOK'
  BY <1>1, <1>5, FS_EmptySet DEF AllocsOK
<1>13. LedgerOK'
  <2>1. IsFiniteSet(DOMAIN schedLedger')
    BY <1>8, FS_Singleton
  <2>2. \A x \in DOMAIN schedLedger' : x = Payment /\ EntryOK(schedLedger'[x])
    BY <1>6, <1>8
  <2>3. \A c \in ScheduleAccounts : Paid(c)' \in {0, Amount, -Amount}
    BY <1>7, <1>9
  <2>4. QED
    BY <2>1, <2>2, <2>3, <1>8 DEF LedgerOK, EntryOK, Days
<1>14. WellFormed'
  BY <1>11, <1>12, <1>13 DEF WellFormed
<1>15. ASSUME NEW c \in Controls PROVE BalanceAsOf(c, LastDay)' = StoredSum(c)' + Unlinked(c)'
  <2>1. Unlinked(c) = 0
    BY DEF Unlinked
  <2>2. TakenSum(c) = 0
    <3>1. FundedOn(c) = {}
      BY <1>5 DEF FundedOn
    <3>2. QED
      BY <3>1, <1>5, TakenIs
  <2>3. Unlinked(c)' = 0
    <3>1. Payment' \in DOMAIN schedLedger'
      BY <1>8
    <3>2. /\ Unlinked(c)' = Paid(c)' - (TakenSum(c) + IF c = ControlOf(r) THEN Taken(s)' ELSE 0)
          /\ Taken(s)' = IF OnControl(r)' THEN NormalSign(r) * r.reserved ELSE 0
      BY <3>1, <1>1, <1>3, <1>5, UnlinkedGrows
    <3>3. ControlOf(r) \in Controls
      BY <1>3 DEF ControlOf, Controls, Kinds
    <3>4. Paid(ControlOf(r))' = NormalSign(r) * Amount /\ Paid(c)' = Funds(r, c)
      BY <3>3, <1>7, <1>9 DEF Funds
    <3>5. OnControl(r)'
      BY <3>4 DEF OnControl
    <3>6. Funds(r, c) \in Int
      BY <1>7
    <3>7. Funds(r, c) = (IF c = ControlOf(r) THEN NormalSign(r) * r.reserved ELSE 0)
      BY <1>3 DEF Funds
    <3>8. QED
      BY <2>2, <3>2, <3>4, <3>5, <3>6, <3>7
  <2>4. /\ Funds(r, c) \in Int /\ Stored(r, c) = Funds(r, c)
        /\ \E y : DOMAIN e = {y} /\ e[y].lines[c] = Funds(r, c)
    BY <1>4, <1>6, <1>7
  <2>5. Unlinked(c)' = Unlinked(c) + Funds(r, c) - Stored(r, c)
    BY <2>1, <2>3, <2>4
  <2>6. DOMAIN e \cap DOMAIN schedLedger = {} /\ \A x \in DOMAIN e : EntryOK(e[x])
    BY <1>5, <1>6
  <2>7. QED
    BY <2>4, <2>5, <2>6, <1>1, <1>2, <1>3, <1>5, <1>8, ControlsFunded
<1>16. ControlsMatchRecords'
  BY <1>15 DEF ControlsMatchRecords, StoredSum, Controls
<1>17. QED
  BY <1>1, <1>3, <1>14, <1>16, NewSchedule

\* What schedules reserve on an account.
LEMMA ReservedIs ==
  ASSUME WellFormed, NEW c \in Controls
  PROVE  ReservedBy(c) \in Int /\ ReservedBy(c) >= 0
<1> DEFINE f == [s \in FundedOn(c) |-> schedules[s].reserved]
           z == [s \in FundedOn(c) |-> 0]
<1>1. IsFiniteSet(FundedOn(c))
  BY UnlinkedIs
<1>2. \A s \in FundedOn(c) : f[s] \in Nat /\ z[s] = 0
  BY DEF FundedOn, WellFormed, RecordsOK, RecordOK
<1>3. ReservedBy(c) = SumFunctionOnSet(f, FundedOn(c))
  BY SumAll DEF ReservedBy
<1> HIDE DEF f, z
<1>4. SumFunctionOnSet(f, FundedOn(c)) \in Int /\ SumFunctionOnSet(z, FundedOn(c)) = 0
  BY <1>1, <1>2, SumAt, SumZero
<1>5. \A s \in FundedOn(c) : z[s] \in Int /\ f[s] \in Int /\ z[s] <= f[s]
  BY <1>2
<1>6. SumFunctionOnSet(z, FundedOn(c)) <= SumFunctionOnSet(f, FundedOn(c))
  BY <1>1, <1>5, SumSmaller
<1>7. QED
  BY <1>3, <1>4, <1>6

\* An opening balance is taken from a payment on the control account.
LEMMA OpeningOnControl ==
  ASSUME WellFormed, NEW q \in ScheduleRequests("opening"), NEW r, r = Record(q), CanFund(q, r)
  PROVE  OnControl(r)
<1>1. q.mode = "opening"
  BY RequestIs
<1>2. r.kind \in Kinds /\ r.remaining > 0 /\ r.remaining \in Nat
  BY NewRecordIs DEF RecordOK
<1>3. ControlOf(r) \in Controls /\ ControlOf(r) \in ScheduleAccounts /\ NormalSign(r) \in {1, -1}
  BY <1>2 DEF Kinds, Controls, ControlOf, NormalSign, ScheduleAccounts
<1>4. ReservedBy(ControlOf(r)) + r.remaining <= NormalSign(r) * Paid(ControlOf(r))
  BY <1>1 DEF CanFund
<1>5. ReservedBy(ControlOf(r)) \in Int /\ ReservedBy(ControlOf(r)) >= 0
  BY <1>3, ReservedIs
<1>6. Paid(ControlOf(r)) \in {0, Amount, -Amount} /\ Amount \in Nat /\ Amount > 0
  BY <1>3, SchedAssumption DEF WellFormed, LedgerOK
<1>7. NormalSign(r) * Paid(ControlOf(r)) \in Int
  BY <1>3, <1>6
<1>8. NormalSign(r) * Paid(ControlOf(r)) > 0
  BY <1>2, <1>4, <1>5, <1>7
<1>9. Paid(ControlOf(r)) = NormalSign(r) * Amount
  BY <1>3, <1>6, <1>8
<1>10. QED
  BY <1>9 DEF OnControl

\* A schedule of a payment that the books hold.
LEMMA FundHeld ==
  ASSUME SchedInv, NEW mode \in {"existing", "opening"}, NEW q \in ScheduleRequests(mode), Offered(mode), Create(q)
  PROVE  SchedInv'
<1> DEFINE r == Record(q)
           e == Funding(q, r)
           s == q.id
           R == [x \in {s} |-> r]
           a == <<>>
<1>1. /\ s \notin DOMAIN schedules /\ schedules' = Saved(R) /\ schedLedger' = Posted(e) /\ CanFund(q, r)
      /\ schedAllocs' = schedAllocs /\ closed' = closed
  BY DEF Create
<1>2. s \in Schedules
  BY RequestIs
<1>r. r = Record(q) /\ e = Funding(q, r) /\ R = [x \in {s} |-> r] /\ s = q.id
  OBVIOUS
<1>a. DOMAIN a = {} /\ Wrote(schedAllocs', a, schedAllocs)
  BY <1>1, OverWrites
<1> HIDE DEF r, e, s, R, a
<1>3. /\ RecordOK(r) /\ r.remaining = BaseOf(r) /\ r.remaining > 0 /\ r.supersedes = {} /\ r.kind \in Kinds
      /\ mode = "existing" => r.reserved = Amount
  BY <1>r, NewRecordIs
<1>4. WellFormed /\ RecordsOK /\ ControlsMatchRecords /\ Payment \in DOMAIN schedLedger
  BY DEF SchedInv, WellFormed, Offered
<1>5. FundingOK(mode, q, r, e)
  BY <1>r, FundingIs
<1>6. mode = "opening" => OnControl(r)
  BY <1>1, <1>4, <1>r, OpeningOnControl
<1>7. (OnControl(r) /\ DOMAIN e = {}) \/ (mode = "existing" /\ ~OnControl(r) /\ DOMAIN e = {Id("reclass", s, 0, 0)})
  BY <1>5, <1>6, <1>r DEF FundingOK
<1>8. DOMAIN e \cap DOMAIN schedLedger = {} /\ IsFiniteSet(DOMAIN e) /\ \A x \in DOMAIN e : EntryOK(e[x])
  <2>1. mode = "existing" => DOMAIN schedLedger \subseteq {Payment}
    BY <1>4, EmptyBooks DEF Offered
  <2>2. Id("reclass", s, 0, 0) # Payment
    BY DEF Payment, Id
  <2>3. IsFiniteSet(DOMAIN e)
    <3>1. IsFiniteSet({}) /\ IsFiniteSet({Id("reclass", s, 0, 0)})
      BY FS_EmptySet, FS_Singleton
    <3>2. QED
      BY <3>1, <1>7
  <2>4. QED
    BY <2>1, <2>2, <2>3, <1>5, <1>7 DEF FundingOK
<1>9. Wrote(schedules', R, schedules) /\ Wrote(schedLedger', e, schedLedger) /\ DOMAIN R = {s} /\ R[s] = r
  BY <1>1, <1>r, OverWrites DEF Saved, Posted
<1>10. WellFormed' /\ \A b : Paid(b)' = Paid(b)
  <2>1. /\ DOMAIN R \subseteq Schedules /\ (\A x \in DOMAIN R : RecordOK(R[x])) /\ closed' \subseteq MonthStarts
        /\ \A x \in DOMAIN R \cap DOMAIN schedules : Continues(schedules[x], R[x])
    BY <1>1, <1>2, <1>3, <1>4, <1>9 DEF RecordsOK
  <2>2. s \in DOMAIN schedules'
    BY <1>9 DEF Wrote
  <2>3. /\ IsFiniteSet(DOMAIN a) /\ \A x \in DOMAIN a : AllocOK(x, a[x], schedules')
    BY <1>a, FS_EmptySet
  <2>4. \A x \in DOMAIN e : EntryOK(e[x]) /\ ((\E y \in DOMAIN schedules' : x = Id("reclass", y, 0, 0)) \/ x \in DOMAIN a)
    BY <2>2, <1>7, <1>8
  <2>5. QED
    BY <2>1, <2>3, <2>4, <1>4, <1>8, <1>9, <1>a, Transaction
<1>11. ASSUME NEW c \in Controls PROVE BalanceAsOf(c, LastDay)' = StoredSum(c)' + Unlinked(c)'
  <2> DEFINE k == IF DOMAIN e = {} THEN 0 ELSE Funds(r, c)
             T == IF c = ControlOf(r) THEN Taken(s)' ELSE 0
  <2>1. Funds(r, c) \in Int /\ Stored(r, c) \in Int
    <3>1. NormalSign(r) * Amount \in Int
      <4>1. NormalSign(r) \in {1, -1} /\ Amount \in Int
        BY SchedAssumption DEF NormalSign
      <4>2. QED
        BY <4>1
    <3>2. QED
      BY <3>1, <1>3, StoredIs DEF Funds
  <2>2. /\ mode # "opening" => Stored(r, c) = Funds(r, c)
        /\ mode = "opening" => Stored(r, c) = IF c = ControlOf(r) THEN NormalSign(r) * r.reserved ELSE 0
    BY <1>r, StoredFunds
  <2>3. /\ Unlinked(c)' = Paid(c)' - (TakenSum(c) + T)
        /\ Taken(s)' = IF OnControl(r)' THEN NormalSign(r) * r.reserved ELSE 0
    <3>1. Payment' \in DOMAIN schedLedger'
      BY <1>4, <1>9 DEF Payment, Id, Wrote
    <3>2. schedules' = Saved([x \in {s} |-> r])
      BY <1>1, <1>r
    <3>3. QED
      BY <3>1, <3>2, <1>1, <1>3, <1>4, <1>10, UnlinkedGrows
  <2>4. OnControl(r)' = OnControl(r) /\ Paid(c)' = Paid(c)
    BY <1>10 DEF OnControl
  <2>5. Unlinked(c) = Paid(c) - TakenSum(c) /\ Unlinked(c) \in Int
    BY <1>4, UnlinkedIs DEF TakenSum
  <2>6. TakenSum(c) \in Int /\ Paid(c) \in Int
    <3>1. c \in ScheduleAccounts
      BY DEF Controls, ScheduleAccounts
    <3>2. QED
      BY <3>1, <1>4, TakenIs, SchedAssumption DEF WellFormed, LedgerOK
  <2>7. T = Stored(r, c) - k
    <3>1. CASE OnControl(r) /\ DOMAIN e = {}
      <4>1. T = IF c = ControlOf(r) THEN NormalSign(r) * r.reserved ELSE 0
        BY <2>3, <2>4, <3>1
      <4>2. T = Stored(r, c)
        BY <4>1, <2>2, <1>3 DEF Funds
      <4>3. k = 0
        BY <3>1
      <4>4. QED
        BY <4>2, <4>3, <2>1
    <3>2. CASE mode = "existing" /\ ~OnControl(r) /\ DOMAIN e = {Id("reclass", s, 0, 0)}
      <4>1. T = 0
        BY <2>3, <2>4, <3>2
      <4>2. k = Funds(r, c) /\ Stored(r, c) = Funds(r, c)
        BY <2>2, <3>2
      <4>3. QED
        BY <4>1, <4>2, <2>1
    <3>3. QED
      BY <3>1, <3>2, <1>7
  <2>8. (DOMAIN e = {} /\ k = 0) \/ (\E y : DOMAIN e = {y} /\ e[y].lines[c] = k)
    BY <1>5, <1>7 DEF FundingOK
  <2>9. k \in Int
    BY <2>1
  <2> HIDE DEF k, T
  <2>10. Unlinked(c)' = Unlinked(c) + k - Stored(r, c)
    BY ONLY <2>1, <2>3, <2>4, <2>5, <2>6, <2>7, <2>9
  <2>11. schedules' = Saved([x \in {s} |-> r])
    BY <1>1, <1>r
  <2>12. QED
    <3>1. /\ s \notin DOMAIN schedules /\ RecordOK(r) /\ Wrote(schedLedger', e, schedLedger)
          /\ DOMAIN e \cap DOMAIN schedLedger = {} /\ \A x \in DOMAIN e : EntryOK(e[x])
      BY <1>1, <1>3, <1>8, <1>9
    <3>2. QED
      BY ONLY <3>1, <2>8, <2>9, <2>10, <2>11, <1>2, <1>4, ControlsFunded
<1>12. ControlsMatchRecords'
  BY <1>11 DEF ControlsMatchRecords, StoredSum, Controls
<1>13. QED
  BY <1>1, <1>3, <1>10, <1>12, <1>r, NewSchedule

\* A schedule that begins keeps the invariant.
LEMMA CreateKeeps ==
  ASSUME SchedInv, NEW mode \in {"new", "existing", "opening"}, NEW q \in ScheduleRequests(mode), Offered(mode), Create(q)
  PROVE  SchedInv'
<1>1. CASE mode = "new"
  <2>1. Payment \notin DOMAIN schedLedger /\ q \in ScheduleRequests("new")
    BY <1>1 DEF Offered
  <2>2. QED
    BY <2>1, FundNew
<1>2. CASE mode # "new"
  <2>1. mode \in {"existing", "opening"}
    BY <1>2
  <2>2. QED
    BY <2>1, FundHeld
<1>3. QED
  BY <1>1, <1>2

--------------------------------------------------------------------------------
(* The invariant. *)

\* Books to which nothing is written: a month is closed or reopened, or nothing happens.
LEMMA NothingWritten ==
  ASSUME SchedInv, schedules' = schedules, schedAllocs' = schedAllocs, schedLedger' = schedLedger, closed' \subseteq MonthStarts
  PROVE  SchedInv'
<1>0. WellFormed /\ RecordsOK /\ AllocsOK /\ LedgerOK /\ EverySchedule /\ ControlsMatchRecords
  BY InvBySchedule DEF WellFormed
<1>1. RecordsOK'
  BY <1>0 DEF RecordsOK, RecordOK, HistoryOK, NoteOK, Scheduled, Service, Days
<1>2. AllocsOK'
  BY <1>0 DEF AllocsOK, AllocOK, Days, Id
<1>3. \A a : Paid(a)' = Paid(a)
  BY DEF Paid, Payment, Id
<1>4. LedgerOK'
  BY <1>0, <1>3 DEF LedgerOK, EntryOK, Days, Id, Payment
<1>5. \A s : Recognitions(s)' = Recognitions(s)
  BY DEF Recognitions
<1>6. EverySchedule'
  <2> SUFFICES ASSUME NEW s \in DOMAIN schedules PROVE ScheduleOK(s)'
    BY DEF EverySchedule
  <2> DEFINE a == <<>>
  <2>1. Wrote(schedAllocs', a, schedAllocs) /\ DOMAIN a = {}
    BY OverWrites
  <2>2. ScheduleOK(s) /\ schedules'[s] = schedules[s]
    BY <1>0 DEF EverySchedule
  <2> HIDE DEF a
  <2>3. \A y \in DOMAIN a : ~(y[1] = "recognition" /\ y[2] = s)
    BY <2>1
  <2>4. QED
    BY <2>1, <2>2, <2>3, UntouchedSchedule
<1>7. ControlsMatchRecords'
  <2>1. \A a : BalanceAsOf(a, LastDay)' = BalanceAsOf(a, LastDay)
    BY DEF BalanceAsOf
  <2>2. \A a : StoredSum(a)' = StoredSum(a)
    BY DEF StoredSum, Stored, ControlOf, NormalSign
  <2>3. \A a : FundedOn(a)' = FundedOn(a)
    BY DEF FundedOn, ControlOf
  <2>4. \A s : Taken(s)' = Taken(s)
    BY <1>3 DEF Taken, OnControl, ControlOf, NormalSign
  <2>5. \A a : Unlinked(a) = IF Payment \in DOMAIN schedLedger /\ a # "Bank"
                             THEN Paid(a) - SumFunction([s \in FundedOn(a) |-> Taken(s)]) ELSE 0
    BY DEF Unlinked, Taken
  <2>6. \A a : Unlinked(a)' = IF Payment' \in DOMAIN schedLedger' /\ a # "Bank"
                              THEN Paid(a)' - SumFunction([s \in FundedOn(a)' |-> Taken(s)']) ELSE 0
    BY DEF Unlinked, Taken
  <2>7. Payment' = Payment
    BY DEF Payment, Id
  <2>8. \A a : Unlinked(a)' = Unlinked(a)
    BY <1>3, <2>3, <2>4, <2>5, <2>6, <2>7
  <2>9. \A a \in Controls : BalanceAsOf(a, LastDay) = StoredSum(a) + Unlinked(a)
    BY <1>0 DEF ControlsMatchRecords, StoredSum, Controls
  <2>10. \A a \in Controls : BalanceAsOf(a, LastDay)' = StoredSum(a)' + Unlinked(a)'
    BY <2>1, <2>2, <2>8, <2>9
  <2>11. QED
    BY <2>10 DEF ControlsMatchRecords, StoredSum, Controls
<1>8. WellFormed'
  BY <1>1, <1>2, <1>4 DEF WellFormed
<1>9. (WellFormed /\ EverySchedule /\ ControlsMatchRecords)'
  BY <1>6, <1>7, <1>8
<1>10. QED
  BY <1>9, InvBySchedule, PTL

\* Books begin in the invariant.
LEMMA InvHoldsFirst ==
  ASSUME SchedInit
  PROVE  SchedInv
<1>1. DOMAIN schedules = {} /\ DOMAIN schedAllocs = {} /\ closed = {}
  BY DEF SchedInit
<1>2. RecordsOK /\ AllocsOK
  BY <1>1, FS_EmptySet DEF RecordsOK, AllocsOK
<1>3. \/ DOMAIN schedLedger = {}
      \/ \E p \in PaidLines : schedLedger = [x \in {Payment} |-> [date |-> PaidOn, lines |-> Lines(p)]]
  BY DEF SchedInit
<1>4. ASSUME NEW p \in PaidLines PROVE Lines(p) \in [ScheduleAccounts -> {0, Amount, -Amount}]
  <2>1. \A a \in DOMAIN p : p[a] \in {Amount, -Amount}
    BY SchedAssumption
  <2>2. QED
    BY <2>1 DEF Lines
<1>5. Amount \in Int /\ -Amount \in Int /\ PaidOn \in Days /\ PaidOn <= LastDay
  BY SchedAssumption, LastDayIs
<1>6. CASE DOMAIN schedLedger = {}
  <2>1. \A a : Paid(a) = 0 /\ Unlinked(a) = 0
    BY <1>6 DEF Paid, Unlinked
  <2>2. LedgerOK
    BY <1>1, <1>6, <2>1, FS_EmptySet DEF LedgerOK
  <2>3. \A a \in Controls : BalanceAsOf(a, LastDay) = 0 /\ StoredSum(a) = 0
    <3> TAKE a \in Controls
    <3> DEFINE X == {x \in DOMAIN schedLedger : schedLedger[x].date <= LastDay}
               f == [e \in X |-> schedLedger[e].lines[a]]
               h == [s \in DOMAIN schedules |-> Stored(schedules[s], a)]
    <3>1. BalanceAsOf(a, LastDay) = SumFunctionOnSet(f, X) /\ X = {}
      BY <1>6, SumAll DEF BalanceAsOf
    <3>2. StoredSum(a) = SumFunctionOnSet(h, DOMAIN schedules)
      BY SumAll DEF StoredSum
    <3> HIDE DEF X, f, h
    <3>3. QED
      BY <3>1, <3>2, <1>1, SumEmpty
  <2>4. ControlsMatchRecords
    BY <2>1, <2>3 DEF ControlsMatchRecords, StoredSum, Controls
  <2>5. QED
    BY <1>1, <1>2, <2>2, <2>4, InvBySchedule DEF WellFormed, EverySchedule
<1>7. CASE \E p \in PaidLines : schedLedger = [x \in {Payment} |-> [date |-> PaidOn, lines |-> Lines(p)]]
  <2>1. PICK p \in PaidLines : schedLedger = [x \in {Payment} |-> [date |-> PaidOn, lines |-> Lines(p)]]
    BY <1>7
  <2>2. DOMAIN schedLedger = {Payment} /\ schedLedger[Payment].date = PaidOn /\ schedLedger[Payment].lines = Lines(p)
    BY <2>1
  <2>3. \A a : Paid(a) = Lines(p)[a]
    BY <2>2 DEF Paid
  <2>4. Lines(p) \in [ScheduleAccounts -> {0, Amount, -Amount}]
    BY <1>4
  <2>5. Lines(p) \in [ScheduleAccounts -> Int]
    BY <2>4, <1>5
  <2>6. EntryOK(schedLedger[Payment])
    BY <2>2, <2>5, <1>5 DEF EntryOK
  <2>7. \A a \in ScheduleAccounts : Paid(a) \in {0, Amount, -Amount}
    BY <2>3, <2>4
  <2>8. LedgerOK
    BY <1>1, <2>2, <2>6, <2>7, FS_Singleton DEF LedgerOK
  <2>9. WellFormed
    BY <1>2, <2>8 DEF WellFormed
  <2>10. ASSUME NEW a \in Controls PROVE BalanceAsOf(a, LastDay) = StoredSum(a) + Unlinked(a)
    <3> DEFINE X == {x \in DOMAIN schedLedger : schedLedger[x].date <= LastDay}
               f == [e \in X |-> schedLedger[e].lines[a]]
               h == [s \in DOMAIN schedules |-> Stored(schedules[s], a)]
               t == [s \in FundedOn(a) |-> Taken(s)]
    <3>1. BalanceAsOf(a, LastDay) = SumFunctionOnSet(f, X) /\ X = {Payment} /\ f[Payment] = Lines(p)[a]
      BY <2>2, <1>5, SumAll DEF BalanceAsOf
    <3>2. StoredSum(a) = SumFunctionOnSet(h, DOMAIN schedules)
      BY SumAll DEF StoredSum
    <3>3. a \in ScheduleAccounts
      BY DEF Controls, ScheduleAccounts
    <3>4. Lines(p)[a] \in Int
      BY <3>3, <2>5
    <3>5. Unlinked(a) = Paid(a) - SumFunctionOnSet(t, FundedOn(a)) /\ FundedOn(a) = {}
      <4>1. Unlinked(a) = Paid(a) - SumFunctionOnSet([s \in FundedOn(a) |-> Taken(s)], FundedOn(a))
        BY <2>2, <2>9, UnlinkedIs
      <4>2. QED
        BY <4>1, <1>1 DEF FundedOn
    <3> HIDE DEF X, f, h, t
    <3>6. SumFunctionOnSet(t, FundedOn(a)) = 0 /\ SumFunctionOnSet(h, DOMAIN schedules) = 0
      BY <3>5, <1>1, SumEmpty
    <3>7. SumFunctionOnSet(f, {Payment}) = f[Payment]
      BY <3>1, <3>4, SumOne
    <3>8. QED
      BY <3>1, <3>2, <3>4, <3>5, <3>6, <3>7, <2>3
  <2>11. ControlsMatchRecords
    BY <2>10 DEF ControlsMatchRecords, StoredSum, Controls
  <2>12. QED
    BY <1>1, <2>9, <2>11, InvBySchedule DEF EverySchedule
<1>8. QED
  BY <1>3, <1>6, <1>7

\* Every step keeps it.
LEMMA InvKept ==
  ASSUME SchedInv, [SchedNext]_schedVars
  PROVE  SchedInv'
<1>0. closed \subseteq MonthStarts
  BY DEF SchedInv, WellFormed, RecordsOK
<1>1. CASE SchedNext
  <2>1. ASSUME NEW mode \in {"new", "existing", "opening"}, Offered(mode), NEW q \in ScheduleRequests(mode), Create(q)
        PROVE  SchedInv'
    BY <2>1, CreateKeeps
  <2>2. ASSUME NEW t \in Dates, PostDue(t) PROVE SchedInv'
    BY <2>2, PostDueKeeps, SchedAssumption
  <2>3. ASSUME NEW s \in DOMAIN schedules, NEW d \in Dates, Cancel(s, d) PROVE SchedInv'
    BY <2>3, CancelIs, IsChangeKeeps, SchedAssumption
  <2>4. ASSUME NEW s \in DOMAIN schedules, NEW d \in Dates,
               NEW left \in Refunds \union {schedules[s].remaining}, NEW back \in Refunds \union {schedules[s].remaining},
               Refund(s, d, left, back)
        PROVE  SchedInv'
    <3>1. schedules[s].remaining \in Nat
      BY DEF SchedInv, WellFormed, RecordsOK, RecordOK
    <3>2. left \in Nat /\ back \in Nat /\ d \in Days
      BY <3>1, SchedAssumption
    <3>3. QED
      BY <3>2, <2>4, RefundIs, IsChangeKeeps
  <2>5. ASSUME NEW s \in DOMAIN schedules, NEW d \in Dates, NEW n \in Schedules \ DOMAIN schedules, NEW w \in Terms,
               NEW p \in CustomPlans \union {<<>>}, Supersede(s, d, n, w, p)
        PROVE  SchedInv'
    BY <2>5, SupersedeKeeps, SchedAssumption
  <2>6. ASSUME NEW s \in DOMAIN schedules, NEW d \in Dates, NEW e \in Dates, Terminate(s, d, e) PROVE SchedInv'
    BY <2>6, TerminateIs, IsChangeKeeps, SchedAssumption
  <2>7. ASSUME NEW m \in MonthStarts, Close(m) \/ Reopen(m) PROVE SchedInv'
    <3>1. closed' \subseteq MonthStarts /\ schedules' = schedules /\ schedAllocs' = schedAllocs /\ schedLedger' = schedLedger
      BY <2>7, <1>0 DEF Close, Reopen
    <3>2. QED
      BY <3>1, NothingWritten
  <2>8. QED
    BY <1>1, <2>1, <2>2, <2>3, <2>4, <2>5, <2>6, <2>7 DEF SchedNext
<1>2. CASE UNCHANGED schedVars
  <2>1. closed' \subseteq MonthStarts /\ schedules' = schedules /\ schedAllocs' = schedAllocs /\ schedLedger' = schedLedger
    BY <1>2, <1>0 DEF schedVars
  <2>2. QED
    BY <2>1, NothingWritten
<1>3. QED
  BY <1>1, <1>2

\* The invariant and all it says.
LEMMA InvImplies ==
  ASSUME SchedInv
  PROVE  ServiceIsRecognizedOnce
<1>1. RecordsOK /\ AllocsOK
  BY DEF SchedInv, WellFormed
<1>2. \A s \in DOMAIN schedules : LET r == schedules[s] IN
         /\ r.kind \in Kinds /\ r.status \in {"active", "completed", "cancelled", "superseded", "terminated"}
         /\ r.remaining \in 0..r.base /\ r.recognized \in 0..Amount
         /\ r.first <= r.start /\ r.start <= r.last
  <2> TAKE s \in DOMAIN schedules
  <2> DEFINE r == schedules[s]
  <2>1. RecordOK(r) /\ Scheduled(r)
    BY <1>1 DEF RecordsOK, RecordOK
  <2>2. r.start <= r.last /\ r.base \in Nat
    BY <2>1 DEF Scheduled, Service
  <2>3. r.remaining \in Nat /\ r.remaining <= r.base /\ r.recognized \in Nat /\ r.recognized + r.remaining <= Amount /\ Amount \in Nat
    BY <2>1, SchedAssumption DEF RecordOK
  <2>4. r.remaining \in 0..r.base /\ r.recognized \in 0..Amount
    BY <2>2, <2>3
  <2>5. QED
    BY <2>1, <2>2, <2>4 DEF RecordOK, Statuses
<1>3. \A x \in DOMAIN schedAllocs : schedAllocs[x].schedule \in DOMAIN schedules /\ schedAllocs[x].date \in Days
  BY <1>1 DEF AllocsOK, AllocOK
<1>4. SchedTypeOK
  BY <1>1, <1>2, <1>3 DEF SchedTypeOK, RecordsOK
<1>5. QED
  BY <1>4 DEF SchedInv, ServiceIsRecognizedOnce

\* However the schedules of a company are run, no service is recognized twice, no cent of
\* a balance is lost or left over, and the ledger holds of every control account what the
\* records do: schedules.py's posting, refunds, replacements and early ends taken together.
THEOREM ServiceAlwaysRecognizedOnce == SchedSpec => []ServiceIsRecognizedOnce
<1>1. SchedInit => SchedInv
  BY InvHoldsFirst
<1>2. SchedInv /\ [SchedNext]_schedVars => SchedInv'
  BY InvKept
<1>3. SchedInv => ServiceIsRecognizedOnce
  BY InvImplies
<1>4. QED
  BY <1>1, <1>2, <1>3, PTL DEF SchedSpec

--------------------------------------------------------------------------------
(* Figures of a closed past. *)

\* Days that are not in a closed month come after a past that is closed.
LEMMA OpenIsLater ==
  ASSUME NEW d \in Days, ClosedPast(d), NEW D, OpenDates(D), NEW x \in D, x \in Days
  PROVE  x > d
<1>1. x \in Int /\ d \in Int
  BY DaysFinite
<1>2. Month(x) \in MonthStarts /\ Month(x) <= x /\ Month(x) \in Int
  BY MonthIs, DaysFinite, SchedAssumption
<1>3. Month(x) \notin closed
  BY DEF OpenDates
<1>4. ~(Month(x) <= d)
  BY <1>2, <1>3 DEF ClosedPast
<1>5. QED
  BY <1>1, <1>2, <1>4

\* The earliest of some changes: the first entered of those of the first day.
Precedes(r, k, j) ==
  \/ r.history[k].date < r.history[j].date
  \/ r.history[k].date = r.history[j].date /\ k <= j
\* It is what Earliest chooses.
LEMMA EarliestIs ==
  ASSUME NEW r, HistoryOK(r), NEW K, K \subseteq DOMAIN r.history, K # {}
  PROVE  /\ Earliest(r, K) \in K /\ \A j \in K : Precedes(r, Earliest(r, K), j)
         /\ \A k \in K : (\A j \in K : Precedes(r, k, j)) => k = Earliest(r, K)
<1>1. PICK H : r.history \in Seq(H)
  BY DEF HistoryOK
<1>2. DOMAIN r.history = 1..Len(r.history) /\ Len(r.history) \in Nat
  BY <1>1
<1>3. IsFiniteSet(K) /\ K \subseteq Int
  <2>1. IsFiniteSet(1..Len(r.history))
    BY <1>2, FS_Interval
  <2>2. QED
    BY <2>1, <1>2, FS_Subset
<1> DEFINE m == [k \in K |-> r.history[k].date]
           N == {m[k] : k \in K}
<1>4. \A k \in K : m[k] = r.history[k].date /\ m[k] \in Int
  BY <1>2, DaysFinite DEF HistoryOK, NoteOK
<1> HIDE DEF m
<1>5. IsFiniteSet(N) /\ N # {} /\ N \subseteq Int
  BY <1>3, <1>4, FiniteImage
<1> DEFINE n == Min(N)
<1>6. n \in N /\ \A y \in N : n <= y
  <2> HIDE DEF N
  <2>1. QED
    BY <1>5, MinIs
<1> HIDE DEF n
<1> DEFINE L == {k \in K : m[k] = n}
<1>7. IsFiniteSet(L) /\ L # {} /\ L \subseteq Int
  <2>1. L # {} /\ L \subseteq K
    BY <1>6
  <2>2. QED
    BY <2>1, <1>3, FS_Subset
<1> DEFINE k == Min(L)
<1>8. k \in L /\ \A y \in L : k <= y
  <2> HIDE DEF L
  <2>1. QED
    BY <1>7, MinIs
<1> HIDE DEF k
<1>9. k \in K /\ \A j \in K : Precedes(r, k, j)
  <2>1. k \in K /\ m[k] = n
    BY <1>8
  <2>2. ASSUME NEW j \in K PROVE Precedes(r, k, j)
    <3>1. n <= m[j] /\ m[j] \in Int /\ n \in Int
      BY <1>4, <1>5, <1>6
    <3>2. CASE m[j] = n
      BY <3>2, <2>1, <1>4, <1>8 DEF Precedes
    <3>3. CASE n < m[j]
      BY <3>3, <2>1, <1>4 DEF Precedes
    <3>4. QED
      BY <3>1, <3>2, <3>3
  <2>3. QED
    BY <2>1, <2>2
<1>10. Earliest(r, K) \in K /\ \A j \in K : Precedes(r, Earliest(r, K), j)
  <2>1. Earliest(r, K) = CHOOSE i \in K : \A j \in K : Precedes(r, i, j)
    BY DEF Earliest, Precedes
  <2>2. QED
    BY <2>1, <1>9
<1>11. ASSUME NEW i \in K, NEW j \in K, Precedes(r, i, j), Precedes(r, j, i) PROVE i = j
  <2>1. i \in Int /\ j \in Int /\ r.history[i].date \in Int /\ r.history[j].date \in Int
    BY <1>3, <1>4
  <2>2. QED
    BY <2>1, <1>11 DEF Precedes
<1>12. QED
  BY <1>10, <1>11

\* The first record of a schedule outlives a change that is no earlier than the last.
LEMMA FirstKept ==
  ASSUME NEW r, RecordOK(r), NEW m, RecordOK(m), NEW note, NoteOK(note),
         note.record.base = r.base, note.record.initial = r.initial, m.history = Append(r.history, note),
         \A k \in DOMAIN m.history : k > 1 => m.history[k].date >= m.history[k - 1].date
  PROVE  FirstRecord(m).base = FirstRecord(r).base /\ FirstRecord(m).initial = FirstRecord(r).initial
<1> DEFINE n == Len(r.history)
<1>1. /\ n \in Nat /\ DOMAIN r.history = 1..n /\ DOMAIN m.history = 1..n + 1
      /\ \A k \in 1..n : m.history[k] = r.history[k]
      /\ m.history[n + 1] = note
  <2>1. HistoryOK(r)
    BY DEF RecordOK
  <2>2. /\ Len(r.history) \in Nat /\ Len(m.history) = Len(r.history) + 1
        /\ DOMAIN r.history = 1..Len(r.history) /\ DOMAIN m.history = 1..Len(r.history) + 1
        /\ \A k \in 1..Len(r.history) : m.history[k] = r.history[k]
        /\ m.history[Len(r.history) + 1] = note
    BY <2>1, HistoryGrows
  <2>3. QED
    BY <2>2
<1>2. HistoryOK(r) /\ HistoryOK(m)
  BY DEF RecordOK
<1>3. \A d \in Days : d \in Int /\ d > 0
  BY SchedAssumption DEF Days
<1> HIDE DEF n
<1>4. \A k \in 1..n + 1 : m.history[k].date \in Int /\ m.history[k].date > 0
  <2> TAKE k \in 1..n + 1
  <2>1. CASE k \in 1..n
    <3>1. NoteOK(r.history[k])
      BY <2>1, <1>2 DEF HistoryOK, n
    <3>2. QED
      BY <3>1, <2>1, <1>1, <1>3 DEF NoteOK
  <2>2. CASE k = n + 1
    BY <2>2, <1>1, <1>3 DEF NoteOK
  <2>3. QED
    BY <2>1, <2>2, <1>1
<1>5. Later(r, 0) = 1..n /\ Later(m, 0) = 1..n + 1
  <2>1. \A k \in 1..n : r.history[k].date > 0
    BY <1>1, <1>4
  <2>2. QED
    BY <2>1, <1>1, <1>4 DEF Later
<1> DEFINE j == Earliest(m, 1..n + 1)
           i == Earliest(r, 1..n)
<1>6. FirstRecord(m) = m.history[j].record
  <2>1. n + 1 \in 1..n + 1
    BY <1>1
  <2>2. QED
    BY <2>1, <1>5 DEF FirstRecord, AtHistory
<1>7. CASE n = 0
  <2>1. 1..n = {} /\ 1..n + 1 = {1}
    BY <1>7
  <2>2. FirstRecord(r) = r
    BY <2>1, <1>5 DEF FirstRecord, AtHistory
  <2>3. j \in {1}
    <3>1. 1..n + 1 \subseteq DOMAIN m.history /\ 1..n + 1 # {}
      BY <1>1, <2>1
    <3>2. j \in 1..n + 1
      BY <3>1, <1>2, EarliestIs
    <3>3. QED
      BY <3>2, <2>1
  <2>4. m.history[j] = note
    BY <2>3, <1>1, <1>7
  <2>5. QED
    BY <2>2, <2>4, <1>6
<1>8. CASE n > 0
  <2>1. 1..n # {} /\ 1..n + 1 # {} /\ n \in 1..n /\ n + 1 \in 1..n + 1
    BY <1>1, <1>8
  <2>2. FirstRecord(r) = r.history[i].record
    BY <2>1, <1>5 DEF FirstRecord, AtHistory
  <2>3. i \in 1..n /\ \A k \in 1..n : Precedes(r, i, k)
    BY <2>1, <1>1, <1>2, EarliestIs
  <2>4. \A k \in 1..n + 1 : (\A x \in 1..n + 1 : Precedes(m, k, x)) => k = j
    BY <2>1, <1>1, <1>2, EarliestIs
  <2> HIDE DEF i, j
  <2>5. \A x \in 1..n : Precedes(m, i, x)
    BY <2>3, <1>1 DEF Precedes
  <2>6. Precedes(m, i, n + 1)
    <3>2. m.history[n + 1].date >= m.history[n].date
      <4> DEFINE k == n + 1
      <4>1. k \in DOMAIN m.history /\ k > 1 /\ k - 1 = n
        BY <1>1, <1>8
      <4> HIDE DEF k
      <4>2. m.history[k].date >= m.history[k - 1].date
        BY <4>1
      <4>3. m.history[k].date >= m.history[n].date
        BY <4>1, <4>2
      <4>4. QED
        BY <4>3 DEF k
    <3>3. Precedes(m, i, n)
      BY <2>1, <2>5
    <3>4. /\ m.history[n + 1].date \in Int /\ m.history[n].date \in Int /\ m.history[i].date \in Int
          /\ i \in Int /\ i <= n + 1
      <4>1. n \in 1..n + 1 /\ i \in 1..n + 1 /\ n + 1 \in 1..n + 1 /\ i \in Int /\ i <= n + 1
        BY <2>1, <2>3, <1>1
      <4>2. QED
        BY <4>1, <1>4
    <3>5. \A x, y, z \in Int : (x < y \/ x = y) /\ z >= y => x < z \/ x = z
      OBVIOUS
    <3>6. m.history[i].date < m.history[n].date \/ m.history[i].date = m.history[n].date
      BY <3>3 DEF Precedes
    <3>7. m.history[i].date < m.history[n + 1].date \/ m.history[i].date = m.history[n + 1].date
      BY ONLY <3>2, <3>4, <3>5, <3>6
    <3>8. QED
      BY <3>4, <3>7 DEF Precedes
  <2>7. \A x \in 1..n + 1 : Precedes(m, i, x)
    <3>1. \A x \in 1..n + 1 : x \in 1..n \/ x = n + 1
      BY <1>1
    <3>2. QED
      BY <3>1, <2>5, <2>6
  <2>8. i = j
    <3>1. i \in 1..n + 1
      BY <2>3, <1>1
    <3>2. QED
      BY <3>1, <2>4, <2>7
  <2>9. m.history[j] = r.history[i]
    BY <2>3, <2>8, <1>1
  <2>10. QED
    BY <2>2, <2>9, <1>6
<1>9. QED
  BY <1>1, <1>7, <1>8

\* What of a record the support of day d is taken from.
HandedBy(r, d) == \E k \in DOMAIN r.history : r.history[k].action = "supersede" /\ r.history[k].date <= d
SameOrigin(r, m, d) ==
  /\ m.kind = r.kind /\ StartsOn(m) = StartsOn(r)
  /\ FirstRecord(m).base = FirstRecord(r).base /\ FirstRecord(m).initial = FirstRecord(r).initial
  /\ HandedBy(m, d) <=> HandedBy(r, d)

\* The balance a schedule began with is a number.
LEMMA FirstRecordIs ==
  ASSUME NEW r, RecordOK(r)
  PROVE  FirstRecord(r).base \in Nat /\ FirstRecord(r).initial \in Nat
<1>1. HistoryOK(r) /\ r.base \in Nat /\ r.initial \in Nat
  BY DEF RecordOK, Scheduled
<1>2. PICK H : r.history \in Seq(H)
  BY <1>1 DEF HistoryOK
<1>3. CASE Later(r, 0) = {}
  BY <1>1, <1>3 DEF FirstRecord, AtHistory
<1>4. CASE Later(r, 0) # {}
  <2>1. Later(r, 0) \subseteq DOMAIN r.history
    BY DEF Later
  <2>2. Earliest(r, Later(r, 0)) \in DOMAIN r.history
    BY <2>1, <1>1, <1>4, EarliestIs
  <2>3. NoteOK(r.history[Earliest(r, Later(r, 0))])
    BY <2>2, <1>1, <1>2 DEF HistoryOK
  <2>4. QED
    BY <2>3, <1>4 DEF FirstRecord, AtHistory, NoteOK
<1>5. QED
  BY <1>3, <1>4

\* What a schedule supports is a number.
LEMMA SupportIs ==
  ASSUME WellFormed, NEW s \in DOMAIN schedules, NEW a, NEW d
  PROVE  SupportOf(s, a, d) \in Int
<1> DEFINE r == schedules[s]
           X == AllocatedBy(s, d)
           Y == {y \in X : y[1] = "recognition"}
           f == [x \in X |-> schedAllocs[x].amount]
           h == [x \in Y |-> schedAllocs[x].amount]
<1>1. RecordOK(r) /\ AllocsOK
  BY DEF WellFormed, RecordsOK
<1>2. FirstRecord(r).base \in Nat /\ FirstRecord(r).initial \in Nat
  BY <1>1, FirstRecordIs
<1>3. X \subseteq DOMAIN schedAllocs /\ Y \subseteq DOMAIN schedAllocs
  BY DEF AllocatedBy
<1>4. IsFiniteSet(X) /\ IsFiniteSet(Y)
  BY <1>1, <1>3, FS_Subset DEF AllocsOK
<1>5. (\A x \in X : f[x] \in Int) /\ \A x \in Y : h[x] \in Int
  BY <1>1, <1>3 DEF AllocsOK, AllocOK
<1>6. SumFunction(f) = SumFunctionOnSet(f, X) /\ SumFunction(h) = SumFunctionOnSet(h, Y)
  BY SumAll
<1>7. /\ RemainingAsOf(s, d) = IF Handed(s, d) THEN 0 ELSE FirstRecord(r).base - SumFunction(f)
      /\ RecognizedAsOf(s, d) = FirstRecord(r).initial + SumFunction(h)
  BY DEF RemainingAsOf, RecognizedAsOf
<1> HIDE DEF X, Y, f, h
<1>8. SumFunctionOnSet(f, X) \in Int /\ SumFunctionOnSet(h, Y) \in Int
  BY <1>4, <1>5, SumAt
<1>9. RemainingAsOf(s, d) \in Int /\ RecognizedAsOf(s, d) \in Int
  BY <1>2, <1>6, <1>7, <1>8
<1>10. NormalSign(r) \in {1, -1} /\ Amount \in Int
  BY SchedAssumption DEF NormalSign
<1>11. NormalSign(r) * RemainingAsOf(s, d) \in Int /\ -RecognizedAsOf(s, d) \in Int
  BY <1>9, <1>10
<1> HIDE DEF r
<1>12. QED
  BY <1>10, <1>11 DEF SupportOf, r

\* What is written of later days leaves the support of a day as it was.
LEMMA SupportStays ==
  ASSUME WellFormed, NEW d \in Days, NEW R, Wrote(schedules', R, schedules), NEW A, Wrote(schedAllocs', A, schedAllocs),
         DOMAIN R \subseteq Schedules, DOMAIN A \cap DOMAIN schedAllocs = {},
         \A x \in DOMAIN A : A[x].date \in Int /\ A[x].date > d,
         \A s \in DOMAIN R \cap DOMAIN schedules : SameOrigin(schedules[s], R[s], d),
         \A s \in DOMAIN R \ DOMAIN schedules : StartsOn(R[s]) > d,
         NEW a
  PROVE  Support(a, d)' = Support(a, d)
<1>0. d \in Int
  BY DaysFinite
<1>1. /\ DOMAIN schedules' = DOMAIN R \union DOMAIN schedules
      /\ \A s \in DOMAIN R : schedules'[s] = R[s]
      /\ \A s \in DOMAIN schedules \ DOMAIN R : schedules'[s] = schedules[s]
  BY DEF Wrote
<1>2. \A s : AllocatedBy(s, d)' = AllocatedBy(s, d)
  BY <1>0 DEF AllocatedBy, Wrote
<1>3. \A s : \A x \in AllocatedBy(s, d) : schedAllocs'[x] = schedAllocs[x]
  BY DEF AllocatedBy, Wrote
<1>4. ASSUME NEW s \in DOMAIN schedules PROVE SupportOf(s, a, d)' = SupportOf(s, a, d)
  <2> DEFINE r == schedules[s]
             m == schedules'[s]
             X == AllocatedBy(s, d)
             f == [x \in X |-> schedAllocs[x].amount]
             h == [x \in {y \in X : y[1] = "recognition"} |-> schedAllocs[x].amount]
  <2>1. SameOrigin(r, m, d)
    <3>1. SameOrigin(r, r, d)
      BY DEF SameOrigin
    <3>2. QED
      BY <3>1, <1>1
  <2>2. /\ RemainingAsOf(s, d) = IF HandedBy(r, d) THEN 0 ELSE FirstRecord(r).base - SumFunction(f)
        /\ RecognizedAsOf(s, d) = FirstRecord(r).initial + SumFunction(h)
    BY DEF RemainingAsOf, RecognizedAsOf, Handed, HandedBy
  <2>3. [x \in AllocatedBy(s, d) |-> schedAllocs[x].amount]' = f
    BY <1>2, <1>3
  <2>4. [x \in {y \in AllocatedBy(s, d) : y[1] = "recognition"} |-> schedAllocs[x].amount]' = h
    BY <1>2, <1>3
  <2>5. /\ RemainingAsOf(s, d)' = IF HandedBy(m, d) THEN 0 ELSE FirstRecord(m).base - SumFunction(f)
        /\ RecognizedAsOf(s, d)' = FirstRecord(m).initial + SumFunction(h)
    BY <2>3, <2>4 DEF RemainingAsOf, RecognizedAsOf, Handed, HandedBy
  <2> HIDE DEF f, h
  <2>6. RemainingAsOf(s, d)' = RemainingAsOf(s, d) /\ RecognizedAsOf(s, d)' = RecognizedAsOf(s, d)
    BY <2>1, <2>2, <2>5 DEF SameOrigin
  <2>7. m.kind = r.kind /\ StartsOn(m) = StartsOn(r)
    BY <2>1 DEF SameOrigin
  <2>8. ControlOf(m) = ControlOf(r) /\ NormalSign(m) = NormalSign(r)
    BY <2>7 DEF ControlOf, NormalSign
  <2>9. SupportOf(s, a, d) =
          IF StartsOn(r) > d THEN 0
          ELSE CASE r.kind = "depreciation" /\ a = "Equipment" -> Amount
                 [] r.kind = "depreciation" /\ a = "Accumulated" -> -RecognizedAsOf(s, d)
                 [] r.kind # "depreciation" /\ a = ControlOf(r) -> NormalSign(r) * RemainingAsOf(s, d)
                 [] OTHER -> 0
    BY DEF SupportOf
  <2>10. SupportOf(s, a, d)' =
          IF StartsOn(m) > d THEN 0
          ELSE CASE m.kind = "depreciation" /\ a = "Equipment" -> Amount
                 [] m.kind = "depreciation" /\ a = "Accumulated" -> -RecognizedAsOf(s, d)'
                 [] m.kind # "depreciation" /\ a = ControlOf(m) -> NormalSign(m) * RemainingAsOf(s, d)'
                 [] OTHER -> 0
    BY DEF SupportOf
  <2> HIDE DEF r, m
  <2>11. QED
    BY <2>6, <2>7, <2>8, <2>9, <2>10
<1>5. ASSUME NEW s \in DOMAIN schedules' \ DOMAIN schedules PROVE SupportOf(s, a, d)' = 0
  <2>1. StartsOn(schedules'[s]) > d
    BY <1>1
  <2>2. QED
    BY <2>1 DEF SupportOf
<1> DEFINE S == DOMAIN schedules
           T == DOMAIN schedules'
           f == [s \in S |-> SupportOf(s, a, d)]
           h == [s \in T |-> SupportOf(s, a, d)']
<1>6. Support(a, d) = SumFunctionOnSet(f, S) /\ Support(a, d)' = SumFunctionOnSet(h, T)
  <2>1. Support(a, d) = SumFunction(f) /\ Support(a, d)' = SumFunction(h) /\ DOMAIN f = S /\ DOMAIN h = T
    BY DEF Support
  <2> HIDE DEF f, h
  <2>2. QED
    BY <2>1, SumAll
<1>7. /\ \A s \in S : f[s] \in Int /\ h[s] = f[s]
      /\ \A s \in T \ S : h[s] = 0
      /\ S \subseteq T
  BY <1>1, <1>4, <1>5, SupportIs
<1>8. IsFiniteSet(S) /\ IsFiniteSet(T)
  <2>1. S \subseteq Schedules /\ T \subseteq Schedules
    BY <1>1 DEF WellFormed, RecordsOK
  <2>2. QED
    BY <2>1, FS_Subset, SchedAssumption
<1> HIDE DEF f, h, T
<1>9. \A s \in T : h[s] \in Int
  BY <1>7
<1>10. SumFunctionOnSet(h, T) = SumFunctionOnSet(h, S)
  BY <1>7, <1>8, <1>9, SumOver
<1>11. SumFunctionOnSet(h, S) = SumFunctionOnSet(f, S)
  BY <1>7, <1>8, SumSame
<1>12. QED
  BY <1>6, <1>10, <1>11

\* What is posted on later days leaves the balance of a day as it was.
LEMMA BalanceStays ==
  ASSUME LedgerOK, NEW e, Wrote(schedLedger', e, schedLedger), DOMAIN e \cap DOMAIN schedLedger = {},
         IsFiniteSet(DOMAIN e), \A x \in DOMAIN e : EntryOK(e[x]), NEW d \in Days, \A x \in DOMAIN e : e[x].date > d,
         NEW a \in ScheduleAccounts
  PROVE  BalanceAsOf(a, d)' = BalanceAsOf(a, d)
<1> DEFINE f == [x \in DOMAIN e |-> e[x].lines[a]]
<1>1. {} = {x \in DOMAIN e : e[x].date <= d}
  <2>1. d \in Int /\ \A x \in DOMAIN e : e[x].date \in Int
    BY DaysFinite DEF EntryOK
  <2>2. QED
    BY <2>1
<1>2. \A x \in DOMAIN e : f[x] = e[x].lines[a]
  OBVIOUS
<1> HIDE DEF f
<1>3. /\ BalanceAsOf(a, d)' = BalanceAsOf(a, d) + SumFunctionOnSet(f, {})
      /\ BalanceAsOf(a, d) \in Int /\ SumFunctionOnSet(f, {}) \in Int
  BY <1>1, <1>2, LedgerMoves
<1>4. SumFunctionOnSet(f, {}) = 0
  BY SumEmpty
<1>5. QED
  BY <1>3, <1>4

\* A transaction of later days.
LEMMA FiguresStay ==
  ASSUME WellFormed, NEW d \in Days, NEW R, NEW e, NEW A,
         Wrote(schedules', R, schedules), Wrote(schedLedger', e, schedLedger), Wrote(schedAllocs', A, schedAllocs),
         DOMAIN R \subseteq Schedules, DOMAIN e \cap DOMAIN schedLedger = {}, DOMAIN A \cap DOMAIN schedAllocs = {},
         IsFiniteSet(DOMAIN e), \A x \in DOMAIN e : EntryOK(e[x]) /\ e[x].date > d,
         \A x \in DOMAIN A : A[x].date \in Int /\ A[x].date > d,
         \A s \in DOMAIN R \cap DOMAIN schedules : SameOrigin(schedules[s], R[s], d),
         \A s \in DOMAIN R \ DOMAIN schedules : StartsOn(R[s]) > d
  PROVE  Figures(d)' = Figures(d)
<1>1. LedgerOK
  BY DEF WellFormed
<1>2. \A a \in ScheduleAccounts : BalanceAsOf(a, d)' = BalanceAsOf(a, d)
  BY <1>1, BalanceStays
<1>3. \A a : Support(a, d)' = Support(a, d)
  BY SupportStays
<1>4. Figures(d)' = [a \in ScheduleAccounts |-> <<BalanceAsOf(a, d)', Support(a, d)'>>]
  BY DEF Figures, ScheduleAccounts
<1>5. QED
  BY <1>2, <1>3, <1>4 DEF Figures

\* A note of a later day, entered in order, leaves what the support of a day is taken from.
LEMMA NoteStays ==
  ASSUME NEW r, RecordOK(r), NEW q, RecordOK(q), q.history = r.history, q.kind = r.kind,
         q.originDate = r.originDate, q.effectiveFrom = r.effectiveFrom,
         NEW when \in Days, NEW d \in Days, when > d, NEW action, NEW m, m = Noted(r, when, action, q),
         \A k \in DOMAIN m.history : k > 1 => m.history[k].date >= m.history[k - 1].date
  PROVE  SameOrigin(r, m, d)
<1> DEFINE note == [date |-> when, action |-> action, record |-> Kept(r)]
           n == Len(r.history)
<1>1. /\ m.kind = q.kind /\ m.originDate = q.originDate /\ m.effectiveFrom = q.effectiveFrom
      /\ m.history = Append(r.history, note)
  BY DEF Noted, RecordOK, Fields
<1>2. Kept(r).base = r.base /\ Kept(r).initial = r.initial
  BY DEF Kept, RecordOK, Fields
<1>3. NoteOK(note)
  BY <1>2 DEF NoteOK, RecordOK, Scheduled
<1>4. note.record.base = r.base /\ note.record.initial = r.initial /\ note.date = when
  BY <1>2
<1> HIDE DEF note
<1>5. RecordOK(m)
  BY NotedIs
<1>6. FirstRecord(m).base = FirstRecord(r).base /\ FirstRecord(m).initial = FirstRecord(r).initial
  BY <1>1, <1>3, <1>4, <1>5, FirstKept
<1>7. HistoryOK(r)
  BY DEF RecordOK
<1>8. /\ n \in Nat /\ DOMAIN r.history = 1..n /\ DOMAIN m.history = 1..n + 1
      /\ \A k \in 1..n : m.history[k] = r.history[k]
      /\ m.history[n + 1] = note
  <2>1. /\ Len(r.history) \in Nat
        /\ DOMAIN r.history = 1..Len(r.history) /\ DOMAIN m.history = 1..Len(r.history) + 1
        /\ \A k \in 1..Len(r.history) : m.history[k] = r.history[k]
        /\ m.history[Len(r.history) + 1] = note
    BY <1>1, <1>3, <1>7, HistoryGrows
  <2>2. QED
    BY <2>1
<1> HIDE DEF n
<1>9. HandedBy(m, d) <=> HandedBy(r, d)
  <2>1. \A k \in 1..n + 1 : k \in 1..n \/ k = n + 1
    BY <1>8
  <2>2. ~(m.history[n + 1].date <= d)
    BY <1>4, <1>8, DaysFinite
  <2>3. \A k \in 1..n : k \in 1..n + 1
    BY <1>8
  <2>4. QED
    BY <2>1, <2>2, <2>3, <1>8 DEF HandedBy
<1>10. StartsOn(m) = StartsOn(r)
  BY <1>1 DEF StartsOn
<1>11. QED
  BY <1>1, <1>6, <1>9, <1>10 DEF SameOrigin

\* A change of one schedule leaves the figures of a closed past.
LEMMA ChangeStays ==
  ASSUME SchedInv, NEW s \in DOMAIN schedules, NEW when \in Days, IsChange(s, when), ChangesInOrder(s)',
         NEW d \in Days, ClosedPast(d)
  PROVE  Figures(d)' = Figures(d)
<1>a. PICK given, left, back \in Nat : \E action, q, e, a, P, rel :
        Changing(s, when, action, q, e, a, P, given, left, back, rel)
  BY DEF IsChange
<1>1. PICK action, q, e, a, P, rel : Changing(s, when, action, q, e, a, P, given, left, back, rel)
  BY <1>a
<1> DEFINE r == schedules[s]
           m == Noted(r, when, action, q)
           R == [x \in {s} |-> m]
           y == ChangeId(s)
           ret == Returned(s, when, left, back)
           Q == PartsOf(s, P)
           D == {when} \union {e[x].date : x \in DOMAIN e}
<1>2. /\ Change(s, when, action, q, e, a) /\ Follows(r, q) /\ Recognizes(s, P)
      /\ Hands(s, when, given, back, rel) /\ Wrote(e, Entries(Q), rel) /\ Wrote(a, Allocations(Q), ret)
  BY <1>1 DEF Changing
<1>3. OpenDates(D) /\ schedules' = Saved(R) /\ schedLedger' = Posted(e) /\ schedAllocs' = Allocated(a)
  BY <1>2 DEF Change
<1>4. WellFormed /\ LedgerOK /\ RecordsOK /\ RecordOK(r) /\ s \in Schedules
  BY DEF SchedInv, WellFormed, RecordsOK
<1>5. Wrote(schedules', R, schedules) /\ Wrote(schedLedger', e, schedLedger) /\ Wrote(schedAllocs', a, schedAllocs)
  BY <1>3, OverWrites DEF Saved, Posted, Allocated
<1>6. DOMAIN R = {s} /\ R[s] = m /\ schedules'[s] = m
  BY <1>5 DEF Wrote
<1>7. DOMAIN ret = {y} /\ ret[y].date = when
  BY DEF Returned
<1>8. /\ DOMAIN Entries(Q) = PartIds(Q) /\ DOMAIN Allocations(Q) = PartIds(Q) /\ IsFiniteSet(PartIds(Q))
      /\ \A x \in PartIds(Q) :
              /\ x \notin DOMAIN schedAllocs /\ x \notin DOMAIN schedLedger
              /\ \E p \in P : Allocations(Q)[x].date = p.date /\ Entries(Q)[x].date = p.date
              /\ EntryOK(Entries(Q)[x])
  <2>1. P # {} => Recognizable(s, P)
    BY <1>2 DEF Recognizes
  <2> HIDE DEF r, m, R, y, ret, D
  <2>2. /\ DOMAIN Entries(Q) = PartIds(Q) /\ DOMAIN Allocations(Q) = PartIds(Q) /\ IsFiniteSet(PartIds(Q))
    BY <2>1, PartsWrite
  <2>3. \A x \in PartIds(Q) :
              /\ x \notin DOMAIN schedAllocs /\ x \notin DOMAIN schedLedger /\ x[1] = "recognition" /\ x[2] = s
              /\ \E p \in P : /\ x = RecognitionId(s, schedules[s], p)
                              /\ Allocations(Q)[x].date = p.date /\ Allocations(Q)[x].from = p.from
                              /\ Entries(Q)[x].date = p.date
              /\ EntryOK(Entries(Q)[x])
    BY <2>1, PartsWrite
  <2>4. QED
    BY <2>2, <2>3
<1>9. y \notin DOMAIN schedAllocs /\ y \notin DOMAIN schedLedger
  BY <1>4, ChangeIdIsFresh
<1>10. DOMAIN rel \subseteq {y} /\ \A x \in DOMAIN rel : EntryOK(rel[x])
  <2>1. CASE rel = Release(s, when, given, back)
    <3>1. ReleaseOK(s, when, given, back, rel)
      BY <2>1, <1>4, ReleaseIs
    <3>2. QED
      BY <3>1 DEF ReleaseOK
  <2>2. CASE DOMAIN rel = {}
    BY <2>2
  <2>3. QED
    BY <2>1, <2>2, <1>2 DEF Hands
<1> HIDE DEF R, y, ret, Q
<1>11. /\ DOMAIN e = PartIds(Q) \union DOMAIN rel /\ DOMAIN a = PartIds(Q) \union {y}
       /\ DOMAIN e \cap DOMAIN schedLedger = {} /\ DOMAIN a \cap DOMAIN schedAllocs = {}
       /\ \A x \in DOMAIN e : EntryOK(e[x])
  BY <1>2, <1>7, <1>8, <1>9, <1>10 DEF Wrote
<1>12. IsFiniteSet(DOMAIN e)
  <2>1. IsFiniteSet({y})
    BY FS_Singleton
  <2>2. IsFiniteSet(DOMAIN rel)
    BY <2>1, <1>10, FS_Subset
  <2>3. IsFiniteSet(PartIds(Q) \union DOMAIN rel)
    BY <2>2, <1>8, FS_Union
  <2>4. QED
    BY ONLY <2>3, <1>11
<1>13. when > d
  <2>1. when \in D
    OBVIOUS
  <2> HIDE DEF D
  <2>2. QED
    BY <2>1, <1>3, OpenIsLater
<1>14. \A x \in DOMAIN e : e[x].date > d
  <2> TAKE x \in DOMAIN e
  <2>1. e[x].date \in D /\ e[x].date \in Days
    BY <1>11 DEF EntryOK
  <2> HIDE DEF D
  <2>2. QED
    BY <2>1, <1>3, OpenIsLater
<1>15. \A x \in DOMAIN a : a[x].date \in Int /\ a[x].date > d
  <2> TAKE x \in DOMAIN a
  <2>1. CASE x \in PartIds(Q)
    <3>1. a[x] = Allocations(Q)[x] /\ e[x] = Entries(Q)[x] /\ x \in DOMAIN e
      BY <2>1, <1>2, <1>8, <1>11 DEF Wrote
    <3>2. a[x].date = e[x].date
      BY <3>1, <2>1, <1>8
    <3>3. e[x].date \in Int
      BY <3>1, <1>11, DaysFinite DEF EntryOK
    <3>4. QED
      BY <3>1, <3>2, <3>3, <1>14
  <2>2. CASE x \notin PartIds(Q)
    <3>1. x = y /\ a[x] = ret[x]
      BY <2>2, <1>2, <1>7, <1>8, <1>11 DEF Wrote
    <3>2. QED
      BY <3>1, <1>7, <1>13, DaysFinite
  <2>3. QED
    BY <2>1, <2>2
<1>16. SameOrigin(r, m, d)
  <2>1. m = schedules'[s] /\ \A k \in DOMAIN m.history : k > 1 => m.history[k].date >= m.history[k - 1].date
    BY <1>6 DEF ChangesInOrder
  <2>2. /\ RecordOK(q) /\ q.history = r.history /\ q.kind = r.kind
        /\ q.originDate = r.originDate /\ q.effectiveFrom = r.effectiveFrom
    BY <1>2 DEF Follows
  <2>3. m = Noted(r, when, action, q)
    OBVIOUS
  <2> HIDE DEF r, m
  <2>4. QED
    BY <2>1, <2>2, <2>3, <1>4, <1>13, NoteStays
<1> HIDE DEF m, D
<1>17. /\ DOMAIN R \subseteq Schedules
       /\ \A x \in DOMAIN R \cap DOMAIN schedules : SameOrigin(schedules[x], R[x], d)
       /\ \A x \in DOMAIN R \ DOMAIN schedules : StartsOn(R[x]) > d
  BY <1>4, <1>6, <1>16
<1> HIDE DEF r
<1>18. QED
  BY <1>4, <1>5, <1>11, <1>12, <1>14, <1>15, <1>17, FiguresStay

\* A batch of recognitions leaves the figures of a closed past.
LEMMA BatchStays ==
  ASSUME SchedInv, NEW t, PostDue(t), NEW d \in Days, ClosedPast(d)
  PROVE  Figures(d)' = Figures(d)
<1> DEFINE S == {s \in Active : Due(s, t) # {}}
           D == [s \in S |-> Due(s, t)]
           Q == Batch(S, D)
           n == [s \in S |-> Sum(Due(s, t))]
           R == [s \in S |-> AfterDue(schedules[s], n[s])]
           e == Entries(Q)
           a == Allocations(Q)
           O == {q.part.date : q \in Q}
<1>0. WellFormed /\ RecordsOK /\ \A s \in DOMAIN schedules : RecordOK(schedules[s])
  BY InvBySchedule DEF WellFormed, RecordsOK
<1>1. Q = UNION {PartsOf(s, Due(s, t)) : s \in S}
  <2>1. {PartsOf(s, Due(s, t)) : s \in S} = {PartsOf(s, D[s]) : s \in S}
    OBVIOUS
  <2>2. QED
    BY <2>1 DEF Batch
<1>2. schedules' = Saved(R) /\ schedLedger' = Posted(e) /\ schedAllocs' = Allocated(a) /\ OpenDates(O)
  BY <1>1 DEF PostDue
<1>3. Wrote(schedules', R, schedules) /\ Wrote(schedLedger', e, schedLedger) /\ Wrote(schedAllocs', a, schedAllocs)
  BY <1>2, OverWrites DEF Saved, Posted, Allocated
<1>4. S \subseteq Active /\ S \subseteq DOMAIN schedules /\ DOMAIN R = S /\ IsFiniteSet(S) /\ S \subseteq Schedules
  <2>1. S \subseteq Active /\ S \subseteq DOMAIN schedules
    BY DEF Active
  <2>2. QED
    BY <2>1, <1>0, SchedulesFinite, FS_Subset DEF RecordsOK
<1>5. \A s \in S : Recognizable(s, D[s])
  <2> TAKE s \in S
  <2>1. D[s] \subseteq Unposted(s, schedules[s])
    BY DEF Due
  <2>2. s \in Active
    BY <1>4
  <2>3. D[s] = Due(s, t)
    OBVIOUS
  <2> HIDE DEF S, D
  <2>4. QED
    BY <2>1, <2>2, <2>3, DueRecognizable
<1>6. \A s \in S : SameOrigin(schedules[s], R[s], d)
  <2> TAKE s \in S
  <2> DEFINE r == schedules[s]
             m == R[s]
  <2>1. /\ m.kind = r.kind /\ m.base = r.base /\ m.initial = r.initial /\ m.history = r.history
        /\ m.originDate = r.originDate /\ m.effectiveFrom = r.effectiveFrom
    BY <1>0, <1>4 DEF AfterDue, RecordOK, Fields
  <2> HIDE DEF r, m
  <2>2. Later(m, 0) = Later(r, 0)
    BY <2>1 DEF Later
  <2>3. \A K : Earliest(m, K) = Earliest(r, K)
    BY <2>1 DEF Earliest
  <2>4. FirstRecord(m).base = FirstRecord(r).base /\ FirstRecord(m).initial = FirstRecord(r).initial
    BY <2>1, <2>2, <2>3 DEF FirstRecord, AtHistory
  <2>5. (HandedBy(m, d) <=> HandedBy(r, d)) /\ StartsOn(m) = StartsOn(r)
    BY <2>1 DEF HandedBy, StartsOn
  <2>6. SameOrigin(r, m, d)
    BY <2>1, <2>4, <2>5 DEF SameOrigin
  <2>7. QED
    BY <2>6 DEF r, m
<1> HIDE DEF S, D, n, R
<1>7. /\ DOMAIN e = PartIds(Q) /\ DOMAIN a = PartIds(Q) /\ IsFiniteSet(PartIds(Q))
      /\ \A x \in PartIds(Q) : \E q \in Q : e[x] = EntryOf(q) /\ a[x] = AllocationOf(q)
  <2> HIDE DEF Q
  <2>1. Q = Batch(S, D)
    BY DEF Q
  <2>2. DOMAIN e = PartIds(Q) /\ DOMAIN a = PartIds(Q) /\ IsFiniteSet(PartIds(Q))
    BY <2>1, <1>4, <1>5, BatchIs
  <2>3. ASSUME NEW x \in PartIds(Q) PROVE \E q \in Q : e[x] = EntryOf(q) /\ a[x] = AllocationOf(q)
    <3>1. PICK q \in Q : x = PartId(q)
      BY DEF PartIds
    <3>2. e[x] = EntryOf(q) /\ a[x] = AllocationOf(q)
      BY <2>1, <3>1, <1>4, <1>5, BatchIs
    <3>3. QED
      BY <3>2
  <2>4. QED
    BY <2>2, <2>3
<1>8. \A x \in PartIds(Q) :
        /\ x \notin DOMAIN schedAllocs /\ x \notin DOMAIN schedLedger /\ EntryOK(e[x])
  BY <1>4, <1>5, BatchWrites
<1>9. \A x \in PartIds(Q) : e[x].date > d /\ a[x].date > d /\ a[x].date \in Int
  <2> TAKE x \in PartIds(Q)
  <2>1. PICK q \in Q : e[x] = EntryOf(q) /\ a[x] = AllocationOf(q)
    BY <1>7
  <2>2. e[x].date = q.part.date /\ a[x].date = q.part.date
    BY <2>1 DEF EntryOf, AllocationOf
  <2>3. e[x].date \in O
    BY <2>2
  <2>4. e[x].date \in Days
    BY <1>8 DEF EntryOK
  <2> HIDE DEF O, e, a
  <2>5. e[x].date > d
    BY <2>3, <2>4, <1>2, OpenIsLater
  <2>6. QED
    BY <2>2, <2>4, <2>5, DaysFinite
<1> HIDE DEF Q, O, e, a
<1>10. /\ DOMAIN e \cap DOMAIN schedLedger = {} /\ DOMAIN a \cap DOMAIN schedAllocs = {} /\ IsFiniteSet(DOMAIN e)
       /\ \A x \in DOMAIN e : EntryOK(e[x]) /\ e[x].date > d
       /\ \A x \in DOMAIN a : a[x].date \in Int /\ a[x].date > d
  BY <1>7, <1>8, <1>9
<1>11. /\ DOMAIN R \subseteq Schedules
       /\ \A s \in DOMAIN R \cap DOMAIN schedules : SameOrigin(schedules[s], R[s], d)
       /\ \A s \in DOMAIN R \ DOMAIN schedules : StartsOn(R[s]) > d
  BY <1>4, <1>6
<1>12. QED
  BY <1>0, <1>3, <1>10, <1>11, FiguresStay

\* So does a schedule that begins.
LEMMA CreateStays ==
  ASSUME SchedInv, NEW mode \in {"new", "existing", "opening"}, NEW q \in ScheduleRequests(mode), Offered(mode), Create(q),
         NEW d \in Days, ClosedPast(d)
  PROVE  Figures(d)' = Figures(d)
<1> DEFINE r == Record(q)
           e == Funding(q, r)
           R == [x \in {q.id} |-> r]
           a == <<>>
           O == {r.originDate} \union {e[x].date : x \in DOMAIN e}
<1>1. /\ q.id \notin DOMAIN schedules /\ CanFund(q, r) /\ OpenDates(O)
      /\ schedules' = Saved(R) /\ schedLedger' = Posted(e) /\ schedAllocs' = schedAllocs
  BY DEF Create
<1>2. q.id \in Schedules /\ WellFormed
  BY RequestIs DEF SchedInv
<1>3. Wrote(schedules', R, schedules) /\ Wrote(schedLedger', e, schedLedger) /\ Wrote(schedAllocs', a, schedAllocs)
      /\ DOMAIN a = {}
  BY <1>1, OverWrites DEF Saved, Posted
<1>4. RecordOK(r) /\ r.effectiveFrom = 0
  <2>1. RecordOK(r)
    BY NewRecordIs
  <2>2. QED
    BY <2>1 DEF Record
<1>5. DOMAIN R = {q.id} /\ R[q.id] = r
  OBVIOUS
<1>e. r = Record(q) /\ e = Funding(q, r)
  OBVIOUS
<1> HIDE DEF r, R, a, e
<1>6. r.originDate \in O /\ \A x \in DOMAIN e : e[x].date \in O
  OBVIOUS
<1>7. FundingOK(mode, q, r, e)
  BY <1>e, FundingIs
<1>8. DOMAIN e \cap DOMAIN schedLedger = {} /\ IsFiniteSet(DOMAIN e) /\ \A x \in DOMAIN e : EntryOK(e[x])
  <2>1. \/ DOMAIN e = {}
        \/ mode = "new" /\ DOMAIN e = {Payment}
        \/ mode = "existing" /\ DOMAIN e = {Id("reclass", q.id, 0, 0)}
    BY <1>7 DEF FundingOK
  <2>2. /\ mode = "new" => Payment \notin DOMAIN schedLedger
        /\ mode = "existing" => DOMAIN schedLedger \subseteq {Payment}
    BY <1>2, EmptyBooks DEF Offered
  <2>3. Id("reclass", q.id, 0, 0) # Payment
    BY DEF Payment, Id
  <2>4. DOMAIN e \cap DOMAIN schedLedger = {}
    BY <2>1, <2>2, <2>3
  <2>5. IsFiniteSet({}) /\ IsFiniteSet({Payment}) /\ IsFiniteSet({Id("reclass", q.id, 0, 0)})
    BY FS_EmptySet, FS_Singleton
  <2>6. IsFiniteSet(DOMAIN e)
    BY <2>1, <2>5
  <2>7. QED
    BY <2>4, <2>6, <1>7 DEF FundingOK
<1> HIDE DEF O
<1>9. StartsOn(r) > d
  <2>1. r.originDate \in Days
    BY <1>4 DEF RecordOK
  <2>2. r.originDate > d
    BY <2>1, <1>1, <1>6, OpenIsLater
  <2>3. QED
    BY <2>2, <1>4 DEF StartsOn
<1>10. \A x \in DOMAIN e : e[x].date > d
  <2> TAKE x \in DOMAIN e
  <2>1. e[x].date \in Days /\ e[x].date \in O
    BY <1>6, <1>8 DEF EntryOK
  <2>2. QED
    BY <2>1, <1>1, OpenIsLater
<1>11. QED
  BY <1>1, <1>2, <1>3, <1>5, <1>8, <1>9, <1>10, FiguresStay

\* So does a replacement: it takes over on a day that is not closed.
LEMMA SupersedeStays ==
  ASSUME SchedInv, NEW s \in DOMAIN schedules, NEW when \in Days, NEW n \in Schedules,
         NEW w \in Terms, NEW plan \in CustomPlans \union {<<>>}, Supersede(s, when, n, w, plan), ChangesInOrder(s)',
         NEW d \in Days, ClosedPast(d)
  PROVE  Figures(d)' = Figures(d)
<1> DEFINE r == schedules[s]
           q == [Kept(r) EXCEPT
                   !.method = w.method, !.plan = plan, !.first = w.first, !.last = w.last,
                   !.start = w.first, !.base = r.remaining, !.remaining = r.remaining, !.recognized = 0,
                   !.initial = 0,
                   !.effectiveFrom = when, !.generation = 0, !.supersedes = {s}]
           z == [r EXCEPT !.remaining = 0, !.transferred = r.remaining, !.status = "superseded"]
           m == Noted(r, when, "supersede", z)
           R == [x \in {n, s} |-> IF x = n THEN q ELSE m]
           e == <<>>
<1>1. /\ n \notin DOMAIN schedules /\ OpenDates({when})
      /\ schedules' = Saved(R) /\ schedLedger' = schedLedger /\ schedAllocs' = schedAllocs
  BY DEF Supersede
<1>2. WellFormed /\ RecordOK(r) /\ s \in Schedules
  BY DEF SchedInv, WellFormed, RecordsOK
<1>3. /\ Wrote(schedules', R, schedules) /\ Wrote(schedLedger', e, schedLedger) /\ Wrote(schedAllocs', e, schedAllocs)
      /\ DOMAIN e = {} /\ IsFiniteSet(DOMAIN e)
  <2>1. DOMAIN e = {}
    OBVIOUS
  <2>2. IsFiniteSet(DOMAIN e)
    BY <2>1, FS_EmptySet
  <2>3. QED
    BY <2>1, <2>2, <1>1, OverWrites DEF Saved
<1>4. n # s /\ DOMAIN R = {n, s} /\ R[n] = q /\ R[s] = m /\ schedules'[s] = m
  BY <1>1, <1>3 DEF Wrote
<1>5. q.effectiveFrom = when
  BY <1>2 DEF RecordOK, Fields, Kept
<1>6. /\ DOMAIN z = Fields /\ z.kind = r.kind /\ z.method = r.method /\ z.plan = r.plan /\ z.first = r.first
      /\ z.last = r.last /\ z.start = r.start /\ z.base = r.base /\ z.initial = r.initial /\ z.reserved = r.reserved
      /\ z.originDate = r.originDate /\ z.effectiveFrom = r.effectiveFrom /\ z.supersedes = r.supersedes
      /\ z.generation = r.generation /\ z.history = r.history
      /\ z.remaining = 0 /\ z.recognized = r.recognized /\ z.status = "superseded"
  BY <1>2 DEF RecordOK, Fields
<1>m. m = Noted(r, when, "supersede", z)
  OBVIOUS
<1>r. r = schedules[s]
  OBVIOUS
<1> HIDE DEF q, z, m, R, r, e
<1>7. RecordOK(z)
  <2>1. Scheduled(z)
    BY <1>2, <1>6 DEF RecordOK, Scheduled, Service
  <2>2. HistoryOK(z)
    BY <1>2, <1>6 DEF RecordOK, HistoryOK
  <2>3. z.remaining \in Nat /\ z.remaining <= z.base /\ z.recognized \in Nat /\ z.recognized + z.remaining <= Amount
    BY <1>2, <1>6, SchedAssumption DEF RecordOK, Scheduled
  <2>4. QED
    BY <2>1, <2>2, <2>3, <1>2, <1>6 DEF RecordOK, Statuses
<1>8. when > d /\ when # 0
  <2>1. when \in {when}
    OBVIOUS
  <2>2. when > d
    BY <2>1, <1>1, OpenIsLater
  <2>3. QED
    BY <2>2, SchedAssumption DEF Days
<1>9. SameOrigin(r, m, d)
  <2>1. \A k \in DOMAIN m.history : k > 1 => m.history[k].date >= m.history[k - 1].date
    BY <1>4 DEF ChangesInOrder
  <2>2. QED
    BY <2>1, <1>2, <1>6, <1>7, <1>8, <1>m, NoteStays
<1>10. StartsOn(q) > d
  BY <1>5, <1>8 DEF StartsOn
<1>11. /\ DOMAIN R \subseteq Schedules
       /\ \A x \in DOMAIN R \cap DOMAIN schedules : SameOrigin(schedules[x], R[x], d)
       /\ \A x \in DOMAIN R \ DOMAIN schedules : StartsOn(R[x]) > d
  BY <1>1, <1>2, <1>4, <1>9, <1>10, <1>r
<1>12. QED
  BY <1>2, <1>3, <1>11, FiguresStay

\* And so does a step that writes nothing to the books.
LEMMA NothingStays ==
  ASSUME schedules' = schedules, schedLedger' = schedLedger, schedAllocs' = schedAllocs, NEW d
  PROVE  Figures(d)' = Figures(d)
<1>1. \A s : AllocatedBy(s, d)' = AllocatedBy(s, d)
  BY DEF AllocatedBy
<1>2. \A s : RemainingAsOf(s, d)' = RemainingAsOf(s, d) /\ RecognizedAsOf(s, d)' = RecognizedAsOf(s, d)
  BY <1>1 DEF RemainingAsOf, RecognizedAsOf, Handed
<1>3. \A a : Support(a, d)' = Support(a, d)
  BY <1>2 DEF Support, SupportOf
<1>4. \A a : BalanceAsOf(a, d)' = BalanceAsOf(a, d)
  BY DEF BalanceAsOf
<1>5. Figures(d)' = [a \in ScheduleAccounts |-> <<BalanceAsOf(a, d)', Support(a, d)'>>]
  BY DEF Figures, ScheduleAccounts
<1>6. QED
  BY <1>3, <1>4, <1>5 DEF Figures

\* No schedule is ever forgotten.
LEMMA SchedulesRemain ==
  ASSUME SchedNext
  PROVE  DOMAIN schedules \subseteq DOMAIN schedules'
<1>1. \A R : schedules' = Saved(R) => DOMAIN schedules \subseteq DOMAIN schedules'
  BY DEF Saved, Over
<1>2. \A q : Create(q) => DOMAIN schedules \subseteq DOMAIN schedules'
  BY <1>1 DEF Create
<1>3. \A t : PostDue(t) => DOMAIN schedules \subseteq DOMAIN schedules'
  BY <1>1 DEF PostDue
<1>4. \A s, when, action, q, e, a : Change(s, when, action, q, e, a) => DOMAIN schedules \subseteq DOMAIN schedules'
  BY <1>1 DEF Change
<1>5. \A s, when, left, back, effective :
        Cancel(s, when) \/ Refund(s, when, left, back) \/ Terminate(s, when, effective) => DOMAIN schedules \subseteq DOMAIN schedules'
  BY <1>4 DEF Cancel, Refund, Terminate
<1>6. \A s, when, n, w, p : Supersede(s, when, n, w, p) => DOMAIN schedules \subseteq DOMAIN schedules'
  BY <1>1 DEF Supersede
<1>7. \A m : Close(m) \/ Reopen(m) => DOMAIN schedules \subseteq DOMAIN schedules'
  BY DEF Close, Reopen
<1>8. QED
  BY <1>2, <1>3, <1>5, <1>6, <1>7 DEF SchedNext

\* Every step leaves the figures of a closed past.
LEMMA PastKept ==
  ASSUME SchedInv, SchedNext, (\A s \in DOMAIN schedules : ChangesInOrder(s))', NEW d \in Days, ClosedPast(d)
  PROVE  Figures(d)' = Figures(d)
<1>0. ASSUME NEW s \in DOMAIN schedules PROVE ChangesInOrder(s)'
  <2>1. DOMAIN schedules \subseteq DOMAIN schedules'
    BY SchedulesRemain
  <2>2. QED
    BY <2>1
<1>1. ASSUME NEW mode \in {"new", "existing", "opening"}, Offered(mode), NEW q \in ScheduleRequests(mode), Create(q)
      PROVE  Figures(d)' = Figures(d)
  BY <1>1, CreateStays
<1>2. ASSUME NEW t \in Dates, PostDue(t) PROVE Figures(d)' = Figures(d)
  BY <1>2, BatchStays
<1>3. ASSUME NEW s \in DOMAIN schedules, NEW e \in Dates, Cancel(s, e) PROVE Figures(d)' = Figures(d)
  BY <1>0, <1>3, CancelIs, ChangeStays, SchedAssumption
<1>4. ASSUME NEW s \in DOMAIN schedules, NEW e \in Dates,
             NEW left \in Refunds \union {schedules[s].remaining}, NEW back \in Refunds \union {schedules[s].remaining},
             Refund(s, e, left, back)
      PROVE  Figures(d)' = Figures(d)
  <2>1. schedules[s].remaining \in Nat
    BY DEF SchedInv, WellFormed, RecordsOK, RecordOK
  <2>2. left \in Nat /\ back \in Nat /\ e \in Days
    BY <2>1, SchedAssumption
  <2>3. QED
    BY <2>2, <1>0, <1>4, RefundIs, ChangeStays
<1>5. ASSUME NEW s \in DOMAIN schedules, NEW e \in Dates, NEW n \in Schedules \ DOMAIN schedules, NEW w \in Terms,
             NEW p \in CustomPlans \union {<<>>}, Supersede(s, e, n, w, p)
      PROVE  Figures(d)' = Figures(d)
  BY <1>0, <1>5, SupersedeStays, SchedAssumption
<1>6. ASSUME NEW s \in DOMAIN schedules, NEW e \in Dates, NEW f \in Dates, Terminate(s, e, f) PROVE Figures(d)' = Figures(d)
  BY <1>0, <1>6, TerminateIs, ChangeStays, SchedAssumption
<1>7. ASSUME NEW m \in MonthStarts, Close(m) \/ Reopen(m) PROVE Figures(d)' = Figures(d)
  BY <1>7, NothingStays DEF Close, Reopen
<1>8. QED
  BY <1>1, <1>2, <1>3, <1>4, <1>5, <1>6, <1>7 DEF SchedNext

\* No step but a reopening changes what the ledger or the support reconstructed by
\* accrual/reports.py says of a past whose months are closed.
THEOREM ClosedPastAlwaysKept == SchedSpec => ClosedPastKeepsItsFigures
<1> DEFINE Step == (\A s \in DOMAIN schedules : ChangesInOrder(s))' =>
                     \A d \in Days : ClosedPast(d) /\ ClosedPast(d)' => Figures(d)' = Figures(d)
<1>1. SchedInit => SchedInv
  BY InvHoldsFirst
<1>2. SchedInv /\ [SchedNext]_schedVars => SchedInv'
  BY InvKept
<1>3. SchedInv /\ [SchedNext]_schedVars => [Step]_schedVars
  BY PastKept
<1>4. QED
  BY <1>1, <1>2, <1>3, PTL DEF SchedSpec, ClosedPastKeepsItsFigures

--------------------------------------------------------------------------------
(* The trace of the balances: the second inductive invariant, which leads from    *)
(* what every schedule began with to what it holds, and to the ledger.            *)

\* The record a schedule began with, its allocations, and what it holds now.
Origin(r) == IF r.history = <<>> THEN r ELSE r.history[1].record
AllocsOf(s) == {x \in DOMAIN schedAllocs : schedAllocs[x].schedule = s}
AmountOf(X) == SumFunctionOnSet([x \in X |-> schedAllocs[x].amount], X)
Held(r) == IF r.status = "superseded" THEN r.transferred ELSE r.remaining
LastNote(r) == r.history[Len(r.history)]

\* What a schedule began with is allocated, held, or was handed over.
BaseTraced(s) ==
  LET r == schedules[s] IN
  /\ Origin(r).base \in Nat /\ Origin(r).initial \in Nat /\ Origin(r).start \in Int /\ Origin(r).start <= r.start
  /\ r.kind # "depreciation" => Held(r) \in Nat /\ Origin(r).base = AmountOf(AllocsOf(s)) + Held(r)
  /\ r.kind = "depreciation" => Origin(r).initial = 0 /\ r.supersedes = {} /\ r.status # "superseded"
\* No recognition is before the service it began with, none after a handover, a change is
\* dated as its note, and a handover is the last note.
DatesTraced(s) ==
  LET r == schedules[s] IN
  /\ \A x \in AllocsOf(s) : /\ x[1] = "recognition" => schedAllocs[x].date >= Origin(r).start
                            /\ x[1] = "change" => schedAllocs[x].date = r.history[x[3]].date
  /\ \A k \in DOMAIN r.history : r.history[k].date >= r.originDate /\ r.history[k].date >= r.effectiveFrom
  /\ \A k \in DOMAIN r.history : r.history[k].action = "supersede" <=> k = Len(r.history) /\ r.status = "superseded"
  /\ r.status = "superseded" =>
       /\ r.history # <<>>
       /\ \A x \in AllocsOf(s) : x[1] = "recognition" => schedAllocs[x].date <= LastNote(r).date
\* Every handover is to one replacement, which begins with the balance on the same day.
HandoversTraced ==
  /\ \A n \in DOMAIN schedules : schedules[n].supersedes = {} <=> schedules[n].effectiveFrom = 0
  /\ \A n \in DOMAIN schedules : schedules[n].supersedes # {} =>
       \E s \in DOMAIN schedules :
         /\ schedules[n].supersedes = {s} /\ schedules[s].status = "superseded" /\ schedules[s].kind = schedules[n].kind
         /\ schedules[n].effectiveFrom = LastNote(schedules[s]).date
         /\ Origin(schedules[n]).base = schedules[s].transferred
  /\ \A n, m \in DOMAIN schedules : schedules[n].supersedes = schedules[m].supersedes => n = m \/ schedules[n].supersedes = {}
  /\ \A s \in DOMAIN schedules : schedules[s].status = "superseded" =>
       \E n \in DOMAIN schedules : schedules[n].supersedes = {s}
\* What an allocation shows on a control account is what its entry says, on its date.
Shows(r, x, c, n) == IF r.kind = "depreciation" /\ x[1] = "change" THEN 0 ELSE Coef(r, c) * n
OnLedger(x, c) == Shows(schedules[schedAllocs[x].schedule], x, c, schedAllocs[x].amount)
EntriesTraced ==
  /\ \A x \in DOMAIN schedAllocs \cap DOMAIN schedLedger :
       schedLedger[x].date = schedAllocs[x].date /\ \A c \in Controls : schedLedger[x].lines[c] = OnLedger(x, c)
  /\ \A x \in DOMAIN schedAllocs \ DOMAIN schedLedger : \A c \in Controls : OnLedger(x, c) = 0
\* Every other schedule is funded by the payment or by a reclassification of its own.
ReclassOf(s) == Id("reclass", s, 0, 0)
Brought(r) == IF r.kind = "depreciation" THEN Amount ELSE Origin(r).base
Reclassed(s) ==
  LET r == schedules[s] IN
  /\ r.supersedes = {} /\ ~OnControl(r) /\ Brought(r) = Amount
  /\ \A c \in Controls : schedLedger[ReclassOf(s)].lines[c] = Funds(r, c)
Funded(s) ==
  LET r == schedules[s] IN
  OnControl(r) /\ r.originDate = schedLedger[Payment].date /\ Brought(r) = r.reserved
WholeFor(s) ==
  LET r == schedules[s] IN
  /\ r.supersedes = {} /\ r.reserved = Amount /\ OnControl(r)
  /\ \A c \in Controls \ {ControlOf(r)} : Paid(c) = 0
FundingTraced ==
  /\ \A s \in DOMAIN schedules : ReclassOf(s) \in DOMAIN schedLedger => Reclassed(s)
  /\ \A s \in DOMAIN schedules : schedules[s].supersedes = {} /\ ReclassOf(s) \notin DOMAIN schedLedger => Funded(s)
  /\ Payment \in DOMAIN schedLedger /\ schedLedger[Payment].date # PaidOn => \E s \in DOMAIN schedules : WholeFor(s)
\* All of it.
Traced ==
  /\ \A s \in DOMAIN schedules : BaseTraced(s) /\ DatesTraced(s)
  /\ HandoversTraced /\ EntriesTraced /\ FundingTraced

\* What a change does to the record.
LEMMA OriginKept ==
  ASSUME NEW r, RecordOK(r), NEW q, RecordOK(q), q.history = r.history, NEW when \in Days, NEW action,
         NEW m, m = Noted(r, when, action, q)
  PROVE  /\ m.history # <<>> /\ Len(m.history) = Len(r.history) + 1 /\ Len(r.history) \in Nat
         /\ DOMAIN m.history = 1..Len(r.history) + 1 /\ DOMAIN r.history = 1..Len(r.history)
         /\ \A k \in 1..Len(r.history) : m.history[k] = r.history[k]
         /\ LastNote(m) = m.history[Len(r.history) + 1]
         /\ LastNote(m).date = when /\ LastNote(m).action = action
         /\ Origin(m).base = Origin(r).base /\ Origin(m).start = Origin(r).start /\ Origin(m).initial = Origin(r).initial
         /\ \A f \in Fields \ {"history"} : m[f] = q[f]
<1> DEFINE note == [date |-> when, action |-> action, record |-> Kept(r)]
           n == Len(r.history)
<1>1. /\ Kept(r).base = r.base /\ Kept(r).start = r.start /\ Kept(r).initial = r.initial
      /\ m.history = Append(r.history, note)
  BY DEF RecordOK, Fields, Kept, Noted
<1>2. \A f \in Fields \ {"history"} : m[f] = q[f]
  BY DEF RecordOK, Noted
<1>3. HistoryOK(r) /\ NoteOK(note) /\ note.date = when /\ note.action = action /\ note.record = Kept(r)
  BY <1>1 DEF RecordOK, NoteOK, Scheduled
<1> HIDE DEF note
<1>4. /\ n \in Nat /\ Len(m.history) = n + 1
      /\ DOMAIN r.history = 1..n /\ DOMAIN m.history = 1..n + 1
      /\ \A k \in 1..n : m.history[k] = r.history[k]
      /\ m.history[n + 1] = note
  BY <1>1, <1>3, HistoryGrows
<1>5. PICK H : r.history \in Seq(H)
  BY <1>3 DEF HistoryOK
<1>6. m.history # <<>>
  BY <1>4
<1>7. CASE r.history = <<>>
  <2>1. n = 0 /\ m.history[1] = note
    BY <1>4, <1>7
  <2>2. Origin(r) = r /\ Origin(m) = Kept(r)
    BY <2>1, <1>3, <1>6, <1>7 DEF Origin
  <2>3. QED
    BY <2>2, <1>1, <1>2, <1>3, <1>4, <1>6 DEF LastNote
<1>8. CASE r.history # <<>>
  <2>1. n > 0
    BY <1>4, <1>5, <1>8
  <2>2. m.history[1] = r.history[1]
    BY <2>1, <1>4
  <2>3. Origin(m) = Origin(r)
    BY <2>2, <1>6, <1>8 DEF Origin
  <2>4. QED
    BY <2>3, <1>2, <1>3, <1>4, <1>6 DEF LastNote
<1>9. QED
  BY <1>7, <1>8

\* Changes entered in order: the dates of the history grow.
LEMMA DatesGrow ==
  ASSUME NEW s, RecordOK(schedules[s]), ChangesInOrder(s), NEW H, H = schedules[s].history,
         NEW i \in DOMAIN H, NEW j \in DOMAIN H, i <= j
  PROVE  H[i].date <= H[j].date
<1> DEFINE n == Len(H)
           B == {k \in i..n : ~(H[i].date <= H[k].date)}
<1>1. n \in Nat /\ DOMAIN H = 1..n
  <2>1. PICK V : H \in Seq(V)
    BY DEF RecordOK, HistoryOK
  <2>2. QED
    BY <2>1
<1>2. \A k \in 1..n : H[k].date \in Int
  <2>1. \A k \in 1..n : NoteOK(H[k])
    BY DEF RecordOK, HistoryOK
  <2>2. QED
    BY <2>1, DaysFinite DEF NoteOK
<1>3. \A k \in 1..n : k > 1 => H[k].date >= H[k - 1].date
  BY <1>1 DEF ChangesInOrder
<1> HIDE DEF n
<1>4. B = {}
  <2> SUFFICES ASSUME B # {} PROVE FALSE
    OBVIOUS
  <2> DEFINE k == Min(B)
  <2>1. IsFiniteSet(B) /\ B \subseteq Int
    <3>1. IsFiniteSet(i..n) /\ i..n \subseteq Int /\ B \subseteq i..n
      BY <1>1, FS_Interval
    <3>2. QED
      BY ONLY <3>1, FS_Subset
  <2>2. k \in B /\ \A y \in B : k <= y
    BY <2>1, MinIs
  <2> HIDE DEF k
  <2>3. k \in i..n /\ ~(H[i].date <= H[k].date)
    BY <2>2
  <2>4. k # i
    BY <2>3, <1>1, <1>2
  <2>5. k - 1 \in i..n /\ k \in 1..n /\ k > 1 /\ k - 1 < k
    BY <2>3, <2>4, <1>1
  <2>6. k - 1 \notin B
    BY <2>2, <2>5
  <2>7. H[i].date <= H[k - 1].date
    BY <2>5, <2>6
  <2>8. k - 1 \in 1..n /\ i \in 1..n
    BY <2>5, <1>1
  <2>9. QED
    BY <2>3, <2>5, <2>7, <2>8, <1>2, <1>3
<1>5. j \in i..n
  BY <1>1
<1>6. QED
  BY <1>4, <1>5

\* The first record is then the one the schedule began with.
LEMMA FirstIsOrigin ==
  ASSUME NEW s, RecordOK(schedules[s]), ChangesInOrder(s)
  PROVE  FirstRecord(schedules[s]) = Origin(schedules[s])
<1> DEFINE r == schedules[s]
           n == Len(r.history)
<1>1. n \in Nat /\ DOMAIN r.history = 1..n /\ (r.history = <<>> <=> n = 0)
  <2>1. PICK V : r.history \in Seq(V)
    BY DEF RecordOK, HistoryOK
  <2>2. QED
    BY <2>1
<1>2. \A k \in 1..n : r.history[k].date \in Int /\ r.history[k].date > 0
  <2>1. \A k \in 1..n : NoteOK(r.history[k])
    BY DEF RecordOK, HistoryOK
  <2>2. \A d \in Days : d \in Int /\ d > 0
    BY SchedAssumption DEF Days
  <2>3. QED
    BY <2>1, <2>2 DEF NoteOK
<1>3. Later(r, 0) = 1..n
  BY <1>1, <1>2 DEF Later
<1>4. CASE n = 0
  BY <1>1, <1>3, <1>4 DEF FirstRecord, AtHistory, Origin
<1>5. CASE n # 0
  <2>1. 1 \in 1..n /\ 1..n # {} /\ 1..n \subseteq DOMAIN r.history
    <3>1. n \in Nat /\ n # 0 /\ DOMAIN r.history = 1..n
      BY <1>1, <1>5
    <3> HIDE DEF n, r
    <3>2. 1 \in 1..n
      BY <3>1
    <3>3. QED
      BY <3>1, <3>2
  <2>2. \A j \in 1..n : Precedes(r, 1, j)
    <3> TAKE j \in 1..n
    <3>1. 1 \in DOMAIN r.history /\ j \in DOMAIN r.history /\ 1 <= j /\ j \in Int
      BY <2>1, <1>1
    <3>2. r.history[1].date <= r.history[j].date
      BY <3>1, DatesGrow
    <3>3. QED
      BY <3>1, <3>2, <2>1, <1>2 DEF Precedes
  <2>3. Earliest(r, 1..n) = 1
    <3>1. HistoryOK(r)
      BY DEF RecordOK
    <3>2. \A k \in 1..n : (\A j \in 1..n : Precedes(r, k, j)) => k = Earliest(r, 1..n)
      BY <3>1, <2>1, EarliestIs
    <3>3. QED
      BY <3>2, <2>1, <2>2
  <2>4. QED
    BY <2>1, <2>3, <1>1, <1>3 DEF FirstRecord, AtHistory, Origin
<1>6. QED
  BY <1>4, <1>5

\* A schedule that goes on: what it began with and what it replaced stay.
Named(r, q) ==
  /\ q.kind = r.kind /\ q.reserved = r.reserved /\ q.supersedes = r.supersedes
  /\ q.originDate = r.originDate /\ q.effectiveFrom = r.effectiveFrom
  /\ Origin(q).base = Origin(r).base /\ Origin(q).start = Origin(r).start /\ Origin(q).initial = Origin(r).initial
Goes(r, q) ==
  /\ Named(r, q) /\ r.start <= q.start
  /\ r.status = "superseded" \/ q.status = "superseded" => q = r

\* The allocations of a schedule grow by those a transaction writes for it.
LEMMA AllocsMove ==
  ASSUME IsFiniteSet(DOMAIN schedAllocs), \A x \in DOMAIN schedAllocs : schedAllocs[x].amount \in Nat,
         NEW a, Wrote(schedAllocs', a, schedAllocs), DOMAIN a \cap DOMAIN schedAllocs = {},
         IsFiniteSet(DOMAIN a), \A x \in DOMAIN a : a[x].amount \in Nat,
         NEW s, NEW N, N \subseteq DOMAIN a, \A x \in DOMAIN a : x \in N <=> a[x].schedule = s,
         NEW g, \A x \in N : g[x] = a[x].amount
  PROVE  /\ AllocsOf(s)' = AllocsOf(s) \union N
         /\ AmountOf(AllocsOf(s))' = AmountOf(AllocsOf(s)) + SumFunctionOnSet(g, N)
         /\ AmountOf(AllocsOf(s)) \in Int /\ SumFunctionOnSet(g, N) \in Int
<1> DEFINE A == AllocsOf(s)
           f == [x \in A |-> schedAllocs[x].amount]
           h == [x \in A \union N |-> schedAllocs'[x].amount]
<1>1. /\ A \subseteq DOMAIN schedAllocs /\ N \subseteq DOMAIN a /\ A \cap N = {}
      /\ IsFiniteSet(A) /\ IsFiniteSet(N)
  <2>1. A \subseteq DOMAIN schedAllocs /\ N \subseteq DOMAIN a
    BY DEF AllocsOf
  <2>2. QED
    BY <2>1, FS_Subset
<1>2. (\A x \in A : schedAllocs'[x] = schedAllocs[x]) /\ \A x \in N : schedAllocs'[x] = a[x]
  BY <1>1 DEF Wrote
<1>3. AllocsOf(s)' = A \union N
  BY DEF Wrote, AllocsOf
<1>4. (\A x \in A : f[x] \in Int /\ h[x] = f[x]) /\ \A x \in N : h[x] \in Int /\ h[x] = g[x]
  BY <1>1, <1>2
<1>5. AmountOf(A) = SumFunctionOnSet(f, A) /\ AmountOf(A)' = SumFunctionOnSet(h, A \union N)
  BY <1>3 DEF AmountOf
<1> HIDE DEF A, f, h
<1>6. SumFunctionOnSet(h, A \union N) = SumFunctionOnSet(h, A) + SumFunctionOnSet(h, N)
  <2>1. \A x \in A \union N : h[x] \in Int
    BY <1>4
  <2>2. QED
    BY <2>1, <1>1, SumUnion
<1>7. SumFunctionOnSet(h, A) = SumFunctionOnSet(f, A) /\ SumFunctionOnSet(f, A) \in Int
  BY <1>1, <1>4, SumSame, SumAt
<1>8. SumFunctionOnSet(h, N) = SumFunctionOnSet(g, N) /\ SumFunctionOnSet(h, N) \in Int
  BY <1>1, <1>4, SumSame, SumAt
<1>9. QED
  BY <1>3, <1>5, <1>6, <1>7, <1>8 DEF A

\* The amounts a batch allocates to a schedule are the sum of its parts.
LEMMA BatchShare ==
  ASSUME SchedInv, NEW S, IsFiniteSet(S), NEW D, \A s \in S : Recognizable(s, D[s]),
         NEW Q, Q = Batch(S, D), NEW s \in S,
         NEW N, N = {x \in PartIds(Q) : Allocations(Q)[x].schedule = s},
         NEW g, \A x \in N : g[x] = Allocations(Q)[x].amount
  PROVE  SumFunctionOnSet(g, N) = Sum(D[s])
<1> DEFINE P == D[s]
           m == [p \in P |-> PartId([schedule |-> s, part |-> p])]
           h == [p \in P |-> p.amount]
<1>1. IsFiniteSet(P) /\ \A p \in P : p.amount \in Nat
  BY DEF Recognizable, IsPart
<1>2. \A p \in P : [schedule |-> s, part |-> p] \in Q
  BY PartsAre
<1>3. \A q \in Q : q.schedule \in S /\ q.part \in D[q.schedule] /\ q = [schedule |-> q.schedule, part |-> q.part]
  BY PartsAre
<1>4. /\ \A q, w \in Q : PartId(q) = PartId(w) => q = w
      /\ \A q \in Q : PartId(q) \in PartIds(Q)
      /\ \A x \in PartIds(Q) : \E q \in Q : x = PartId(q)
      /\ \A q \in Q : Allocations(Q)[PartId(q)] = AllocationOf(q)
  BY BatchIs
<1>5. \A p \in P : m[p] \in N /\ g[m[p]] = h[p] /\ h[p] \in Int
  <2> TAKE p \in P
  <2> DEFINE q == [schedule |-> s, part |-> p]
  <2>1. m[p] = PartId(q) /\ q \in Q /\ q.schedule = s /\ q.part = p /\ h[p] = p.amount
    BY <1>2
  <2> HIDE DEF q, m, h
  <2>2. m[p] \in PartIds(Q) /\ Allocations(Q)[m[p]].schedule = s /\ Allocations(Q)[m[p]].amount = p.amount
    <3>1. Allocations(Q)[PartId(q)] = AllocationOf(q) /\ PartId(q) \in PartIds(Q)
      BY <2>1, <1>4
    <3>2. AllocationOf(q).schedule = q.schedule /\ AllocationOf(q).amount = q.part.amount
      BY DEF AllocationOf
    <3>3. QED
      BY <3>1, <3>2, <2>1
  <2>3. QED
    BY <2>1, <2>2, <1>1
<1>6. \A p, w \in P : m[p] = m[w] => p = w
  <2> SUFFICES ASSUME NEW p \in P, NEW w \in P, m[p] = m[w] PROVE p = w
    OBVIOUS
  <2>1. [schedule |-> s, part |-> p] = [schedule |-> s, part |-> w]
    BY <1>2, <1>4
  <2>2. [schedule |-> s, part |-> p].part = p /\ [schedule |-> s, part |-> w].part = w
    OBVIOUS
  <2>3. QED
    BY <2>1, <2>2
<1>7. N = {m[p] : p \in P}
  <2>1. ASSUME NEW x \in N PROVE \E p \in P : x = m[p]
    <3>1. PICK q \in Q : x = PartId(q)
      BY <1>4
    <3>2. q.schedule = s
      <4>1. Allocations(Q)[x] = AllocationOf(q) /\ Allocations(Q)[x].schedule = s
        BY <3>1, <1>4
      <4>2. AllocationOf(q).schedule = q.schedule
        BY DEF AllocationOf
      <4>3. QED
        BY <4>1, <4>2
    <3>3. q.part \in P /\ q = [schedule |-> s, part |-> q.part]
      BY <3>2, <1>3
    <3>4. m[q.part] = x
      BY <3>1, <3>3
    <3>5. QED
      BY <3>3, <3>4
  <2>2. \A p \in P : m[p] \in N
    BY <1>5
  <2> HIDE DEF m, P
  <2>3. QED
    BY <2>1, <2>2
<1>8. Sum(P) = SumFunctionOnSet(h, P)
  BY SumAll DEF Sum
<1> HIDE DEF m, h, P
<1>9. SumFunctionOnSet(g, {m[p] : p \in P}) = SumFunctionOnSet(h, P)
  BY <1>1, <1>5, <1>6, SumImage
<1>10. QED
  BY <1>7, <1>8, <1>9 DEF P

\* What a schedule began with is still what it has allocated and what it holds.
LEMMA BaseFollows ==
  ASSUME NEW s, BaseTraced(s), RecordOK(schedules'[s]), Named(schedules[s], schedules'[s]),
         schedules[s].start <= schedules'[s].start, RecordOK(schedules[s]),
         schedules'[s].kind = "depreciation" => schedules'[s].status # "superseded",
         AmountOf(AllocsOf(s)) \in Int, NEW k \in Int, AmountOf(AllocsOf(s))' = AmountOf(AllocsOf(s)) + k,
         schedules[s].kind # "depreciation" => Held(schedules'[s]) \in Nat /\ Held(schedules'[s]) = Held(schedules[s]) - k
  PROVE  BaseTraced(s)'
<1> DEFINE r == schedules[s]
           q == schedules'[s]
<1>1. /\ Origin(r).base \in Nat /\ Origin(r).initial \in Nat /\ Origin(r).start \in Int /\ Origin(r).start <= r.start
      /\ r.kind # "depreciation" => Held(r) \in Nat /\ Origin(r).base = AmountOf(AllocsOf(s)) + Held(r)
      /\ r.kind = "depreciation" => Origin(r).initial = 0 /\ r.supersedes = {} /\ r.status # "superseded"
  BY DEF BaseTraced
<1>2. r.start \in Int /\ q.start \in Int
  BY DaysFinite DEF RecordOK, Scheduled, Service
<1>3. /\ q.kind = r.kind /\ q.supersedes = r.supersedes
      /\ Origin(q).base = Origin(r).base /\ Origin(q).start = Origin(r).start /\ Origin(q).initial = Origin(r).initial
  BY DEF Named
<1>4. Origin(q).start <= q.start
  BY <1>1, <1>2, <1>3
<1>5. q.kind # "depreciation" => Held(q) \in Nat /\ Origin(q).base = AmountOf(AllocsOf(s))' + Held(q)
  <2> SUFFICES ASSUME q.kind # "depreciation" PROVE Held(q) \in Nat /\ Origin(q).base = AmountOf(AllocsOf(s))' + Held(q)
    OBVIOUS
  <2>1. Held(q) \in Nat /\ Held(q) = Held(r) - k /\ Held(r) \in Nat /\ Origin(r).base = AmountOf(AllocsOf(s)) + Held(r)
    BY <1>1, <1>3
  <2> DEFINE A == AmountOf(AllocsOf(s))
  <2>2. A \in Int /\ AmountOf(AllocsOf(s))' = A + k
    OBVIOUS
  <2> HIDE DEF A, q, r
  <2>3. A + k + (Held(r) - k) = A + Held(r)
    BY <2>1, <2>2
  <2>4. QED
    BY <2>1, <2>2, <2>3, <1>3 DEF A
<1>6. /\ Origin(q).base \in Nat /\ Origin(q).initial \in Nat /\ Origin(q).start \in Int
      /\ q.kind = "depreciation" => Origin(q).initial = 0 /\ q.supersedes = {} /\ q.status # "superseded"
  BY <1>1, <1>3
<1>7. QED
  BY <1>4, <1>5, <1>6 DEF BaseTraced

\* The dates of what is new follow from the record, those of what there was stay.
LEMMA DatesFollow ==
  ASSUME NEW s, DatesTraced(s), BaseTraced(s), RecordOK(schedules[s]), RecordOK(schedules'[s]), Named(schedules[s], schedules'[s]),
         schedules[s].status # "superseded", schedules'[s].status # "superseded",
         NEW H, H = schedules[s].history, NEW K, K = schedules'[s].history,
         DOMAIN H \subseteq DOMAIN K, \A k \in DOMAIN H : K[k] = H[k],
         \A k \in DOMAIN K \ DOMAIN H : /\ K[k].action # "supersede"
                                        /\ K[k].date >= schedules[s].originDate /\ K[k].date >= schedules[s].effectiveFrom,
         \A x \in AllocsOf(s) : schedAllocs'[x] = schedAllocs[x] /\ (x[1] = "change" => x[3] \in DOMAIN H),
         \A x \in AllocsOf(s)' \ AllocsOf(s) :
           \/ x[1] = "recognition" /\ schedAllocs'[x].date \in Int /\ schedAllocs'[x].date >= schedules[s].start
           \/ x[1] = "change" /\ x[3] \in DOMAIN K /\ schedAllocs'[x].date = K[x[3]].date
  PROVE  DatesTraced(s)'
<1> DEFINE r == schedules[s]
           q == schedules'[s]
<1>1. /\ q.originDate = r.originDate /\ q.effectiveFrom = r.effectiveFrom /\ Origin(q).start = Origin(r).start
  BY DEF Named
<1>2. /\ \A x \in AllocsOf(s) : x[1] = "recognition" => schedAllocs[x].date >= Origin(r).start
      /\ \A x \in AllocsOf(s) : x[1] = "change" => schedAllocs[x].date = H[x[3]].date
      /\ \A k \in DOMAIN H : H[k].date >= r.originDate /\ H[k].date >= r.effectiveFrom
      /\ \A k \in DOMAIN H : H[k].action # "supersede"
  BY DEF DatesTraced
<1>3. r.start \in Int /\ Origin(r).start \in Int /\ Origin(r).start <= r.start
  BY DaysFinite DEF BaseTraced, RecordOK, Scheduled, Service
<1>4. ASSUME NEW x \in AllocsOf(s)'
      PROVE  /\ x[1] = "recognition" => schedAllocs'[x].date >= Origin(q).start
             /\ x[1] = "change" => schedAllocs'[x].date = K[x[3]].date
  <2>1. CASE x \in AllocsOf(s)
    <3>1. schedAllocs'[x] = schedAllocs[x] /\ (x[1] = "change" => K[x[3]] = H[x[3]])
      BY <2>1
    <3>2. /\ x[1] = "recognition" => schedAllocs[x].date >= Origin(r).start
          /\ x[1] = "change" => schedAllocs[x].date = H[x[3]].date
      BY <2>1, <1>2
    <3> HIDE DEF r, q
    <3>3. QED
      BY <3>1, <3>2, <1>1
  <2>2. CASE x \notin AllocsOf(s)
    <3>1. \/ x[1] = "recognition" /\ schedAllocs'[x].date \in Int /\ schedAllocs'[x].date >= r.start
          \/ x[1] = "change" /\ x[3] \in DOMAIN K /\ schedAllocs'[x].date = K[x[3]].date
      BY <2>2
    <3> HIDE DEF r, q
    <3>2. QED
      BY <3>1, <1>1, <1>3
  <2>3. QED
    BY <2>1, <2>2
<1>5. ASSUME NEW k \in DOMAIN K
      PROVE  K[k].date >= q.originDate /\ K[k].date >= q.effectiveFrom /\ K[k].action # "supersede"
  BY <1>1, <1>2
<1>6. QED
  BY <1>4, <1>5 DEF DatesTraced

\* A schedule that a transaction leaves alone.
LEMMA OthersTraced ==
  ASSUME NEW s \in DOMAIN schedules, BaseTraced(s), DatesTraced(s), schedules'[s] = schedules[s],
         NEW a, Wrote(schedAllocs', a, schedAllocs), DOMAIN a \cap DOMAIN schedAllocs = {},
         \A x \in DOMAIN a : a[x].schedule # s
  PROVE  BaseTraced(s)' /\ DatesTraced(s)'
<1>1. AllocsOf(s)' = AllocsOf(s)
  BY DEF AllocsOf, Wrote
<1>2. \A x \in AllocsOf(s) : schedAllocs'[x] = schedAllocs[x]
  BY DEF AllocsOf, Wrote
<1>3. AmountOf(AllocsOf(s))' = AmountOf(AllocsOf(s))
  <2>1. [x \in AllocsOf(s) |-> schedAllocs[x].amount]' = [x \in AllocsOf(s) |-> schedAllocs[x].amount]
    BY <1>1, <1>2
  <2>2. QED
    BY <2>1, <1>1 DEF AmountOf
<1>4. BaseTraced(s)'
  BY <1>3 DEF BaseTraced
<1>5. DatesTraced(s)'
  BY <1>1, <1>2 DEF DatesTraced
<1>6. QED
  BY <1>4, <1>5

\* The handovers stay while no schedule is replaced.
LEMMA HandoversStay ==
  ASSUME HandoversTraced, DOMAIN schedules' = DOMAIN schedules, \A s \in DOMAIN schedules : Goes(schedules[s], schedules'[s])
  PROVE  HandoversTraced'
<1>1. \A s \in DOMAIN schedules :
        /\ schedules'[s].kind = schedules[s].kind /\ schedules'[s].supersedes = schedules[s].supersedes
        /\ schedules'[s].effectiveFrom = schedules[s].effectiveFrom
        /\ Origin(schedules'[s]).base = Origin(schedules[s]).base
        /\ schedules'[s].status = "superseded" <=> schedules[s].status = "superseded"
        /\ schedules[s].status = "superseded" => schedules'[s] = schedules[s]
  BY DEF Goes, Named
<1>2. (\A n \in DOMAIN schedules : schedules[n].supersedes = {} <=> schedules[n].effectiveFrom = 0)'
  BY <1>1 DEF HandoversTraced
<1>3. (\A n \in DOMAIN schedules : schedules[n].supersedes # {} =>
       \E s \in DOMAIN schedules :
         /\ schedules[n].supersedes = {s} /\ schedules[s].status = "superseded" /\ schedules[s].kind = schedules[n].kind
         /\ schedules[n].effectiveFrom = LastNote(schedules[s]).date
         /\ Origin(schedules[n]).base = schedules[s].transferred)'
  <2> SUFFICES ASSUME NEW n \in DOMAIN schedules, schedules'[n].supersedes # {}
               PROVE  \E s \in DOMAIN schedules :
         /\ schedules'[n].supersedes = {s} /\ schedules'[s].status = "superseded" /\ schedules'[s].kind = schedules'[n].kind
         /\ schedules'[n].effectiveFrom = LastNote(schedules'[s]).date
         /\ Origin(schedules'[n]).base = schedules'[s].transferred
    OBVIOUS
  <2>1. PICK s \in DOMAIN schedules :
         /\ schedules[n].supersedes = {s} /\ schedules[s].status = "superseded" /\ schedules[s].kind = schedules[n].kind
         /\ schedules[n].effectiveFrom = LastNote(schedules[s]).date
         /\ Origin(schedules[n]).base = schedules[s].transferred
    BY <1>1 DEF HandoversTraced
  <2>2. schedules'[s] = schedules[s]
    BY <2>1, <1>1
  <2>3. QED
    BY <2>1, <2>2, <1>1
<1>4. (\A n, m \in DOMAIN schedules : schedules[n].supersedes = schedules[m].supersedes => n = m \/ schedules[n].supersedes = {})'
  BY <1>1 DEF HandoversTraced
<1>5. (\A s \in DOMAIN schedules : schedules[s].status = "superseded" =>
       \E n \in DOMAIN schedules : schedules[n].supersedes = {s})'
  <2> SUFFICES ASSUME NEW s \in DOMAIN schedules, schedules'[s].status = "superseded"
               PROVE  \E n \in DOMAIN schedules : schedules'[n].supersedes = {s}
    OBVIOUS
  <2>1. PICK n \in DOMAIN schedules : schedules[n].supersedes = {s}
    BY <1>1 DEF HandoversTraced
  <2>2. QED
    BY <2>1, <1>1
<1>6. QED
  BY <1>2, <1>3, <1>4, <1>5 DEF HandoversTraced

\* The entries of allocations stay, and so do those a transaction writes with them.
LEMMA EntriesGrow ==
  ASSUME EntriesTraced, \A x \in DOMAIN schedAllocs : schedAllocs[x].schedule \in DOMAIN schedules,
         \A s \in DOMAIN schedules : schedules'[s].kind = schedules[s].kind,
         NEW a, Wrote(schedAllocs', a, schedAllocs), NEW e, Wrote(schedLedger', e, schedLedger),
         (DOMAIN a \union DOMAIN e) \cap (DOMAIN schedAllocs \union DOMAIN schedLedger) = {},
         \A x \in DOMAIN a \cap DOMAIN e :
           e[x].date = a[x].date /\ \A c \in Controls : e[x].lines[c] = Shows(schedules'[a[x].schedule], x, c, a[x].amount),
         \A x \in DOMAIN a \ DOMAIN e : \A c \in Controls : Shows(schedules'[a[x].schedule], x, c, a[x].amount) = 0
  PROVE  EntriesTraced'
<1>1. /\ DOMAIN schedAllocs' = DOMAIN a \union DOMAIN schedAllocs
      /\ \A x \in DOMAIN a : schedAllocs'[x] = a[x]
      /\ \A x \in DOMAIN schedAllocs : schedAllocs'[x] = schedAllocs[x]
      /\ DOMAIN schedLedger' = DOMAIN e \union DOMAIN schedLedger
      /\ \A x \in DOMAIN e : schedLedger'[x] = e[x]
      /\ \A x \in DOMAIN schedLedger : schedLedger'[x] = schedLedger[x]
  BY DEF Wrote
<1>2. \A s \in DOMAIN schedules : \A x, c, n : Shows(schedules'[s], x, c, n) = Shows(schedules[s], x, c, n)
  BY DEF Shows, Coef, CreditAccount, ControlOf, NormalSign
<1>3. \A x \in DOMAIN schedAllocs : \A c : OnLedger(x, c)' = OnLedger(x, c)
  BY <1>1, <1>2 DEF OnLedger
<1>4. \A x \in DOMAIN a : \A c : OnLedger(x, c)' = Shows(schedules'[a[x].schedule], x, c, a[x].amount)
  BY <1>1 DEF OnLedger, Shows, Coef, CreditAccount, ControlOf, NormalSign
<1>5. ASSUME NEW x \in DOMAIN schedAllocs', NEW c \in Controls
      PROVE  /\ x \in DOMAIN schedLedger' => schedLedger'[x].date = schedAllocs'[x].date /\ schedLedger'[x].lines[c] = OnLedger(x, c)'
             /\ x \notin DOMAIN schedLedger' => OnLedger(x, c)' = 0
  <2>1. CASE x \in DOMAIN schedAllocs
    <3>1. x \notin DOMAIN e /\ (x \in DOMAIN schedLedger' <=> x \in DOMAIN schedLedger)
      BY <2>1, <1>1
    <3>2. /\ x \in DOMAIN schedLedger => schedLedger[x].date = schedAllocs[x].date /\ schedLedger[x].lines[c] = OnLedger(x, c)
          /\ x \notin DOMAIN schedLedger => OnLedger(x, c) = 0
      BY <2>1 DEF EntriesTraced
    <3>3. QED
      BY <2>1, <3>1, <3>2, <1>1, <1>3
  <2>2. CASE x \in DOMAIN a
    <3>1. x \in DOMAIN schedLedger' <=> x \in DOMAIN e
      BY <2>2, <1>1
    <3>2. QED
      BY <2>2, <3>1, <1>1, <1>4
  <2>3. QED
    BY <2>1, <2>2, <1>1
<1>6. \A x \in DOMAIN schedAllocs' \cap DOMAIN schedLedger' : schedLedger'[x].date = schedAllocs'[x].date
  <2>1. "Prepaid" \in Controls
    BY DEF Controls
  <2>2. QED
    BY <2>1, <1>5
<1>7. QED
  BY <1>5, <1>6 DEF EntriesTraced

\* The payment and the reclassifications stay.
LEMMA FundingStays ==
  ASSUME FundingTraced, Payment \in DOMAIN schedLedger, NEW e, Wrote(schedLedger', e, schedLedger),
         DOMAIN e \cap DOMAIN schedLedger = {}, \A s : ReclassOf(s) \notin DOMAIN e,
         DOMAIN schedules \subseteq DOMAIN schedules', \A s \in DOMAIN schedules : Named(schedules[s], schedules'[s]),
         \A s \in DOMAIN schedules' \ DOMAIN schedules : schedules'[s].supersedes # {} /\ ReclassOf(s) \notin DOMAIN schedLedger
  PROVE  FundingTraced'
<1>1. /\ Payment \in DOMAIN schedLedger' /\ \A x \in DOMAIN schedLedger : schedLedger'[x] = schedLedger[x]
      /\ \A s : ReclassOf(s) \in DOMAIN schedLedger' <=> ReclassOf(s) \in DOMAIN schedLedger
  BY DEF Wrote
<1>2. \A b : Paid(b)' = Paid(b)
  BY <1>1 DEF Paid, Payment, Id
<1>3. \A s \in DOMAIN schedules :
        /\ schedules'[s].kind = schedules[s].kind /\ schedules'[s].supersedes = schedules[s].supersedes
        /\ schedules'[s].reserved = schedules[s].reserved /\ schedules'[s].originDate = schedules[s].originDate
        /\ Origin(schedules'[s]).base = Origin(schedules[s]).base
  BY DEF Named
<1>4. \A s \in DOMAIN schedules :
        /\ ControlOf(schedules'[s]) = ControlOf(schedules[s]) /\ NormalSign(schedules'[s]) = NormalSign(schedules[s])
        /\ Brought(schedules'[s]) = Brought(schedules[s]) /\ \A c : Funds(schedules'[s], c) = Funds(schedules[s], c)
        /\ OnControl(schedules[s])' <=> OnControl(schedules[s])
  BY <1>2, <1>3 DEF ControlOf, NormalSign, Brought, Funds, OnControl
<1>5. Payment' = Payment /\ \A s : ReclassOf(s)' = ReclassOf(s)
  BY DEF Payment, ReclassOf, Id
<1>6. ASSUME NEW s \in DOMAIN schedules', ReclassOf(s) \in DOMAIN schedLedger' PROVE Reclassed(s)'
  <2>1. s \in DOMAIN schedules /\ ReclassOf(s) \in DOMAIN schedLedger
    BY <1>1, <1>6
  <2>2. Reclassed(s)
    BY <2>1 DEF FundingTraced
  <2>3. QED
    BY <2>1, <2>2, <1>1, <1>3, <1>4, <1>5 DEF Reclassed
<1>7. ASSUME NEW s \in DOMAIN schedules', schedules'[s].supersedes = {}, ReclassOf(s) \notin DOMAIN schedLedger' PROVE Funded(s)'
  <2>1. s \in DOMAIN schedules /\ ReclassOf(s) \notin DOMAIN schedLedger /\ schedules[s].supersedes = {}
    BY <1>1, <1>3, <1>7
  <2>2. Funded(s)
    BY <2>1 DEF FundingTraced
  <2>3. QED
    BY <2>1, <2>2, <1>1, <1>3, <1>4, <1>5 DEF Funded
<1>8. (Payment \in DOMAIN schedLedger /\ schedLedger[Payment].date # PaidOn => \E s \in DOMAIN schedules : WholeFor(s))'
  <2> SUFFICES ASSUME schedLedger'[Payment].date # PaidOn PROVE \E s \in DOMAIN schedules' : WholeFor(s)'
    BY <1>5
  <2>1. PICK s \in DOMAIN schedules : WholeFor(s)
    BY <1>1 DEF FundingTraced
  <2>2. WholeFor(s)'
    BY <2>1, <1>2, <1>3, <1>4 DEF WholeFor
  <2>3. QED
    BY <2>2
<1>9. QED
  BY <1>5, <1>6, <1>7, <1>8 DEF FundingTraced

\* What an allocation of a schedule is.
LEMMA AllocsAre ==
  ASSUME WellFormed, NEW s, NEW x \in AllocsOf(s)
  PROVE  /\ s \in DOMAIN schedules /\ x \in DOMAIN schedAllocs /\ schedAllocs[x].schedule = s /\ x[2] = s
         /\ x[1] \in {"recognition", "change"} /\ schedAllocs[x].amount \in Nat /\ schedAllocs[x].date \in Days
         /\ x[1] = "recognition" => x \in Recognitions(s)
         /\ x[1] = "change" => x[3] \in DOMAIN schedules[s].history
<1>1. x \in DOMAIN schedAllocs /\ schedAllocs[x].schedule = s
  BY DEF AllocsOf
<1>2. AllocOK(x, schedAllocs[x], schedules)
  BY <1>1 DEF WellFormed, AllocsOK
<1>3. s \in DOMAIN schedules /\ schedAllocs[x].amount \in Nat /\ schedAllocs[x].date \in Days
  BY <1>1, <1>2 DEF AllocOK
<1>4. \/ \E g : x = Id("recognition", s, g, schedAllocs[x].date)
      \/ \E n \in 1..Len(schedules[s].history) : x = Id("change", s, n, 0)
  BY <1>1, <1>2 DEF AllocOK
<1>5. DOMAIN schedules[s].history = 1..Len(schedules[s].history)
  <2>1. PICK V : schedules[s].history \in Seq(V)
    BY <1>3 DEF WellFormed, RecordsOK, RecordOK, HistoryOK
  <2>2. QED
    BY <2>1
<1>6. CASE \E g : x = Id("recognition", s, g, schedAllocs[x].date)
  <2>1. x[1] = "recognition" /\ x[2] = s
    BY <1>6 DEF Id
  <2>2. QED
    BY <2>1, <1>1, <1>3 DEF Recognitions
<1>7. CASE \E n \in 1..Len(schedules[s].history) : x = Id("change", s, n, 0)
  <2>1. x[1] = "change" /\ x[2] = s /\ x[3] \in 1..Len(schedules[s].history)
    BY <1>7 DEF Id
  <2>2. QED
    BY <2>1, <1>1, <1>3, <1>5
<1>8. QED
  BY <1>4, <1>6, <1>7

\* An allocation and an entry of a recognition fit.
PartShown(x, v, w) ==
  /\ v.amount \in Nat /\ v.date \in Days /\ v.date >= schedules[v.schedule].start /\ w.date = v.date
  /\ \A c \in Controls : w.lines[c] = Shows(schedules[v.schedule], x, c, v.amount)

\* Those a batch writes do.
LEMMA BatchShows ==
  ASSUME SchedInv, NEW S, IsFiniteSet(S), NEW D, \A s \in S : Recognizable(s, D[s]), NEW Q, Q = Batch(S, D),
         NEW x \in PartIds(Q)
  PROVE  /\ x[1] = "recognition" /\ Allocations(Q)[x].schedule \in S /\ x[2] = Allocations(Q)[x].schedule
         /\ PartShown(x, Allocations(Q)[x], Entries(Q)[x])
<1>1. PICK q \in Q : x = PartId(q)
  BY BatchIs
<1>2. Entries(Q)[x] = EntryOf(q) /\ Allocations(Q)[x] = AllocationOf(q)
  BY <1>1, BatchIs
<1>3. q.schedule \in S /\ q.part \in D[q.schedule]
  BY PartsAre
<1>4. IsPart(q.part) /\ q.schedule \in DOMAIN schedules /\ schedules[q.schedule].start <= q.part.from
  BY <1>3 DEF Recognizable
<1>5. x[1] = "recognition" /\ x[2] = q.schedule
  BY <1>1 DEF PartId, RecognitionId, Id
<1>6. /\ Allocations(Q)[x].date = q.part.date
      /\ Allocations(Q)[x].schedule = q.schedule /\ Allocations(Q)[x].amount = q.part.amount
      /\ Entries(Q)[x].date = q.part.date /\ Entries(Q)[x].lines = RecognitionLines(schedules[q.schedule], q.part.amount)
  BY <1>2 DEF EntryOf, AllocationOf
<1>7. RecordOK(schedules[q.schedule]) /\ schedules[q.schedule].kind \in Kinds
  BY <1>4 DEF SchedInv, WellFormed, RecordsOK, RecordOK
<1>8. q.part.amount \in Nat /\ q.part.date \in Days /\ q.part.date >= schedules[q.schedule].start
  <2>1. /\ q.part.amount \in Nat /\ q.part.date \in Days /\ q.part.from \in Days /\ q.part.from <= q.part.date
        /\ schedules[q.schedule].start \in Days
    BY <1>4, <1>7 DEF IsPart, RecordOK, Scheduled, Service
  <2>2. q.part.date \in Int /\ q.part.from \in Int /\ schedules[q.schedule].start \in Int
    BY <2>1, DaysFinite
  <2>3. QED
    BY ONLY <2>1, <2>2, <1>4
<1>9. \A c \in Controls : RecognitionLines(schedules[q.schedule], q.part.amount)[c] = Coef(schedules[q.schedule], c) * q.part.amount
  BY <1>7, <1>8, RecognitionLinesAre
<1>10. \A c : Shows(schedules[q.schedule], x, c, q.part.amount) = Coef(schedules[q.schedule], c) * q.part.amount
  BY <1>5 DEF Shows
<1>11. QED
  BY <1>3, <1>5, <1>6, <1>8, <1>9, <1>10 DEF PartShown

\* And those of the parts that a change recognizes.
LEMMA PartsShow ==
  ASSUME SchedInv, NEW s \in DOMAIN schedules, NEW P, P # {} => Recognizable(s, P), NEW Q, Q = PartsOf(s, P)
  PROVE  /\ \A x \in PartIds(Q) : Allocations(Q)[x].schedule = s /\ PartShown(x, Allocations(Q)[x], Entries(Q)[x])
         /\ \A g : (\A x \in PartIds(Q) : g[x] = Allocations(Q)[x].amount) => SumFunctionOnSet(g, PartIds(Q)) = Sum(P)
<1> DEFINE S == {s}
           D == [x \in S |-> P]
<1>1. CASE P = {}
  <2>1. PartIds(Q) = {}
    BY <1>1 DEF PartIds, PartsOf
  <2>2. Sum(P) = 0
    BY <1>1, NoParts
  <2>3. QED
    BY <2>1, <2>2, SumEmpty
<1>2. CASE P # {}
  <2>1. Q = Batch(S, D)
    BY DEF Batch
  <2>2. IsFiniteSet(S) /\ \A x \in S : Recognizable(x, D[x])
    BY <1>2, FS_Singleton
  <2>3. D[s] = P /\ s \in S /\ \A x \in S : x = s
    OBVIOUS
  <2> HIDE DEF S, D
  <2>4. ASSUME NEW x \in PartIds(Q) PROVE Allocations(Q)[x].schedule = s /\ PartShown(x, Allocations(Q)[x], Entries(Q)[x])
    <3>1. Allocations(Q)[x].schedule \in S /\ PartShown(x, Allocations(Q)[x], Entries(Q)[x])
      BY <2>1, <2>2, BatchShows
    <3>2. QED
      BY <3>1, <2>3
  <2>5. ASSUME NEW g, \A x \in PartIds(Q) : g[x] = Allocations(Q)[x].amount PROVE SumFunctionOnSet(g, PartIds(Q)) = Sum(P)
    <3> DEFINE N == {x \in PartIds(Q) : Allocations(Q)[x].schedule = s}
    <3>1. N = PartIds(Q)
      BY <2>4
    <3>2. \A x \in N : g[x] = Allocations(Q)[x].amount
      BY <2>5
    <3>3. SumFunctionOnSet(g, N) = Sum(D[s])
      <4>1. N = {x \in PartIds(Q) : Allocations(Q)[x].schedule = s}
        OBVIOUS
      <4> HIDE DEF N
      <4>2. QED
        BY <4>1, <3>2, <2>1, <2>2, <2>3, BatchShare
    <3>4. QED
      BY <3>1, <3>3, <2>3
  <2>6. QED
    BY <2>4, <2>5
<1>3. QED
  BY <1>1, <1>2

\* What a transaction allocates: new ids, for the schedules it goes on with, and each with
\* an entry that shows it, or with nothing to show.
Allots(R, e, a) ==
  /\ DOMAIN e \subseteq DOMAIN a /\ DOMAIN a \cap DOMAIN schedAllocs = {} /\ DOMAIN a \cap DOMAIN schedLedger = {}
  /\ \A x \in DOMAIN a : x[1] # "reclass" /\ a[x].schedule \in DOMAIN R
  /\ \A x \in DOMAIN e :
       e[x].date = a[x].date /\ \A c \in Controls : e[x].lines[c] = Shows(schedules[a[x].schedule], x, c, a[x].amount)
  /\ \A x \in DOMAIN a \ DOMAIN e : \A c \in Controls : Shows(schedules[a[x].schedule], x, c, a[x].amount) = 0
GoesOn(R) == DOMAIN R \subseteq DOMAIN schedules /\ \A s \in DOMAIN R : Goes(schedules[s], R[s])

\* A transaction that replaces no schedule and funds none.
LEMMA TransactionTraces ==
  ASSUME WellFormed, Traced, Payment \in DOMAIN schedLedger, NEW R, NEW e, NEW a,
         Wrote(schedules', R, schedules), Wrote(schedLedger', e, schedLedger), Wrote(schedAllocs', a, schedAllocs),
         GoesOn(R), Allots(R, e, a), \A s \in DOMAIN R : BaseTraced(s)' /\ DatesTraced(s)'
  PROVE  Traced'
<1>0. /\ DOMAIN R \subseteq DOMAIN schedules /\ \A s \in DOMAIN R : Goes(schedules[s], R[s])
      /\ DOMAIN e \subseteq DOMAIN a /\ DOMAIN a \cap DOMAIN schedAllocs = {} /\ DOMAIN a \cap DOMAIN schedLedger = {}
      /\ \A x \in DOMAIN a : x[1] # "reclass" /\ a[x].schedule \in DOMAIN R
      /\ \A x \in DOMAIN e :
           e[x].date = a[x].date /\ \A c \in Controls : e[x].lines[c] = Shows(schedules[a[x].schedule], x, c, a[x].amount)
      /\ \A x \in DOMAIN a \ DOMAIN e : \A c \in Controls : Shows(schedules[a[x].schedule], x, c, a[x].amount) = 0
  BY DEF Allots, GoesOn
<1>1. DOMAIN schedules' = DOMAIN schedules
  BY <1>0 DEF Wrote
<1>2. /\ \A s \in DOMAIN R : schedules'[s] = R[s]
      /\ \A s \in DOMAIN schedules \ DOMAIN R : schedules'[s] = schedules[s]
  BY <1>0 DEF Wrote
<1>3. \A s \in DOMAIN schedules : Goes(schedules[s], schedules'[s])
  <2> TAKE s \in DOMAIN schedules
  <2>1. CASE s \in DOMAIN R
    BY <2>1, <1>0, <1>2
  <2>2. CASE s \notin DOMAIN R
    <3>1. schedules'[s] = schedules[s]
      BY <2>2, <1>2
    <3>2. schedules[s].start \in Int
      BY DaysFinite DEF WellFormed, RecordsOK, RecordOK, Scheduled, Service
    <3>3. QED
      BY <3>1, <3>2 DEF Goes, Named
  <2>3. QED
    BY <2>1, <2>2
<1>4. ASSUME NEW s \in DOMAIN schedules' PROVE BaseTraced(s)' /\ DatesTraced(s)'
  <2>1. CASE s \in DOMAIN R
    BY <2>1
  <2>2. CASE s \notin DOMAIN R
    <3>1. schedules'[s] = schedules[s] /\ s \in DOMAIN schedules /\ BaseTraced(s) /\ DatesTraced(s)
      BY <2>2, <1>1, <1>2 DEF Traced
    <3>2. \A x \in DOMAIN a : a[x].schedule # s
      BY <2>2, <1>0
    <3>3. DOMAIN a \cap DOMAIN schedAllocs = {}
      BY <1>0
    <3>4. QED
      BY <3>1, <3>2, <3>3, OthersTraced
  <2>3. QED
    BY <2>1, <2>2
<1>5. HandoversTraced'
  BY <1>1, <1>3, HandoversStay DEF Traced
<1>6. EntriesTraced'
  <2>1. \A x \in DOMAIN schedAllocs : schedAllocs[x].schedule \in DOMAIN schedules
    BY DEF WellFormed, AllocsOK, AllocOK
  <2>2. \A s \in DOMAIN schedules : schedules'[s].kind = schedules[s].kind
    BY <1>3 DEF Goes, Named
  <2>3. (DOMAIN a \union DOMAIN e) \cap (DOMAIN schedAllocs \union DOMAIN schedLedger) = {}
    BY <1>0
  <2>4. \A s \in DOMAIN schedules : \A x, c, n : Shows(schedules'[s], x, c, n) = Shows(schedules[s], x, c, n)
    BY <2>2 DEF Shows, Coef, CreditAccount, ControlOf, NormalSign
  <2>5. \A x \in DOMAIN a : \A c : Shows(schedules'[a[x].schedule], x, c, a[x].amount) = Shows(schedules[a[x].schedule], x, c, a[x].amount)
    BY <2>4, <1>0
  <2>6. /\ \A x \in DOMAIN a \cap DOMAIN e :
           e[x].date = a[x].date /\ \A c \in Controls : e[x].lines[c] = Shows(schedules'[a[x].schedule], x, c, a[x].amount)
        /\ \A x \in DOMAIN a \ DOMAIN e : \A c \in Controls : Shows(schedules'[a[x].schedule], x, c, a[x].amount) = 0
    BY <2>5, <1>0
  <2>7. EntriesTraced
    BY DEF Traced
  <2>8. QED
    BY <2>1, <2>2, <2>3, <2>6, <2>7, EntriesGrow
<1>7. FundingTraced'
  <2>1. \A s : ReclassOf(s) \notin DOMAIN e
    <3>1. \A s : ReclassOf(s)[1] = "reclass"
      BY DEF ReclassOf, Id
    <3>2. QED
      BY <3>1, <1>0
  <2>2. \A s \in DOMAIN schedules : Named(schedules[s], schedules'[s])
    BY <1>3 DEF Goes
  <2>3. DOMAIN e \cap DOMAIN schedLedger = {} /\ FundingTraced
    BY <1>0 DEF Traced
  <2>4. QED
    BY <1>1, <2>1, <2>2, <2>3, FundingStays
<1>8. QED
  BY <1>4, <1>5, <1>6, <1>7 DEF Traced

\* A batch of recognitions leaves a schedule that goes on.
LEMMA AfterDueGoes ==
  ASSUME NEW r, RecordOK(r), r.status = "active", NEW n \in Nat, n <= r.remaining
  PROVE  /\ Goes(r, AfterDue(r, n)) /\ AfterDue(r, n).history = r.history /\ AfterDue(r, n).status # "superseded"
         /\ Held(AfterDue(r, n)) \in Nat /\ Held(AfterDue(r, n)) = Held(r) - n
<1> DEFINE q == AfterDue(r, n)
<1>1. \A f \in Fields \ {"recognized", "remaining", "status"} : q[f] = r[f]
  BY DEF AfterDue, RecordOK, Fields
<1>2. /\ q.kind = r.kind /\ q.reserved = r.reserved /\ q.supersedes = r.supersedes
      /\ q.originDate = r.originDate /\ q.effectiveFrom = r.effectiveFrom
      /\ q.base = r.base /\ q.start = r.start /\ q.initial = r.initial /\ q.history = r.history
  BY <1>1 DEF Fields
<1>3. q.remaining = r.remaining - n /\ q.status \in {"active", "completed"} /\ r.remaining \in Nat /\ r.start \in Int
  BY DaysFinite DEF AfterDue, RecordOK, Fields, Scheduled, Service
<1> HIDE DEF q
<1>4. Origin(q).base = Origin(r).base /\ Origin(q).start = Origin(r).start /\ Origin(q).initial = Origin(r).initial
  BY <1>2 DEF Origin
<1>5. Named(r, q)
  BY <1>2, <1>4 DEF Named
<1>6. Goes(r, q)
  BY <1>2, <1>3, <1>5 DEF Goes
<1>7. Held(q) = q.remaining /\ Held(r) = r.remaining
  BY <1>3 DEF Held
<1>8. QED
  BY <1>2, <1>3, <1>6, <1>7 DEF q

\* A batch of recognitions keeps the trace.
LEMMA PostDueTraces ==
  ASSUME SchedInv, Traced, NEW t, PostDue(t), RecordsOK'
  PROVE  Traced'
<1> DEFINE S == {s \in Active : Due(s, t) # {}}
           D == [s \in S |-> Due(s, t)]
           Q == Batch(S, D)
           n == [s \in S |-> Sum(Due(s, t))]
           R == [s \in S |-> AfterDue(schedules[s], n[s])]
           e == Entries(Q)
           a == Allocations(Q)
<1>0. WellFormed /\ RecordsOK /\ AllocsOK /\ \A s \in DOMAIN schedules : RecordOK(schedules[s])
  BY DEF SchedInv, WellFormed, RecordsOK
<1>1. Q = UNION {PartsOf(s, Due(s, t)) : s \in S}
  <2>1. {PartsOf(s, Due(s, t)) : s \in S} = {PartsOf(s, D[s]) : s \in S}
    OBVIOUS
  <2>2. QED
    BY <2>1 DEF Batch
<1>2. /\ schedules' = Saved(R) /\ schedLedger' = Posted(e) /\ schedAllocs' = Allocated(a)
      /\ S # {} /\ \A s \in S : Sum(Due(s, t)) <= schedules[s].remaining
  BY <1>1 DEF PostDue
<1>3. Wrote(schedules', R, schedules) /\ Wrote(schedLedger', e, schedLedger) /\ Wrote(schedAllocs', a, schedAllocs)
  BY <1>2, OverWrites DEF Saved, Posted, Allocated
<1>4. S \subseteq Active /\ S \subseteq DOMAIN schedules /\ DOMAIN R = S /\ IsFiniteSet(S)
  <2>1. S \subseteq Active /\ S \subseteq DOMAIN schedules
    BY DEF Active
  <2>2. QED
    BY <2>1, <1>0, SchedulesFinite, FS_Subset
<1>5. \A s \in S : Recognizable(s, D[s]) /\ D[s] = Due(s, t)
  <2> TAKE s \in S
  <2>1. D[s] \subseteq Unposted(s, schedules[s])
    BY DEF Due
  <2>2. s \in Active
    BY <1>4
  <2> HIDE DEF S, D
  <2>3. Recognizable(s, D[s])
    BY <2>1, <2>2, DueRecognizable
  <2>4. QED
    BY <2>1, <2>3 DEF S, D
<1>6. \A s \in S : n[s] \in Nat /\ n[s] <= schedules[s].remaining /\ n[s] = Sum(D[s])
  <2> TAKE s \in S
  <2>1. Sum(D[s]) \in Nat
    BY <1>5, SumParts DEF Recognizable
  <2>2. QED
    BY <2>1, <1>2, <1>5
<1>7. \A s \in S : R[s] = AfterDue(schedules[s], n[s]) /\ schedules'[s] = R[s] /\ schedules[s].status = "active"
  BY <1>3, <1>4 DEF Wrote, Active
<1> HIDE DEF S, D
<1>8. DOMAIN e = PartIds(Q) /\ DOMAIN a = PartIds(Q) /\ IsFiniteSet(PartIds(Q))
  <2> HIDE DEF Q
  <2>1. Q = Batch(S, D)
    BY DEF Q
  <2>2. QED
    BY <2>1, <1>4, <1>5, BatchIs
<1> HIDE DEF n, R
<1>9. ASSUME NEW x \in PartIds(Q)
      PROVE  /\ x \notin DOMAIN schedAllocs /\ x \notin DOMAIN schedLedger /\ x[1] = "recognition"
             /\ a[x].schedule \in S /\ PartShown(x, a[x], e[x])
  BY <1>4, <1>5, BatchWrites, BatchShows
<1>10. \A s \in S :
          /\ Goes(schedules[s], R[s]) /\ R[s].history = schedules[s].history /\ R[s].status # "superseded"
          /\ Held(R[s]) \in Nat /\ Held(R[s]) = Held(schedules[s]) - n[s]
  <2> TAKE s \in S
  <2>1. RecordOK(schedules[s])
    BY <1>0, <1>4
  <2>2. QED
    BY <2>1, <1>6, <1>7, AfterDueGoes
<1>11. ASSUME NEW s \in S PROVE BaseTraced(s)' /\ DatesTraced(s)'
  <2> DEFINE N == {x \in PartIds(Q) : a[x].schedule = s}
             g == [x \in PartIds(Q) |-> a[x].amount]
             A == AllocsOf(s)
  <2>1. /\ s \in DOMAIN schedules /\ RecordOK(schedules[s]) /\ BaseTraced(s) /\ DatesTraced(s) /\ schedules'[s] = R[s]
        /\ RecordOK(schedules'[s]) /\ Goes(schedules[s], schedules'[s])
    <3>1. s \in DOMAIN schedules /\ s \in DOMAIN schedules' /\ schedules'[s] = R[s]
      BY <1>3, <1>4, <1>7 DEF Wrote
    <3>2. QED
      BY <3>1, <1>0, <1>10 DEF Traced, RecordsOK
  <2>2. SumFunctionOnSet(g, N) = n[s]
    <3>1. N = {x \in PartIds(Q) : Allocations(Q)[x].schedule = s} /\ \A x \in N : g[x] = Allocations(Q)[x].amount
      OBVIOUS
    <3> HIDE DEF N, g
    <3>2. SumFunctionOnSet(g, N) = Sum(D[s])
      BY <3>1, <1>4, <1>5, BatchShare
    <3>3. QED
      BY <3>2, <1>6
  <2>3. /\ AllocsOf(s)' = AllocsOf(s) \union N
        /\ AmountOf(AllocsOf(s))' = AmountOf(AllocsOf(s)) + SumFunctionOnSet(g, N)
        /\ AmountOf(AllocsOf(s)) \in Int /\ SumFunctionOnSet(g, N) \in Int
    <3>1. IsFiniteSet(DOMAIN schedAllocs) /\ \A x \in DOMAIN schedAllocs : schedAllocs[x].amount \in Nat
      BY <1>0 DEF AllocsOK, AllocOK
    <3>2. DOMAIN a \cap DOMAIN schedAllocs = {} /\ IsFiniteSet(DOMAIN a) /\ \A x \in DOMAIN a : a[x].amount \in Nat
      BY <1>8, <1>9 DEF PartShown
    <3>3. N \subseteq DOMAIN a /\ (\A x \in DOMAIN a : x \in N <=> a[x].schedule = s) /\ \A x \in N : g[x] = a[x].amount
      BY <1>8
    <3>4. Wrote(schedAllocs', a, schedAllocs)
      BY <1>3
    <3> HIDE DEF N, g, a
    <3>5. QED
      BY ONLY <3>1, <3>2, <3>3, <3>4, AllocsMove
  <2>4. n[s] \in Int /\ AmountOf(AllocsOf(s))' = AmountOf(AllocsOf(s)) + n[s]
    BY <2>2, <2>3, <1>6
  <2>5. BaseTraced(s)'
    <3>1. Named(schedules[s], schedules'[s]) /\ schedules[s].start <= schedules'[s].start
      BY <2>1 DEF Goes
    <3>2. schedules'[s].status # "superseded" /\ Held(schedules'[s]) \in Nat /\ Held(schedules'[s]) = Held(schedules[s]) - n[s]
      BY <2>1, <1>10
    <3>3. QED
      BY <2>1, <2>3, <2>4, <3>1, <3>2, BaseFollows
  <2>6. DatesTraced(s)'
    <3> DEFINE H == schedules[s].history
               K == schedules'[s].history
    <3>1. H = K /\ schedules[s].status # "superseded" /\ schedules'[s].status # "superseded" /\ Named(schedules[s], schedules'[s])
      BY <2>1, <1>7, <1>10 DEF Goes
    <3>2. \A x \in AllocsOf(s) : schedAllocs'[x] = schedAllocs[x] /\ (x[1] = "change" => x[3] \in DOMAIN H)
      <4> TAKE x \in AllocsOf(s)
      <4>1. x \in DOMAIN schedAllocs /\ (x[1] = "change" => x[3] \in DOMAIN H)
        BY <1>0, AllocsAre
      <4>2. x \notin DOMAIN a
        BY <4>1, <1>8, <1>9
      <4>3. QED
        BY <4>1, <4>2, <1>3 DEF Wrote
    <3>3. \A x \in AllocsOf(s)' \ AllocsOf(s) :
             x[1] = "recognition" /\ schedAllocs'[x].date \in Int /\ schedAllocs'[x].date >= schedules[s].start
      <4> TAKE x \in AllocsOf(s)' \ AllocsOf(s)
      <4>1. x \in PartIds(Q) /\ a[x].schedule = s
        BY <2>3
      <4>2. schedAllocs'[x] = a[x]
        BY <4>1, <1>3, <1>8 DEF Wrote
      <4>3. x[1] = "recognition" /\ a[x].date \in Int /\ a[x].date >= schedules[s].start
        BY <4>1, <1>9, DaysFinite DEF PartShown
      <4>4. QED
        BY <4>2, <4>3
    <3> HIDE DEF H, K
    <3>4. H = schedules[s].history /\ K = schedules'[s].history
      BY DEF H, K
    <3>5. QED
      BY <2>1, <3>1, <3>2, <3>3, <3>4, DatesFollow
  <2>7. QED
    BY <2>5, <2>6
<1>12. Payment \in DOMAIN schedLedger
  BY <1>0, <1>2, <1>4 DEF WellFormed, LedgerOK
<1>13. Allots(R, e, a)
  BY <1>4, <1>8, <1>9 DEF PartShown, Allots
<1>14. GoesOn(R) /\ \A s \in DOMAIN R : BaseTraced(s)' /\ DatesTraced(s)'
  BY <1>4, <1>10, <1>11 DEF GoesOn
<1> HIDE DEF a, e
<1>15. QED
  BY <1>0, <1>3, <1>12, <1>13, <1>14, TransactionTraces

\* What a change of a schedule hands back and recognizes, it no longer holds.
LEMMA ChangeHolds ==
  ASSUME NEW r, RecordOK(r), NEW q, RecordOK(q), q.kind = r.kind, r.kind # "depreciation",
         r.status # "superseded", q.status # "superseded", NEW P, Sum(P) \in Nat, NEW n \in Nat, Moves(r, q, P, n)
  PROVE  Held(q) \in Nat /\ Held(q) = Held(r) - (Sum(P) + n)
<1> DEFINE c == ControlOf(r)
<1>1. c \in Controls /\ CreditAccount(r) = c /\ ControlOf(q) = c /\ NormalSign(q) = NormalSign(r) /\ NormalSign(r) \in {1, -1}
  BY DEF RecordOK, Kinds, Controls, ControlOf, CreditAccount, NormalSign
<1>2. Stored(q, c) - Stored(r, c) = Coef(r, c) * Sum(P) + OffControl(r, c, n)
  BY <1>1 DEF Moves
<1>3. Stored(q, c) = NormalSign(r) * q.remaining /\ Stored(r, c) = NormalSign(r) * r.remaining
  BY <1>1 DEF Stored
<1>4. Coef(r, c) = -NormalSign(r) /\ OffControl(r, c, n) = -(NormalSign(r) * n)
  BY <1>1 DEF Coef, OffControl
<1>5. q.remaining \in Nat /\ r.remaining \in Nat /\ Held(q) = q.remaining /\ Held(r) = r.remaining
  BY DEF RecordOK, Held
<1> DEFINE t == NormalSign(r)
           u == q.remaining
           v == r.remaining
           w == Sum(P)
<1>6. t * u - t * v = (-t) * w + (-(t * n)) /\ t \in {1, -1} /\ u \in Nat /\ v \in Nat /\ w \in Nat /\ n \in Nat
  BY <1>1, <1>2, <1>3, <1>4, <1>5
<1> HIDE DEF t, u, v, w
<1>7. u = v - (w + n)
  <2>1. CASE t = 1
    <3>1. 1 * u - 1 * v = (-1) * w + (-(1 * n))
      BY <1>6, <2>1
    <3>2. QED
      BY <3>1, <1>6
  <2>2. CASE t = -1
    <3>1. (-1) * u - (-1) * v = 1 * w + (-((-1) * n))
      BY <1>6, <2>2
    <3>2. QED
      BY <3>1, <1>6
  <2>3. QED
    BY <2>1, <2>2, <1>6
<1>8. QED
  BY <1>5, <1>7 DEF u, v, w

\* A change of one schedule keeps the trace.
LEMMA ChangeTraces ==
  ASSUME SchedInv, Traced, NEW s \in DOMAIN schedules, NEW when \in Days, IsChange(s, when), RecordsOK'
  PROVE  Traced'
<1>a. PICK given, left, back \in Nat : \E action, q, e, a, P, rel :
        Changing(s, when, action, q, e, a, P, given, left, back, rel)
  BY DEF IsChange
<1>1. PICK action, q, e, a, P, rel : Changing(s, when, action, q, e, a, P, given, left, back, rel)
  BY <1>a
<1> DEFINE r == schedules[s]
           m == Noted(r, when, action, q)
           R == [x \in {s} |-> m]
           y == ChangeId(s)
           ret == Returned(s, when, left, back)
           Q == PartsOf(s, P)
<1>2. /\ Change(s, when, action, q, e, a) /\ Follows(r, q) /\ Recognizes(s, P) /\ Moves(r, q, P, given) /\ action # "supersede"
      /\ Exactly(s, when, q, given, left, back, rel) /\ Wrote(e, Entries(Q), rel) /\ Wrote(a, Allocations(Q), ret)
  BY <1>1 DEF Changing
<1>3. schedules' = Saved(R) /\ schedLedger' = Posted(e) /\ schedAllocs' = Allocated(a)
  BY <1>2 DEF Change
<1>4. WellFormed /\ LedgerOK /\ AllocsOK /\ RecordsOK /\ RecordOK(r) /\ s \in Schedules /\ Payment \in DOMAIN schedLedger
  BY DEF SchedInv, WellFormed, RecordsOK, LedgerOK
<1>5. Wrote(schedules', R, schedules) /\ Wrote(schedLedger', e, schedLedger) /\ Wrote(schedAllocs', a, schedAllocs)
  BY <1>3, OverWrites DEF Saved, Posted, Allocated
<1>6. DOMAIN R = {s} /\ R[s] = m /\ schedules'[s] = m
  BY <1>5 DEF Wrote
<1>7. DOMAIN ret = {y} /\ ret[y].date = when /\ ret[y].schedule = s /\ ret[y].amount = left
  BY DEF Returned
<1>8. /\ DOMAIN Entries(Q) = PartIds(Q) /\ DOMAIN Allocations(Q) = PartIds(Q) /\ IsFiniteSet(PartIds(Q)) /\ Sum(P) \in Nat
      /\ \A x \in PartIds(Q) :
           /\ x \notin DOMAIN schedAllocs /\ x \notin DOMAIN schedLedger /\ x[1] = "recognition"
           /\ Allocations(Q)[x].schedule = s /\ PartShown(x, Allocations(Q)[x], Entries(Q)[x])
      /\ \A g : (\A x \in PartIds(Q) : g[x] = Allocations(Q)[x].amount) => SumFunctionOnSet(g, PartIds(Q)) = Sum(P)
  <2>1. P # {} => Recognizable(s, P)
    BY <1>2 DEF Recognizes
  <2> HIDE DEF r, m, R, y, ret
  <2>2. /\ DOMAIN Entries(Q) = PartIds(Q) /\ DOMAIN Allocations(Q) = PartIds(Q) /\ IsFiniteSet(PartIds(Q)) /\ Sum(P) \in Nat
    BY <2>1, PartsWrite
  <2>3. \A x \in PartIds(Q) : x \notin DOMAIN schedAllocs /\ x \notin DOMAIN schedLedger /\ x[1] = "recognition"
    BY <2>1, PartsWrite
  <2>4. /\ \A x \in PartIds(Q) : Allocations(Q)[x].schedule = s /\ PartShown(x, Allocations(Q)[x], Entries(Q)[x])
        /\ \A g : (\A x \in PartIds(Q) : g[x] = Allocations(Q)[x].amount) => SumFunctionOnSet(g, PartIds(Q)) = Sum(P)
    BY <2>1, PartsShow
  <2>5. QED
    BY <2>2, <2>3, <2>4
<1>9. y \notin DOMAIN schedAllocs /\ y \notin DOMAIN schedLedger /\ y[1] = "change" /\ y[3] = Len(r.history) + 1
  <2>1. y \notin DOMAIN schedAllocs /\ y \notin DOMAIN schedLedger
    BY <1>4, ChangeIdIsFresh
  <2>2. QED
    BY <2>1 DEF ChangeId, Id
<1>10. /\ DOMAIN rel \subseteq {y}
       /\ \A x \in DOMAIN rel : rel[x].date = when /\ \A c \in Controls : rel[x].lines[c] = Shows(r, x, c, left)
       /\ \A x \in {y} \ DOMAIN rel : \A c \in Controls : Shows(r, x, c, left) = 0
  <2>1. CASE r.kind = "depreciation"
    <3>1. DOMAIN rel = {}
      BY <2>1, <1>2 DEF Exactly
    <3>2. \A c : Shows(r, y, c, left) = 0
      BY <2>1, <1>9 DEF Shows
    <3>3. QED
      BY <3>1, <3>2
  <2>2. CASE r.kind # "depreciation"
    <3>1. rel = Release(s, when, left, back)
      BY <2>2, <1>2 DEF Exactly
    <3>2. ReleaseOK(s, when, left, back, rel)
      BY <3>1, <1>4, ReleaseIs
    <3>3. CreditAccount(r) = ControlOf(r) /\ NormalSign(r) \in {1, -1}
      BY <2>2 DEF CreditAccount, NormalSign
    <3>4. \A x, c : Shows(r, x, c, left) = OffControl(r, c, left)
      <4> SUFFICES ASSUME NEW x, NEW c PROVE Shows(r, x, c, left) = OffControl(r, c, left)
        OBVIOUS
      <4>1. Shows(r, x, c, left) = Coef(r, c) * left
        BY <2>2 DEF Shows
      <4>2. CASE c = ControlOf(r)
        BY <4>1, <4>2, <3>3 DEF Coef, OffControl
      <4>3. CASE c # ControlOf(r)
        BY <4>1, <4>3, <3>3 DEF Coef, OffControl
      <4>4. QED
        BY <4>2, <4>3
    <3>5. (\A x \in DOMAIN rel : rel[x].date = when) /\ \A c \in Controls : \A x \in DOMAIN rel : rel[x].lines[c] = OffControl(r, c, left)
      BY <3>2 DEF ReleaseOK
    <3>6. DOMAIN rel \subseteq {y} /\ (y \notin DOMAIN rel => left = 0)
      BY <3>2 DEF ReleaseOK
    <3>7. left = 0 => \A c : OffControl(r, c, left) = 0
      BY <3>3 DEF OffControl
    <3> HIDE DEF r, y
    <3>8. QED
      BY <3>4, <3>5, <3>6, <3>7
  <2>3. QED
    BY <2>1, <2>2
<1> HIDE DEF y, ret, Q
<1>11. /\ DOMAIN e = PartIds(Q) \union DOMAIN rel /\ DOMAIN a = PartIds(Q) \union {y} /\ y \notin PartIds(Q)
       /\ \A x \in PartIds(Q) : e[x] = Entries(Q)[x] /\ a[x] = Allocations(Q)[x]
       /\ \A x \in DOMAIN rel : e[x] = rel[x]
       /\ a[y] = ret[y]
  <2>1. y \notin PartIds(Q) /\ DOMAIN rel \subseteq {y} /\ DOMAIN ret = {y}
    BY <1>7, <1>8, <1>9, <1>10
  <2>2. /\ DOMAIN e = PartIds(Q) \union DOMAIN rel
        /\ \A x \in PartIds(Q) : e[x] = Entries(Q)[x]
        /\ \A x \in DOMAIN rel : e[x] = rel[x]
    BY <2>1, <1>2, <1>8 DEF Wrote
  <2>3. /\ DOMAIN a = PartIds(Q) \union {y} /\ a[y] = ret[y]
        /\ \A x \in PartIds(Q) : a[x] = Allocations(Q)[x]
    BY <2>1, <1>2, <1>8 DEF Wrote
  <2>4. QED
    BY <2>1, <2>2, <2>3
<1>12. /\ a[y].date = when /\ a[y].schedule = s /\ a[y].amount = left
       /\ \A x \in PartIds(Q) : x \in DOMAIN e /\ a[x].schedule = s /\ x[1] = "recognition" /\ PartShown(x, a[x], e[x])
  BY <1>7, <1>8, <1>11
<1>13. Allots(R, e, a)
  <2>1. DOMAIN e \subseteq DOMAIN a /\ DOMAIN a \cap DOMAIN schedAllocs = {} /\ DOMAIN a \cap DOMAIN schedLedger = {}
    BY <1>8, <1>9, <1>10, <1>11
  <2>2. \A x \in DOMAIN a : x[1] # "reclass" /\ a[x].schedule = s
    BY <1>9, <1>11, <1>12
  <2>3. ASSUME NEW x \in DOMAIN e
        PROVE  e[x].date = a[x].date /\ \A c \in Controls : e[x].lines[c] = Shows(r, x, c, a[x].amount)
    <3>1. CASE x \in PartIds(Q)
      BY <3>1, <1>12 DEF PartShown
    <3>2. CASE x \in DOMAIN rel
      <4>1. x = y /\ e[x] = rel[x]
        BY <3>2, <1>10, <1>11
      <4>2. QED
        BY <4>1, <3>2, <1>10, <1>12
    <3>3. QED
      BY <3>1, <3>2, <1>11
  <2>4. ASSUME NEW x \in DOMAIN a \ DOMAIN e PROVE \A c \in Controls : Shows(r, x, c, a[x].amount) = 0
    <3>1. x = y /\ x \notin DOMAIN rel
      BY <2>4, <1>11
    <3>2. QED
      BY <3>1, <1>10, <1>12
  <2>5. QED
    BY <2>1, <2>2, <2>3, <2>4, <1>6 DEF Allots
<1>14. /\ RecordOK(q) /\ q.history = r.history /\ q.kind = r.kind /\ q.reserved = r.reserved /\ q.supersedes = r.supersedes
       /\ q.originDate = r.originDate /\ q.effectiveFrom = r.effectiveFrom
       /\ r.status # "superseded" /\ q.status # "superseded" /\ r.start <= q.start
       /\ when >= r.originDate /\ when >= r.effectiveFrom /\ (r.kind # "depreciation" => given = left)
  BY <1>2 DEF Follows, Exactly
<1>15. /\ Len(r.history) \in Nat /\ DOMAIN m.history = 1..Len(r.history) + 1 /\ DOMAIN r.history = 1..Len(r.history)
       /\ \A k \in 1..Len(r.history) : m.history[k] = r.history[k]
       /\ m.history[Len(r.history) + 1].date = when /\ m.history[Len(r.history) + 1].action = action
       /\ Origin(m).base = Origin(r).base /\ Origin(m).start = Origin(r).start /\ Origin(m).initial = Origin(r).initial
       /\ \A f \in Fields \ {"history"} : m[f] = q[f]
  <2>1. m = Noted(r, when, action, q)
    OBVIOUS
  <2> HIDE DEF m, r
  <2>2. /\ Len(r.history) \in Nat /\ DOMAIN m.history = 1..Len(r.history) + 1 /\ DOMAIN r.history = 1..Len(r.history)
        /\ \A k \in 1..Len(r.history) : m.history[k] = r.history[k]
        /\ LastNote(m) = m.history[Len(r.history) + 1]
        /\ LastNote(m).date = when /\ LastNote(m).action = action
        /\ Origin(m).base = Origin(r).base /\ Origin(m).start = Origin(r).start /\ Origin(m).initial = Origin(r).initial
        /\ \A f \in Fields \ {"history"} : m[f] = q[f]
    BY <2>1, <1>4, <1>14, OriginKept
  <2>3. QED
    BY <2>2
<1> HIDE DEF m
<1>16. /\ m.kind = q.kind /\ m.reserved = q.reserved /\ m.supersedes = q.supersedes /\ m.start = q.start /\ m.status = q.status
       /\ m.originDate = q.originDate /\ m.effectiveFrom = q.effectiveFrom /\ m.remaining = q.remaining
  BY <1>15 DEF Fields
<1>17. Goes(r, m)
  BY <1>14, <1>15, <1>16 DEF Goes, Named
<1>18. RecordOK(m)
  <2>1. s \in DOMAIN schedules'
    BY <1>5, <1>6 DEF Wrote
  <2>2. QED
    BY <2>1, <1>6 DEF RecordsOK
<1> DEFINE N == DOMAIN a
           g == [x \in DOMAIN a |-> a[x].amount]
<1>19. SumFunctionOnSet(g, N) = Sum(P) + left
  <2>1. \A x \in PartIds(Q) \union {y} : g[x] \in Int
    BY <1>11, <1>12 DEF PartShown
  <2>2. g[y] = left /\ \A x \in PartIds(Q) : g[x] = Allocations(Q)[x].amount
    BY <1>11, <1>12
  <2>3. N = PartIds(Q) \union {y}
    BY <1>11
  <2> HIDE DEF g, N
  <2>4. SumFunctionOnSet(g, PartIds(Q) \union {y}) = SumFunctionOnSet(g, PartIds(Q)) + g[y]
    <3>1. IsFiniteSet(PartIds(Q)) /\ y \notin PartIds(Q)
      BY <1>8, <1>11
    <3>2. QED
      BY ONLY <3>1, <2>1, SumAdd
  <2>5. SumFunctionOnSet(g, PartIds(Q)) = Sum(P)
    BY <2>2, <1>8
  <2>6. QED
    BY <2>2, <2>3, <2>4, <2>5
<1>20. /\ AllocsOf(s)' = AllocsOf(s) \union N
       /\ AmountOf(AllocsOf(s))' = AmountOf(AllocsOf(s)) + SumFunctionOnSet(g, N)
       /\ AmountOf(AllocsOf(s)) \in Int /\ SumFunctionOnSet(g, N) \in Int
  <2>1. IsFiniteSet(DOMAIN schedAllocs) /\ \A x \in DOMAIN schedAllocs : schedAllocs[x].amount \in Nat
    BY <1>4 DEF AllocsOK, AllocOK
  <2>2. DOMAIN a \cap DOMAIN schedAllocs = {} /\ \A x \in DOMAIN a : a[x].amount \in Nat
    BY <1>8, <1>9, <1>11, <1>12 DEF PartShown
  <2>3. IsFiniteSet(DOMAIN a)
    <3>1. IsFiniteSet(PartIds(Q) \union {y})
      BY <1>8, FS_AddElement
    <3>2. QED
      BY ONLY <3>1, <1>11
  <2>4. N \subseteq DOMAIN a /\ (\A x \in DOMAIN a : x \in N <=> a[x].schedule = s) /\ \A x \in N : g[x] = a[x].amount
    BY <1>11, <1>12
  <2> HIDE DEF N, g
  <2>5. QED
    BY <1>5, <2>1, <2>2, <2>3, <2>4, AllocsMove
<1>21. BaseTraced(s)'
  <2>1. Sum(P) + left \in Int /\ AmountOf(AllocsOf(s))' = AmountOf(AllocsOf(s)) + (Sum(P) + left)
    BY <1>8, <1>19, <1>20
  <2>2. schedules[s].kind # "depreciation" => Held(m) \in Nat /\ Held(m) = Held(schedules[s]) - (Sum(P) + left)
    <3> SUFFICES ASSUME r.kind # "depreciation" PROVE Held(m) \in Nat /\ Held(m) = Held(r) - (Sum(P) + left)
      OBVIOUS
    <3>1. Held(q) \in Nat /\ Held(q) = Held(r) - (Sum(P) + left)
      <4>1. Moves(r, q, P, left)
        BY <1>2, <1>14
      <4> HIDE DEF r
      <4>2. QED
        BY <4>1, <1>4, <1>8, <1>14, ChangeHolds
    <3>2. Held(m) = Held(q)
      BY <1>14, <1>16 DEF Held
    <3>3. QED
      BY <3>1, <3>2
  <2>3. BaseTraced(s) /\ Named(schedules[s], schedules'[s]) /\ schedules[s].start <= schedules'[s].start /\ RecordOK(schedules'[s])
        /\ schedules'[s].status # "superseded" /\ schedules'[s] = m /\ RecordOK(schedules[s])
    BY <1>4, <1>6, <1>14, <1>16, <1>17, <1>18 DEF Goes, Traced
  <2> HIDE DEF g, N, r
  <2>4. QED
    BY <2>1, <2>2, <2>3, <1>20, BaseFollows
<1>22. DatesTraced(s)'
  <2> DEFINE H == schedules[s].history
             K == schedules'[s].history
             n == Len(r.history)
  <2>1. DOMAIN H \subseteq DOMAIN K /\ (\A k \in DOMAIN H : K[k] = H[k]) /\ n + 1 \in DOMAIN K /\ K[n + 1].date = when
    BY <1>6, <1>15
  <2>2. \A k \in DOMAIN K \ DOMAIN H : /\ K[k].action # "supersede"
                                       /\ K[k].date >= schedules[s].originDate /\ K[k].date >= schedules[s].effectiveFrom
    <3> TAKE k \in DOMAIN K \ DOMAIN H
    <3>1. k = n + 1
      BY <1>6, <1>15
    <3>2. K[k].action = action /\ K[k].date = when
      BY <3>1, <1>6, <1>15
    <3>3. QED
      BY <3>2, <1>2, <1>14
  <2>3. \A x \in AllocsOf(s) : schedAllocs'[x] = schedAllocs[x] /\ (x[1] = "change" => x[3] \in DOMAIN H)
    <3> TAKE x \in AllocsOf(s)
    <3>1. x \in DOMAIN schedAllocs /\ (x[1] = "change" => x[3] \in DOMAIN H)
      BY <1>4, AllocsAre
    <3>2. x \notin DOMAIN a
      BY <3>1, <1>8, <1>9, <1>11
    <3>3. QED
      BY <3>1, <3>2, <1>5 DEF Wrote
  <2>4. \A x \in AllocsOf(s)' \ AllocsOf(s) :
           \/ x[1] = "recognition" /\ schedAllocs'[x].date \in Int /\ schedAllocs'[x].date >= schedules[s].start
           \/ x[1] = "change" /\ x[3] \in DOMAIN K /\ schedAllocs'[x].date = K[x[3]].date
    <3> TAKE x \in AllocsOf(s)' \ AllocsOf(s)
    <3>1. x \in DOMAIN a
      BY <1>20
    <3>2. schedAllocs'[x] = a[x]
      BY <3>1, <1>5 DEF Wrote
    <3>3. CASE x \in PartIds(Q)
      <4>1. x[1] = "recognition" /\ a[x].date \in Int /\ a[x].date >= schedules[s].start
        BY <3>3, <1>12, DaysFinite DEF PartShown
      <4>2. QED
        BY <4>1, <3>2
    <3>4. CASE x = y
      <4>1. x[1] = "change" /\ x[3] = n + 1 /\ a[x].date = when
        BY <3>4, <1>9, <1>12
      <4>2. QED
        BY <4>1, <3>2, <2>1
    <3>5. QED
      BY <3>1, <3>3, <3>4, <1>11
  <2>5. /\ DatesTraced(s) /\ BaseTraced(s) /\ RecordOK(schedules[s]) /\ RecordOK(schedules'[s]) /\ Named(schedules[s], schedules'[s])
        /\ schedules[s].status # "superseded" /\ schedules'[s].status # "superseded"
    BY <1>4, <1>6, <1>14, <1>16, <1>17, <1>18 DEF Goes, Traced
  <2>6. H = schedules[s].history /\ K = schedules'[s].history
    OBVIOUS
  <2> HIDE DEF H, K, r, N
  <2>7. QED
    BY <2>1, <2>2, <2>3, <2>4, <2>5, <2>6, DatesFollow
<1>23. GoesOn(R) /\ \A x \in DOMAIN R : BaseTraced(x)' /\ DatesTraced(x)'
  BY <1>6, <1>17, <1>21, <1>22 DEF GoesOn
<1> HIDE DEF R
<1>24. QED
  BY <1>4, <1>5, <1>13, <1>23, TransactionTraces

\* The books hold nothing of a schedule that is not there yet.
LEMMA NothingOfNew ==
  ASSUME WellFormed, NEW n, n \notin DOMAIN schedules
  PROVE  AllocsOf(n) = {} /\ ReclassOf(n) \notin DOMAIN schedLedger
<1>1. AllocsOf(n) = {}
  BY AllocsAre
<1>2. ASSUME ReclassOf(n) \in DOMAIN schedLedger PROVE FALSE
  <2> DEFINE x == ReclassOf(n)
  <2>1. x[1] = "reclass" /\ x[2] = n /\ Payment[1] = "payment"
    BY DEF ReclassOf, Payment, Id
  <2>2. x = Payment \/ (\E s \in DOMAIN schedules : x = Id("reclass", s, 0, 0)) \/ x \in DOMAIN schedAllocs
    BY <1>2 DEF WellFormed, LedgerOK
  <2>3. x # Payment
    BY <2>1
  <2>4. ASSUME NEW s \in DOMAIN schedules, x = Id("reclass", s, 0, 0) PROVE FALSE
    <3>1. x[2] = s
      BY <2>4 DEF Id
    <3>2. QED
      BY <3>1, <2>1
  <2>5. ASSUME x \in DOMAIN schedAllocs PROVE FALSE
    <3>1. x \in AllocsOf(schedAllocs[x].schedule)
      BY <2>5 DEF AllocsOf
    <3> HIDE DEF x
    <3>2. x[1] \in {"recognition", "change"}
      BY <3>1, AllocsAre
    <3>3. QED
      BY <3>2, <2>1
  <2>6. QED
    BY <2>2, <2>3, <2>4, <2>5
<1>3. QED
  BY <1>1, <1>2

\* A new schedule begins with what it holds.
LEMMA NewTraced ==
  ASSUME NEW n, AllocsOf(n)' = {}, RecordOK(schedules'[n]), schedules'[n].history = <<>>,
         schedules'[n].status = "active", schedules'[n].remaining = schedules'[n].base,
         schedules'[n].kind = "depreciation" => schedules'[n].initial = 0 /\ schedules'[n].supersedes = {}
  PROVE  BaseTraced(n)' /\ DatesTraced(n)' /\ Origin(schedules'[n]) = schedules'[n]
<1> DEFINE q == schedules'[n]
<1>1. Origin(q) = q
  BY DEF Origin
<1>2. q.base \in Nat /\ q.initial \in Nat /\ q.start \in Int /\ Held(q) = q.base
  BY DaysFinite DEF RecordOK, Scheduled, Service, Held
<1>3. AmountOf(AllocsOf(n))' = 0
  <2>1. AmountOf(AllocsOf(n))' = SumFunctionOnSet([x \in {} |-> schedAllocs'[x].amount], {})
    BY DEF AmountOf
  <2>2. QED
    BY <2>1, SumEmpty
<1>4. BaseTraced(n)'
  BY <1>1, <1>2, <1>3 DEF BaseTraced
<1>5. DatesTraced(n)'
  BY DEF DatesTraced
<1>6. QED
  BY <1>1, <1>4, <1>5

\* A replacement keeps the trace.
LEMMA SupersedeTraces ==
  ASSUME SchedInv, Traced, NEW s \in DOMAIN schedules, NEW when \in Days, NEW n \in Schedules,
         NEW w \in Terms, NEW plan \in CustomPlans \union {<<>>}, Supersede(s, when, n, w, plan), RecordsOK'
  PROVE  Traced'
<1> DEFINE r == schedules[s]
           q == [Kept(r) EXCEPT
                   !.method = w.method, !.plan = plan, !.first = w.first, !.last = w.last,
                   !.start = w.first, !.base = r.remaining, !.remaining = r.remaining, !.recognized = 0,
                   !.initial = 0,
                   !.effectiveFrom = when, !.generation = 0, !.supersedes = {s}]
           z == [r EXCEPT !.remaining = 0, !.transferred = r.remaining, !.status = "superseded"]
           m == Noted(r, when, "supersede", z)
           R == [x \in {n, s} |-> IF x = n THEN q ELSE m]
           e == <<>>
<1>1. /\ n \notin DOMAIN schedules /\ r.status = "active" /\ r.kind # "depreciation" /\ MayChange(s, when, when)
      /\ schedules' = Saved(R) /\ schedLedger' = schedLedger /\ schedAllocs' = schedAllocs
  BY DEF Supersede
<1>2. WellFormed /\ RecordsOK /\ RecordOK(r) /\ s \in Schedules /\ Payment \in DOMAIN schedLedger
  BY DEF SchedInv, WellFormed, RecordsOK, LedgerOK
<1>3. Wrote(schedules', R, schedules) /\ Wrote(schedLedger', e, schedLedger) /\ Wrote(schedAllocs', e, schedAllocs)
      /\ DOMAIN e = {}
  BY <1>1, OverWrites DEF Saved
<1>4. n # s /\ DOMAIN R = {n, s} /\ R[n] = q /\ R[s] = m
  BY <1>1
<1>5. /\ q.kind = r.kind /\ q.status = r.status /\ q.history = <<>> /\ q.base = r.remaining /\ q.remaining = r.remaining
      /\ q.initial = 0 /\ q.effectiveFrom = when /\ q.supersedes = {s} /\ q.start = w.first /\ q.originDate = r.originDate
  BY <1>2 DEF RecordOK, Fields, Kept
<1>6. /\ DOMAIN z = Fields /\ z.kind = r.kind /\ z.method = r.method /\ z.plan = r.plan /\ z.first = r.first
      /\ z.last = r.last /\ z.start = r.start /\ z.base = r.base /\ z.initial = r.initial /\ z.reserved = r.reserved
      /\ z.originDate = r.originDate /\ z.effectiveFrom = r.effectiveFrom /\ z.supersedes = r.supersedes
      /\ z.generation = r.generation /\ z.history = r.history
      /\ z.remaining = 0 /\ z.recognized = r.recognized /\ z.status = "superseded" /\ z.transferred = r.remaining
  BY <1>2 DEF RecordOK, Fields
<1>m. m = Noted(r, when, "supersede", z)
  OBVIOUS
<1> HIDE DEF q, z, m, R, e
<1>7. RecordOK(z)
  <2> HIDE DEF r
  <2>1. Scheduled(z)
    BY <1>2, <1>6 DEF RecordOK, Scheduled, Service
  <2>2. HistoryOK(z)
    BY <1>2, <1>6 DEF RecordOK, HistoryOK
  <2>3. z.remaining \in Nat /\ z.remaining <= z.base /\ z.recognized \in Nat /\ z.recognized + z.remaining <= Amount
    BY <1>2, <1>6, SchedAssumption DEF RecordOK, Scheduled
  <2>4. QED
    BY <2>1, <2>2, <2>3, <1>2, <1>6 DEF RecordOK, Statuses
<1>8. /\ m.history # <<>> /\ Len(m.history) = Len(r.history) + 1 /\ Len(r.history) \in Nat
      /\ DOMAIN m.history = 1..Len(r.history) + 1 /\ DOMAIN r.history = 1..Len(r.history)
      /\ \A k \in 1..Len(r.history) : m.history[k] = r.history[k]
      /\ LastNote(m) = m.history[Len(r.history) + 1]
      /\ LastNote(m).date = when /\ LastNote(m).action = "supersede"
      /\ Origin(m).base = Origin(r).base /\ Origin(m).start = Origin(r).start /\ Origin(m).initial = Origin(r).initial
      /\ \A f \in Fields \ {"history"} : m[f] = z[f]
  <2> HIDE DEF r
  <2>1. QED
    BY <1>2, <1>6, <1>7, <1>m, OriginKept
<1>9. /\ m.kind = r.kind /\ m.supersedes = r.supersedes /\ m.start = r.start /\ m.status = "superseded" /\ m.reserved = r.reserved
      /\ m.originDate = r.originDate /\ m.effectiveFrom = r.effectiveFrom /\ m.transferred = r.remaining
  BY <1>6, <1>8 DEF Fields
<1>10. /\ schedules'[s] = m /\ schedules'[n] = q /\ DOMAIN schedules' = DOMAIN schedules \union {n}
       /\ \A x \in DOMAIN schedules : x # s => schedules'[x] = schedules[x]
  BY <1>1, <1>3, <1>4 DEF Wrote
<1>11. BaseTraced(s) /\ DatesTraced(s) /\ HandoversTraced /\ EntriesTraced /\ FundingTraced
       /\ \A x \in DOMAIN schedules : BaseTraced(x) /\ DatesTraced(x)
  BY DEF Traced
<1>12. \A x : AllocsOf(x)' = AllocsOf(x) /\ AmountOf(AllocsOf(x))' = AmountOf(AllocsOf(x))
  BY <1>1 DEF AllocsOf, AmountOf
<1>13. BaseTraced(s)'
  <2>1. /\ Origin(r).base \in Nat /\ Origin(r).initial \in Nat /\ Origin(r).start \in Int /\ Origin(r).start <= r.start
        /\ Held(r) \in Nat /\ Origin(r).base = AmountOf(AllocsOf(s)) + Held(r)
    BY <1>1, <1>11 DEF BaseTraced
  <2>2. Held(m) = Held(r)
    BY <1>1, <1>9 DEF Held
  <2> HIDE DEF r
  <2>3. QED
    BY <2>1, <2>2, <1>1, <1>8, <1>9, <1>10, <1>12 DEF BaseTraced
<1>14. DatesTraced(s)'
  <2>1. /\ \A x \in AllocsOf(s) : /\ x[1] = "recognition" => schedAllocs[x].date >= Origin(r).start
                                  /\ x[1] = "change" => schedAllocs[x].date = r.history[x[3]].date
        /\ \A k \in DOMAIN r.history : r.history[k].date >= r.originDate /\ r.history[k].date >= r.effectiveFrom
        /\ \A k \in DOMAIN r.history : r.history[k].action # "supersede"
    BY <1>1, <1>11 DEF DatesTraced
  <2>2. \A x \in AllocsOf(s) : x[1] = "change" => x[3] \in DOMAIN r.history
    BY <1>2, AllocsAre
  <2>3. \A x \in AllocsOf(s) : x[1] = "recognition" => schedAllocs[x].date <= when
    <3> TAKE x \in AllocsOf(s)
    <3> SUFFICES ASSUME x[1] = "recognition" PROVE schedAllocs[x].date <= when
      OBVIOUS
    <3>1. x \in DOMAIN schedAllocs /\ x[2] = s /\ schedAllocs[x].date \in Int
      BY <1>2, AllocsAre, DaysFinite
    <3>2. schedAllocs[x].date \in PostedDates(s)
      BY <3>1 DEF PostedDates
    <3>3. \A d \in PostedDates(s) : when >= d
      BY <1>1 DEF MayChange
    <3>4. QED
      BY <3>1, <3>2, <3>3, DaysFinite
  <2>4. when >= r.originDate /\ when >= r.effectiveFrom
    BY <1>1, <1>2, ChangeFollows
  <2> HIDE DEF r
  <2>5. \A x \in AllocsOf(s) : /\ x[1] = "recognition" => schedAllocs[x].date >= Origin(m).start
                               /\ x[1] = "change" => schedAllocs[x].date = m.history[x[3]].date
    BY <2>1, <2>2, <1>8
  <2>6. ASSUME NEW k \in DOMAIN m.history
        PROVE  /\ m.history[k].date >= m.originDate /\ m.history[k].date >= m.effectiveFrom
               /\ m.history[k].action = "supersede" <=> k = Len(m.history)
    <3>1. CASE k \in 1..Len(r.history)
      BY <3>1, <2>1, <1>8, <1>9
    <3>2. CASE k = Len(r.history) + 1
      BY <3>2, <2>4, <1>8, <1>9
    <3>3. QED
      BY <3>1, <3>2, <1>8
  <2>7. QED
    BY <2>3, <2>5, <2>6, <1>1, <1>8, <1>9, <1>10, <1>12 DEF DatesTraced
<1>15. BaseTraced(n)' /\ DatesTraced(n)' /\ Origin(q) = q
  <2>1. AllocsOf(n)' = {}
    BY <1>1, <1>2, <1>12, NothingOfNew
  <2>2. RecordOK(schedules'[n])
    BY <1>10 DEF RecordsOK
  <2>3. /\ schedules'[n].history = <<>> /\ schedules'[n].status = "active" /\ schedules'[n].remaining = schedules'[n].base
        /\ schedules'[n].kind # "depreciation" /\ schedules'[n] = q
    BY <1>1, <1>5, <1>10
  <2> HIDE DEF r
  <2>4. BaseTraced(n)' /\ DatesTraced(n)' /\ Origin(schedules'[n]) = schedules'[n]
    BY <2>1, <2>2, <2>3, NewTraced
  <2>5. QED
    BY <2>3, <2>4
<1>16. ASSUME NEW x \in DOMAIN schedules' PROVE BaseTraced(x)' /\ DatesTraced(x)'
  <2>1. CASE x # s /\ x # n
    <3>1. x \in DOMAIN schedules /\ schedules'[x] = schedules[x]
      BY <2>1, <1>10
    <3>2. BaseTraced(x) /\ DatesTraced(x)
      BY <3>1, <1>11
    <3>3. QED
      BY <3>1, <3>2, <1>1, <1>12 DEF BaseTraced, DatesTraced
  <2>2. QED
    BY <2>1, <1>13, <1>14, <1>15
<1>17. /\ \A x \in DOMAIN schedules :
            /\ schedules'[x].kind = schedules[x].kind /\ schedules'[x].supersedes = schedules[x].supersedes
            /\ schedules'[x].effectiveFrom = schedules[x].effectiveFrom /\ schedules'[x].reserved = schedules[x].reserved
            /\ schedules'[x].originDate = schedules[x].originDate
            /\ Origin(schedules'[x]).base = Origin(schedules[x]).base
            /\ Origin(schedules'[x]).start = Origin(schedules[x]).start
            /\ Origin(schedules'[x]).initial = Origin(schedules[x]).initial
            /\ schedules[x].status = "superseded" => schedules'[x] = schedules[x]
       /\ \A x \in DOMAIN schedules : schedules[x].supersedes # {s}
  <2>1. ASSUME NEW x \in DOMAIN schedules
        PROVE  /\ schedules'[x].kind = schedules[x].kind /\ schedules'[x].supersedes = schedules[x].supersedes
               /\ schedules'[x].effectiveFrom = schedules[x].effectiveFrom /\ schedules'[x].reserved = schedules[x].reserved
               /\ schedules'[x].originDate = schedules[x].originDate
               /\ Origin(schedules'[x]).base = Origin(schedules[x]).base
               /\ Origin(schedules'[x]).start = Origin(schedules[x]).start
               /\ Origin(schedules'[x]).initial = Origin(schedules[x]).initial
               /\ schedules[x].status = "superseded" => schedules'[x] = schedules[x]
    <3>1. CASE x = s
      BY <3>1, <1>1, <1>8, <1>9, <1>10
    <3>2. CASE x # s
      BY <3>2, <1>10
    <3>3. QED
      BY <3>1, <3>2
  <2>2. ASSUME NEW x \in DOMAIN schedules, schedules[x].supersedes = {s} PROVE FALSE
    <3>1. PICK t \in DOMAIN schedules : schedules[x].supersedes = {t} /\ schedules[t].status = "superseded"
      BY <2>2, <1>11 DEF HandoversTraced
    <3>2. t = s
      BY <3>1, <2>2
    <3>3. QED
      BY <3>1, <3>2, <1>1
  <2>3. QED
    BY <2>1, <2>2
<1>18. HandoversTraced'
  <2>1. \A x \in DOMAIN schedules' : schedules'[x].supersedes = {} <=> schedules'[x].effectiveFrom = 0
    <3>1. when # 0
      BY SchedAssumption DEF Days
    <3>2. \A x \in DOMAIN schedules : schedules[x].supersedes = {} <=> schedules[x].effectiveFrom = 0
      BY <1>11 DEF HandoversTraced
    <3>3. q.supersedes # {} /\ q.effectiveFrom # 0
      BY <3>1, <1>5
    <3> TAKE x \in DOMAIN schedules'
    <3>4. CASE x = n
      BY <3>3, <3>4, <1>10
    <3>5. CASE x # n
      BY <3>2, <3>5, <1>10, <1>17
    <3>6. QED
      BY <3>4, <3>5
  <2>2. ASSUME NEW x \in DOMAIN schedules', schedules'[x].supersedes # {}
        PROVE  \E t \in DOMAIN schedules' :
                 /\ schedules'[x].supersedes = {t} /\ schedules'[t].status = "superseded" /\ schedules'[t].kind = schedules'[x].kind
                 /\ schedules'[x].effectiveFrom = LastNote(schedules'[t]).date
                 /\ Origin(schedules'[x]).base = schedules'[t].transferred
    <3>1. CASE x = n
      <4>1. s \in DOMAIN schedules' /\ Origin(q).base = m.transferred
        BY <1>5, <1>9, <1>10, <1>15
      <4>2. QED
        BY <3>1, <4>1, <1>5, <1>8, <1>9, <1>10
    <3>2. CASE x # n
      <4>1. x \in DOMAIN schedules /\ schedules[x].supersedes # {}
        BY <2>2, <3>2, <1>10, <1>17
      <4>2. PICK t \in DOMAIN schedules :
              /\ schedules[x].supersedes = {t} /\ schedules[t].status = "superseded" /\ schedules[t].kind = schedules[x].kind
              /\ schedules[x].effectiveFrom = LastNote(schedules[t]).date
              /\ Origin(schedules[x]).base = schedules[t].transferred
        BY <4>1, <1>11 DEF HandoversTraced
      <4>3. t \in DOMAIN schedules' /\ schedules'[t] = schedules[t]
        BY <4>2, <1>10, <1>17
      <4>4. QED
        BY <4>1, <4>2, <4>3, <1>17
    <3>3. QED
      BY <3>1, <3>2
  <2>3. ASSUME NEW x \in DOMAIN schedules', NEW y \in DOMAIN schedules', schedules'[x].supersedes = schedules'[y].supersedes
        PROVE  x = y \/ schedules'[x].supersedes = {}
    BY <2>3, <1>5, <1>10, <1>11, <1>17 DEF HandoversTraced
  <2>4. ASSUME NEW x \in DOMAIN schedules', schedules'[x].status = "superseded"
        PROVE  \E t \in DOMAIN schedules' : schedules'[t].supersedes = {x}
    <3>1. CASE x = s
      BY <3>1, <1>5, <1>10
    <3>2. CASE x # s
      <4>1. x # n
        BY <2>4, <1>1, <1>5, <1>10
      <4>2. x \in DOMAIN schedules /\ schedules[x].status = "superseded"
        BY <2>4, <3>2, <4>1, <1>10
      <4>3. PICK t \in DOMAIN schedules : schedules[t].supersedes = {x}
        BY <4>2, <1>11 DEF HandoversTraced
      <4>4. QED
        BY <4>3, <1>10, <1>17
    <3>3. QED
      BY <3>1, <3>2
  <2>5. QED
    BY <2>1, <2>2, <2>3, <2>4 DEF HandoversTraced
<1>19. EntriesTraced'
  <2>1. \A x \in DOMAIN schedAllocs : schedAllocs[x].schedule \in DOMAIN schedules
    BY <1>2 DEF WellFormed, AllocsOK, AllocOK
  <2>2. \A x \in DOMAIN schedAllocs : \A c : OnLedger(x, c)' = OnLedger(x, c)
    BY <2>1, <1>1, <1>17 DEF OnLedger, Shows, Coef, CreditAccount, ControlOf, NormalSign
  <2>3. QED
    BY <2>2, <1>1, <1>11 DEF EntriesTraced
<1>20. FundingTraced'
  <2>1. \A x \in DOMAIN schedules : Named(schedules[x], schedules'[x])
    BY <1>17 DEF Named
  <2>2. \A x \in DOMAIN schedules' \ DOMAIN schedules : schedules'[x].supersedes # {} /\ ReclassOf(x) \notin DOMAIN schedLedger
    BY <1>1, <1>2, <1>5, <1>10, NothingOfNew
  <2>3. DOMAIN e \cap DOMAIN schedLedger = {} /\ (\A x : ReclassOf(x) \notin DOMAIN e) /\ DOMAIN schedules \subseteq DOMAIN schedules'
    BY <1>3, <1>10
  <2>4. QED
    BY <1>2, <1>3, <1>11, <2>1, <2>2, <2>3, FundingStays
<1>21. QED
  BY <1>16, <1>18, <1>19, <1>20 DEF Traced

\* What a new schedule begins with.
LEMMA RecordBegins ==
  ASSUME NEW mode, NEW q \in ScheduleRequests(mode), NEW r, r = Record(q)
  PROVE  /\ RecordOK(r) /\ r.kind \in Kinds /\ r.history = <<>> /\ r.status = "active" /\ r.remaining = r.base /\ r.remaining > 0
         /\ r.effectiveFrom = 0 /\ r.supersedes = {} /\ (r.kind = "depreciation" => r.initial = 0)
         /\ Brought(r) = r.reserved /\ (mode # "opening" => r.reserved = Amount) /\ r.reserved \in Nat
         /\ r.originDate = IF mode = "new" THEN q.date ELSE PaidOn
<1>1. q.mode = mode /\ (mode # "opening" => q.recognized = 0) /\ (mode = "opening" => q.terms.kind # "depreciation")
  BY RequestIs
<1>2. /\ RecordOK(r) /\ r.kind \in Kinds /\ r.remaining > 0 /\ r.supersedes = {} /\ r.kind = q.terms.kind
      /\ mode # "opening" => r.reserved = Amount /\ (r.kind # "depreciation" => r.remaining = Amount)
      /\ mode = "opening" => r.reserved = r.remaining /\ r.kind # "depreciation"
      /\ r.originDate = IF mode = "new" THEN q.date ELSE PaidOn
  BY <1>1, NewRecordIs
<1>3. /\ r.history = <<>> /\ r.status = "active" /\ r.remaining = r.base /\ r.effectiveFrom = 0 /\ r.initial = q.recognized
  BY DEF Record
<1>4. r.reserved \in Nat
  BY <1>2 DEF RecordOK
<1>5. Origin(r) = r
  BY <1>3 DEF Origin
<1>6. Brought(r) = r.reserved
  BY <1>2, <1>3, <1>5 DEF Brought
<1>7. QED
  BY <1>1, <1>2, <1>3, <1>4, <1>6

\* An opening balance is only taken from the payment that stood in the books: one entered
\* with a schedule is reserved whole.
LEMMA OpeningFindsPayment ==
  ASSUME WellFormed, FundingTraced, Payment \in DOMAIN schedLedger,
         NEW q \in ScheduleRequests("opening"), NEW r, r = Record(q), CanFund(q, r)
  PROVE  schedLedger[Payment].date = PaidOn
<1> SUFFICES ASSUME schedLedger[Payment].date # PaidOn PROVE FALSE
  OBVIOUS
<1>1. PICK s \in DOMAIN schedules : WholeFor(s)
  BY DEF FundingTraced
<1> DEFINE c == ControlOf(r)
           f == [x \in FundedOn(c) |-> schedules[x].reserved]
<1>2. q.mode = "opening" /\ r.kind \in Kinds /\ r.remaining > 0 /\ r.remaining \in Nat
  BY RequestIs, RecordBegins DEF RecordOK
<1>3. c \in Controls /\ c \in ScheduleAccounts /\ NormalSign(r) \in {1, -1}
  BY <1>2 DEF Kinds, Controls, ControlOf, NormalSign, ScheduleAccounts
<1>4. ReservedBy(c) + r.remaining <= NormalSign(r) * Paid(c)
  BY <1>2 DEF CanFund
<1>5. ReservedBy(c) \in Int /\ ReservedBy(c) >= 0
  BY <1>3, ReservedIs
<1>6. Paid(c) \in {0, Amount, -Amount} /\ Amount \in Nat /\ Amount > 0
  BY <1>3, SchedAssumption DEF WellFormed, LedgerOK
<1>7. CASE c = ControlOf(schedules[s])
  <2>1. s \in FundedOn(c) /\ f[s] = Amount
    BY <1>1, <1>7 DEF FundedOn, WholeFor
  <2>2. ReservedBy(c) = SumFunctionOnSet(f, FundedOn(c))
    BY SumAll DEF ReservedBy
  <2>3. IsFiniteSet(FundedOn(c)) /\ \A x \in FundedOn(c) : f[x] \in Int /\ f[x] >= 0
    <3>1. IsFiniteSet(FundedOn(c))
      BY <1>3, UnlinkedIs
    <3>2. \A x \in FundedOn(c) : schedules[x].reserved \in Nat
      BY DEF FundedOn, WellFormed, RecordsOK, RecordOK
    <3>3. QED
      BY <3>1, <3>2
  <2> HIDE DEF f, c
  <2>4. SumFunctionOnSet(f, FundedOn(c)) >= f[s]
    BY <2>1, <2>3, SumSigned
  <2>5. NormalSign(r) * Paid(c) \in Int /\ NormalSign(r) * Paid(c) <= Amount
    BY <1>3, <1>6
  <2>6. QED
    BY <2>1, <2>2, <2>4, <2>5, <1>2, <1>4, <1>5, <1>6
<1>8. CASE c # ControlOf(schedules[s])
  <2>1. Paid(c) = 0
    BY <1>1, <1>3, <1>8 DEF WholeFor
  <2>2. NormalSign(r) * Paid(c) = 0
    BY <2>1, <1>3
  <2> HIDE DEF c
  <2>3. QED
    BY <2>2, <1>2, <1>4, <1>5
<1>9. QED
  BY <1>7, <1>8

\* The funding of a schedule that begins, traced.
LEMMA CreateFunds ==
  ASSUME SchedInv, Traced, NEW mode \in {"new", "existing", "opening"}, NEW q \in ScheduleRequests(mode), Offered(mode), Create(q),
         NEW r, r = Record(q), NEW s, s = q.id, s \notin DOMAIN schedules, NEW e, e = Funding(q, r),
         Wrote(schedLedger', e, schedLedger), DOMAIN e \cap DOMAIN schedLedger = {},
         DOMAIN schedules' = DOMAIN schedules \union {s}, schedules'[s] = r,
         \A x \in DOMAIN schedules : schedules'[x] = schedules[x]
  PROVE  FundingTraced'
<1>1. /\ r.kind \in Kinds /\ r.supersedes = {} /\ Brought(r) = r.reserved /\ (mode # "opening" => r.reserved = Amount)
      /\ r.originDate = IF mode = "new" THEN q.date ELSE PaidOn
  BY RecordBegins
<1>2. FundingOK(mode, q, r, e)
  BY FundingIs
<1>3. WellFormed /\ FundingTraced /\ ReclassOf(s) \notin DOMAIN schedLedger /\ CanFund(q, r)
  BY NothingOfNew DEF SchedInv, Traced, Create
<1>4. Payment' = Payment /\ (\A x : ReclassOf(x)' = ReclassOf(x)) /\ \A x : ReclassOf(x) # Payment
  BY DEF Payment, ReclassOf, Id
<1>5. /\ DOMAIN schedLedger' = DOMAIN e \union DOMAIN schedLedger /\ \A x \in DOMAIN e : schedLedger'[x] = e[x]
      /\ \A x \in DOMAIN schedLedger : schedLedger'[x] = schedLedger[x]
  BY DEF Wrote
<1>6. CASE mode = "new"
  <2>1. DOMAIN schedules = {} /\ DOMAIN schedLedger = {}
    BY <1>3, <1>6, EmptyBooks DEF Offered
  <2>2. DOMAIN e = {Payment} /\ e[Payment].date = q.date /\ \A c \in Controls : e[Payment].lines[c] = Funds(r, c)
    BY <1>2, <1>6 DEF FundingOK
  <2>3. DOMAIN schedules' = {s} /\ DOMAIN schedLedger' = {Payment} /\ schedLedger'[Payment] = e[Payment]
    BY <2>1, <2>2, <1>5
  <2>4. \A c \in Controls : Paid(c)' = Funds(r, c)
    BY <2>2, <2>3, <1>4 DEF Paid
  <2>5. ControlOf(r) \in Controls
    BY <1>1 DEF Kinds, ControlOf, Controls
  <2>6. OnControl(r)'
    BY <2>4, <2>5 DEF OnControl, Funds
  <2>7. Funded(s)'
    BY <2>2, <2>3, <2>6, <1>1, <1>4, <1>6 DEF Funded, Brought, Origin
  <2>8. WholeFor(s)'
    BY <2>4, <2>6, <1>1, <1>6 DEF WholeFor, Funds
  <2>9. \A x : ReclassOf(x) \notin DOMAIN schedLedger'
    BY <2>3, <1>4
  <2>10. QED
    BY <2>3, <2>7, <2>8, <2>9, <1>4 DEF FundingTraced
<1>7. CASE mode # "new"
  <2>1. Payment \in DOMAIN schedLedger
    BY <1>7 DEF Offered
  <2>2. schedLedger[Payment].date = PaidOn
    <3>1. CASE mode = "existing"
      BY <3>1, <2>1, <1>3 DEF Offered, FundingTraced
    <3>2. CASE mode = "opening"
      BY <3>2, <2>1, <1>3, OpeningFindsPayment
    <3>3. QED
      BY <3>1, <3>2, <1>7
  <2>3. schedLedger'[Payment].date = PaidOn /\ Payment \in DOMAIN schedLedger' /\ \A c : Paid(c)' = Paid(c)
    BY <2>1, <2>2, <1>4, <1>5 DEF Paid
  <2>4. /\ OnControl(r)' <=> OnControl(r)
        /\ \A x \in DOMAIN schedules : OnControl(schedules[x])' <=> OnControl(schedules[x])
    <3>1. \A x \in DOMAIN schedules : ControlOf(schedules'[x]) = ControlOf(schedules[x]) /\ NormalSign(schedules'[x]) = NormalSign(schedules[x])
      OBVIOUS
    <3>2. QED
      BY <3>1, <2>3 DEF OnControl
  <2>5. DOMAIN e \subseteq {ReclassOf(s)}
    BY <1>2, <1>7 DEF FundingOK, ReclassOf
  <2>6. \A x : x # s => ReclassOf(x) \notin DOMAIN e
    <3>1. \A x : x # s => ReclassOf(x) # ReclassOf(s)
      <4>1. \A x : ReclassOf(x)[2] = x
        BY DEF ReclassOf, Id
      <4>2. QED
        BY <4>1
    <3>2. QED
      BY <3>1, <2>5
  <2>7. ASSUME NEW x \in DOMAIN schedules
        PROVE  /\ ReclassOf(x) \in DOMAIN schedLedger' => Reclassed(x)'
               /\ schedules'[x].supersedes = {} /\ ReclassOf(x) \notin DOMAIN schedLedger' => Funded(x)'
    <3>1. /\ ReclassOf(x) \in DOMAIN schedLedger' <=> ReclassOf(x) \in DOMAIN schedLedger
          /\ schedules'[x] = schedules[x]
      BY <2>6, <1>5
    <3>2. /\ ReclassOf(x) \in DOMAIN schedLedger => Reclassed(x)
          /\ schedules[x].supersedes = {} /\ ReclassOf(x) \notin DOMAIN schedLedger => Funded(x)
      BY <1>3 DEF FundingTraced
    <3>3. Reclassed(x) /\ ReclassOf(x) \in DOMAIN schedLedger => Reclassed(x)'
      BY <3>1, <2>4, <1>4, <1>5 DEF Reclassed, Brought, Funds, Origin
    <3>4. Funded(x) => Funded(x)'
      BY <3>1, <2>1, <2>4, <1>4, <1>5 DEF Funded, Brought, Origin
    <3>5. QED
      BY <3>1, <3>2, <3>3, <3>4
  <2>8. /\ ReclassOf(s) \in DOMAIN schedLedger' => Reclassed(s)'
        /\ schedules'[s].supersedes = {} /\ ReclassOf(s) \notin DOMAIN schedLedger' => Funded(s)'
    <3>1. CASE mode = "existing" /\ ~OnControl(r)
      <4>1. DOMAIN e = {ReclassOf(s)} /\ \A c \in Controls : e[ReclassOf(s)].lines[c] = Funds(r, c)
        BY <1>2, <3>1 DEF FundingOK, ReclassOf
      <4>2. schedLedger'[ReclassOf(s)] = e[ReclassOf(s)] /\ ReclassOf(s) \in DOMAIN schedLedger'
        BY <4>1, <1>5
      <4>3. Reclassed(s)'
        BY <4>1, <4>2, <3>1, <2>4, <1>1, <1>4 DEF Reclassed, Brought, Funds, Origin
      <4>4. QED
        BY <4>2, <4>3
    <3>2. CASE mode = "opening" \/ OnControl(r)
      <4>1. OnControl(r)
        BY <3>2, <1>3, OpeningOnControl
      <4>2. DOMAIN e = {}
        BY <1>2, <1>7, <4>1 DEF FundingOK
      <4>3. Funded(s)'
        BY <4>1, <2>3, <2>4, <1>1, <1>4, <1>7 DEF Funded, Brought, Origin
      <4>4. QED
        BY <4>2, <4>3, <1>3, <1>5
    <3>3. QED
      BY <3>1, <3>2, <1>7
  <2>9. QED
    BY <2>3, <2>7, <2>8, <1>4 DEF FundingTraced
<1>8. QED
  BY <1>6, <1>7

\* A schedule that begins keeps the trace.
LEMMA CreateTraces ==
  ASSUME SchedInv, Traced, NEW mode \in {"new", "existing", "opening"}, NEW q \in ScheduleRequests(mode), Offered(mode), Create(q),
         RecordsOK'
  PROVE  Traced'
<1> DEFINE r == Record(q)
           e == Funding(q, r)
           s == q.id
           R == [x \in {s} |-> r]
           a == <<>>
<1>1. s \notin DOMAIN schedules /\ schedules' = Saved(R) /\ schedLedger' = Posted(e) /\ schedAllocs' = schedAllocs
  BY DEF Create
<1>2. WellFormed
  BY DEF SchedInv
<1>3. Wrote(schedules', R, schedules) /\ Wrote(schedLedger', e, schedLedger) /\ Wrote(schedAllocs', a, schedAllocs)
      /\ DOMAIN a = {}
  BY <1>1, OverWrites DEF Saved, Posted
<1>4. DOMAIN R = {s} /\ R[s] = r
  OBVIOUS
<1>e. r = Record(q) /\ e = Funding(q, r) /\ s = q.id
  OBVIOUS
<1> HIDE DEF r, R, a, e, s
<1>5. /\ r.history = <<>> /\ r.status = "active" /\ r.remaining = r.base
      /\ r.effectiveFrom = 0 /\ r.supersedes = {} /\ (r.kind = "depreciation" => r.initial = 0)
  BY <1>e, RecordBegins
<1>6. FundingOK(mode, q, r, e)
  BY <1>e, FundingIs
<1>7. DOMAIN e \cap DOMAIN schedLedger = {} /\ DOMAIN e \cap DOMAIN schedAllocs = {}
  <2>1. \/ DOMAIN e = {}
        \/ mode = "new" /\ DOMAIN e = {Payment}
        \/ mode = "existing" /\ DOMAIN e = {ReclassOf(s)}
    BY <1>6, <1>e DEF FundingOK, ReclassOf
  <2>2. mode = "new" => Payment \notin DOMAIN schedLedger
    BY DEF Offered
  <2>3. mode # "opening" => DOMAIN schedAllocs = {}
    BY <1>2, EmptyBooks DEF Offered
  <2>4. ReclassOf(s) \notin DOMAIN schedLedger
    BY <1>1, <1>2, NothingOfNew
  <2>5. QED
    BY <2>1, <2>2, <2>3, <2>4
<1>8. /\ schedules'[s] = r /\ DOMAIN schedules' = DOMAIN schedules \union {s}
      /\ \A x \in DOMAIN schedules : schedules'[x] = schedules[x]
  BY <1>1, <1>3, <1>4 DEF Wrote
<1>9. \A x : AllocsOf(x)' = AllocsOf(x) /\ AmountOf(AllocsOf(x))' = AmountOf(AllocsOf(x))
  BY <1>1 DEF AllocsOf, AmountOf
<1>10. ASSUME NEW x \in DOMAIN schedules' PROVE BaseTraced(x)' /\ DatesTraced(x)'
  <2>1. CASE x # s
    <3>1. x \in DOMAIN schedules /\ schedules'[x] = schedules[x] /\ BaseTraced(x) /\ DatesTraced(x)
      BY <2>1, <1>8 DEF Traced
    <3>2. QED
      BY <3>1, <1>1, <1>9 DEF BaseTraced, DatesTraced
  <2>2. CASE x = s
    <3>1. AllocsOf(s)' = {}
      BY <1>1, <1>2, <1>9, NothingOfNew
    <3>2. RecordOK(schedules'[s])
      BY <1>8 DEF RecordsOK
    <3>3. QED
      BY <2>2, <3>1, <3>2, <1>5, <1>8, NewTraced
  <2>3. QED
    BY <2>1, <2>2
<1>11. HandoversTraced'
  <2>1. HandoversTraced
    BY DEF Traced
  <2>2. \A x \in DOMAIN schedules' : schedules'[x].supersedes = {} <=> schedules'[x].effectiveFrom = 0
    BY <2>1, <1>5, <1>8 DEF HandoversTraced
  <2>3. ASSUME NEW x \in DOMAIN schedules', schedules'[x].supersedes # {}
        PROVE  \E t \in DOMAIN schedules' :
                 /\ schedules'[x].supersedes = {t} /\ schedules'[t].status = "superseded" /\ schedules'[t].kind = schedules'[x].kind
                 /\ schedules'[x].effectiveFrom = LastNote(schedules'[t]).date
                 /\ Origin(schedules'[x]).base = schedules'[t].transferred
    <3>1. x \in DOMAIN schedules /\ schedules'[x] = schedules[x]
      BY <2>3, <1>5, <1>8
    <3>2. PICK t \in DOMAIN schedules :
              /\ schedules[x].supersedes = {t} /\ schedules[t].status = "superseded" /\ schedules[t].kind = schedules[x].kind
              /\ schedules[x].effectiveFrom = LastNote(schedules[t]).date
              /\ Origin(schedules[x]).base = schedules[t].transferred
      BY <2>1, <2>3, <3>1 DEF HandoversTraced
    <3>3. t \in DOMAIN schedules' /\ schedules'[t] = schedules[t]
      BY <3>2, <1>8
    <3>4. QED
      BY <3>1, <3>2, <3>3
  <2>4. ASSUME NEW x \in DOMAIN schedules', NEW y \in DOMAIN schedules', schedules'[x].supersedes = schedules'[y].supersedes
        PROVE  x = y \/ schedules'[x].supersedes = {}
    BY <2>1, <2>4, <1>5, <1>8 DEF HandoversTraced
  <2>5. ASSUME NEW x \in DOMAIN schedules', schedules'[x].status = "superseded"
        PROVE  \E t \in DOMAIN schedules' : schedules'[t].supersedes = {x}
    <3>1. x \in DOMAIN schedules /\ schedules[x].status = "superseded"
      BY <2>5, <1>5, <1>8
    <3>2. PICK t \in DOMAIN schedules : schedules[t].supersedes = {x}
      BY <2>1, <3>1 DEF HandoversTraced
    <3>3. QED
      BY <3>2, <1>8
  <2>6. QED
    BY <2>2, <2>3, <2>4, <2>5 DEF HandoversTraced
<1>12. EntriesTraced'
  <2>1. EntriesTraced /\ \A x \in DOMAIN schedAllocs : schedAllocs[x].schedule \in DOMAIN schedules
    BY <1>2 DEF Traced, WellFormed, AllocsOK, AllocOK
  <2>2. \A x \in DOMAIN schedules : schedules'[x].kind = schedules[x].kind
    BY <1>8
  <2>3. (DOMAIN a \union DOMAIN e) \cap (DOMAIN schedAllocs \union DOMAIN schedLedger) = {}
    BY <1>3, <1>7
  <2>4. DOMAIN a = {}
    BY <1>3
  <2>5. QED
    BY <2>1, <2>2, <2>3, <2>4, <1>3, EntriesGrow
<1>13. FundingTraced'
  BY <1>1, <1>3, <1>7, <1>8, <1>e, CreateFunds
<1>14. QED
  BY <1>10, <1>11, <1>12, <1>13 DEF Traced

\* Books without schedules.
LEMMA NoneTraced ==
  /\ DOMAIN schedules = {} /\ DOMAIN schedAllocs = {} /\ (Payment \in DOMAIN schedLedger => schedLedger[Payment].date = PaidOn)
  => Traced
<1> SUFFICES ASSUME DOMAIN schedules = {}, DOMAIN schedAllocs = {},
                    Payment \in DOMAIN schedLedger => schedLedger[Payment].date = PaidOn
             PROVE  Traced
  OBVIOUS
<1>1. HandoversTraced
  BY DEF HandoversTraced
<1>2. EntriesTraced
  BY DEF EntriesTraced
<1>3. FundingTraced
  BY DEF FundingTraced
<1>4. QED
  BY <1>1, <1>2, <1>3 DEF Traced

\* Books begin traced.
LEMMA TracedFirst ==
  ASSUME SchedInit
  PROVE  Traced
<1>1. DOMAIN schedules = {} /\ DOMAIN schedAllocs = {}
  BY DEF SchedInit
<1>2. Payment \in DOMAIN schedLedger => schedLedger[Payment].date = PaidOn
  <2>1. CASE schedLedger = <<>>
    BY <2>1
  <2>2. CASE \E p \in PaidLines : schedLedger = [x \in {Payment} |-> [date |-> PaidOn, lines |-> Lines(p)]]
    BY <2>2
  <2>3. QED
    BY <2>1, <2>2 DEF SchedInit
<1>3. QED
  BY <1>1, <1>2, NoneTraced

\* They stay so when nothing is written.
LEMMA NothingTraces ==
  ASSUME SchedInv, Traced, schedules' = schedules, schedAllocs' = schedAllocs, schedLedger' = schedLedger
  PROVE  Traced'
<1>0. WellFormed /\ LedgerOK /\ AllocsOK
  BY DEF SchedInv, WellFormed
<1>1. CASE DOMAIN schedules = {}
  <2>1. DOMAIN schedAllocs = {}
    BY <1>0, <1>1 DEF AllocsOK, AllocOK
  <2>2. Payment \in DOMAIN schedLedger => schedLedger[Payment].date = PaidOn
    BY <1>1 DEF Traced, FundingTraced
  <2>3. Payment' \in DOMAIN schedLedger' => schedLedger'[Payment'].date = PaidOn
    BY <2>2 DEF Payment, Id
  <2>4. (DOMAIN schedules = {} /\ DOMAIN schedAllocs = {} /\ (Payment \in DOMAIN schedLedger => schedLedger[Payment].date = PaidOn))'
    BY <2>1, <2>3, <1>1
  <2>5. QED
    BY <2>4, NoneTraced, PTL
<1>2. CASE DOMAIN schedules # {}
  <2> DEFINE e == <<>>
  <2>1. Payment \in DOMAIN schedLedger
    BY <1>0, <1>2 DEF LedgerOK
  <2>2. /\ Wrote(schedules', e, schedules) /\ Wrote(schedLedger', e, schedLedger) /\ Wrote(schedAllocs', e, schedAllocs)
        /\ DOMAIN e = {}
    BY OverWrites
  <2> HIDE DEF e
  <2>3. GoesOn(e) /\ Allots(e, e, e) /\ \A s \in DOMAIN e : BaseTraced(s)' /\ DatesTraced(s)'
    BY <2>2 DEF GoesOn, Allots
  <2>4. QED
    BY <2>1, <2>2, <2>3, <1>0, TransactionTraces
<1>3. QED
  BY <1>1, <1>2

\* Every step keeps the trace.
LEMMA TracedKept ==
  ASSUME SchedInv, Traced, [SchedNext]_schedVars
  PROVE  Traced'
<1>0. SchedInv' /\ RecordsOK'
  <2>1. SchedInv'
    BY InvKept
  <2>2. QED
    BY <2>1 DEF SchedInv, WellFormed
<1>1. CASE SchedNext
  <2>1. ASSUME NEW mode \in {"new", "existing", "opening"}, Offered(mode), NEW q \in ScheduleRequests(mode), Create(q)
        PROVE  Traced'
    BY <2>1, <1>0, CreateTraces
  <2>2. ASSUME NEW t \in Dates, PostDue(t) PROVE Traced'
    BY <2>2, <1>0, PostDueTraces
  <2>3. ASSUME NEW s \in DOMAIN schedules, NEW d \in Dates, Cancel(s, d) PROVE Traced'
    <3>1. d \in Days
      BY SchedAssumption
    <3>2. IsChange(s, d)
      BY <3>1, <2>3, CancelIs
    <3>3. QED
      BY <3>1, <3>2, <1>0, ChangeTraces
  <2>4. ASSUME NEW s \in DOMAIN schedules, NEW d \in Dates,
               NEW left \in Refunds \union {schedules[s].remaining}, NEW back \in Refunds \union {schedules[s].remaining},
               Refund(s, d, left, back)
        PROVE  Traced'
    <3>1. schedules[s].remaining \in Nat
      BY DEF SchedInv, WellFormed, RecordsOK, RecordOK
    <3>2. left \in Nat /\ back \in Nat /\ d \in Days
      BY <3>1, SchedAssumption
    <3>3. IsChange(s, d)
      BY <3>2, <2>4, RefundIs
    <3>4. QED
      BY <3>2, <3>3, <1>0, ChangeTraces
  <2>5. ASSUME NEW s \in DOMAIN schedules, NEW d \in Dates, NEW n \in Schedules \ DOMAIN schedules, NEW w \in Terms,
               NEW p \in CustomPlans \union {<<>>}, Supersede(s, d, n, w, p)
        PROVE  Traced'
    BY <2>5, <1>0, SupersedeTraces, SchedAssumption
  <2>6. ASSUME NEW s \in DOMAIN schedules, NEW d \in Dates, NEW e \in Dates, Terminate(s, d, e) PROVE Traced'
    <3>1. d \in Days /\ e \in Days
      BY SchedAssumption
    <3>2. IsChange(s, d)
      BY <3>1, <2>6, TerminateIs
    <3>3. QED
      BY <3>1, <3>2, <1>0, ChangeTraces
  <2>7. ASSUME NEW m \in MonthStarts, Close(m) \/ Reopen(m) PROVE Traced'
    <3>1. schedules' = schedules /\ schedAllocs' = schedAllocs /\ schedLedger' = schedLedger
      BY <2>7 DEF Close, Reopen
    <3>2. QED
      BY <3>1, NothingTraces
  <2>8. QED
    BY <1>1, <2>1, <2>2, <2>3, <2>4, <2>5, <2>6, <2>7 DEF SchedNext
<1>2. CASE UNCHANGED schedVars
  <2>1. schedules' = schedules /\ schedAllocs' = schedAllocs /\ schedLedger' = schedLedger
    BY <1>2 DEF schedVars
  <2>2. QED
    BY <2>1, NothingTraces
<1>3. QED
  BY <1>1, <1>2

--------------------------------------------------------------------------------
(* What the support of a schedule is made of. *)
StartOf(s, c) == IF c = ControlOf(schedules[s]) THEN NormalSign(schedules[s]) * Brought(schedules[s]) ELSE 0
In(s, c, d) == IF StartsOn(schedules[s]) <= d THEN StartOf(s, c) ELSE 0
Out(s, c, d) ==
  IF Handed(s, d) /\ c = ControlOf(schedules[s]) THEN NormalSign(schedules[s]) * schedules[s].transferred ELSE 0
Moved(s, c, d) == SumFunctionOnSet([x \in AllocatedBy(s, d) |-> OnLedger(x, c)], AllocatedBy(s, d))

\* The allocations of a schedule by a day.
LEMMA AllocatedIs ==
  ASSUME WellFormed, NEW s, NEW d
  PROVE  /\ IsFiniteSet(AllocatedBy(s, d)) /\ AllocatedBy(s, d) \subseteq AllocsOf(s)
         /\ \A x \in AllocatedBy(s, d) : schedAllocs[x].schedule = s /\ schedAllocs[x].date <= d /\ x \in AllocsOf(s)
         /\ \A x \in AllocsOf(s) : schedAllocs[x].date <= d => x \in AllocatedBy(s, d)
<1>1. IsFiniteSet(DOMAIN schedAllocs)
  BY DEF WellFormed, AllocsOK
<1>2. AllocatedBy(s, d) \subseteq DOMAIN schedAllocs
  BY DEF AllocatedBy
<1>3. IsFiniteSet(AllocatedBy(s, d))
  BY <1>1, <1>2, FS_Subset
<1>4. QED
  BY <1>3 DEF AllocatedBy, AllocsOf

\* What is read of a schedule is a number.
LEMMA TracedIs ==
  ASSUME WellFormed, Traced, NEW s \in DOMAIN schedules
  PROVE  LET r == schedules[s] IN
         /\ RecordOK(r) /\ r.kind \in Kinds /\ BaseTraced(s) /\ DatesTraced(s)
         /\ NormalSign(r) \in {1, -1} /\ (r.kind = "depreciation" => NormalSign(r) = 1)
         /\ Brought(r) \in Nat /\ StartsOn(r) \in Int /\ StartsOn(r) \in {r.originDate, r.effectiveFrom}
         /\ (r.kind # "depreciation" => Held(r) \in Nat)
         /\ r.originDate \in Int /\ r.effectiveFrom \in Int
         /\ HistoryOK(r) /\ DOMAIN r.history = 1..Len(r.history) /\ Len(r.history) \in Nat
         /\ \A k \in DOMAIN r.history : r.history[k].date \in Int
<1> DEFINE r == schedules[s]
<1>1. RecordOK(r) /\ r.kind \in Kinds /\ BaseTraced(s) /\ DatesTraced(s)
  BY DEF WellFormed, RecordsOK, RecordOK, Traced
<1>2. NormalSign(r) \in {1, -1} /\ (r.kind = "depreciation" => NormalSign(r) = 1)
  BY DEF NormalSign
<1>3. Brought(r) \in Nat /\ (r.kind # "depreciation" => Held(r) \in Nat)
  BY <1>1, SchedAssumption DEF Brought, BaseTraced
<1>4. r.originDate \in Int /\ r.effectiveFrom \in Int /\ HistoryOK(r)
  BY <1>1, DaysFinite, SchedAssumption DEF RecordOK
<1>5. DOMAIN r.history = 1..Len(r.history) /\ Len(r.history) \in Nat
  <2>1. PICK V : r.history \in Seq(V)
    BY <1>4 DEF HistoryOK
  <2>2. QED
    BY <2>1
<1>6. \A k \in DOMAIN r.history : r.history[k].date \in Int
  BY <1>4, <1>5, DaysFinite DEF HistoryOK, NoteOK
<1>7. QED
  BY <1>1, <1>2, <1>3, <1>4, <1>5, <1>6 DEF StartsOn

\* A schedule hands its balance over once, last of all, and after it began.
LEMMA HandedIs ==
  ASSUME WellFormed, Traced, NEW s \in DOMAIN schedules, NEW d \in Days, Handed(s, d)
  PROVE  LET r == schedules[s] IN
         /\ r.status = "superseded" /\ r.kind # "depreciation" /\ StartsOn(r) <= d
         /\ Len(r.history) \in DOMAIN r.history /\ LastNote(r).date <= d
<1> DEFINE r == schedules[s]
<1>1. PICK k \in DOMAIN r.history : r.history[k].action = "supersede" /\ r.history[k].date <= d
  BY DEF Handed
<1>2. /\ BaseTraced(s) /\ DatesTraced(s) /\ StartsOn(r) \in {r.originDate, r.effectiveFrom}
      /\ r.history[k].date \in Int /\ r.originDate \in Int /\ r.effectiveFrom \in Int
  BY TracedIs
<1>3. k = Len(r.history) /\ r.status = "superseded" /\ r.history[k].date >= r.originDate /\ r.history[k].date >= r.effectiveFrom
  BY <1>1, <1>2 DEF DatesTraced
<1>4. r.kind # "depreciation"
  BY <1>2, <1>3 DEF BaseTraced
<1>5. d \in Int
  BY DaysFinite
<1>6. StartsOn(r) <= d
  BY <1>1, <1>2, <1>3, <1>5
<1>7. QED
  BY <1>1, <1>3, <1>4, <1>6 DEF LastNote

\* Nothing is allocated of a schedule before it begins.
LEMMA NothingBefore ==
  ASSUME WellFormed, Traced, NEW s \in DOMAIN schedules, InOrder(s), NEW d \in Days, NEW x \in AllocatedBy(s, d)
  PROVE  StartsOn(schedules[s]) <= d
<1> DEFINE r == schedules[s]
<1>1. x \in AllocsOf(s) /\ schedAllocs[x].date <= d
  BY AllocatedIs
<1>2. x[1] \in {"recognition", "change"} /\ schedAllocs[x].date \in Int /\ (x[1] = "change" => x[3] \in DOMAIN r.history) /\ d \in Int
  BY <1>1, AllocsAre, DaysFinite
<1>3. /\ RecordOK(r) /\ BaseTraced(s) /\ DatesTraced(s) /\ StartsOn(r) \in {r.originDate, r.effectiveFrom}
      /\ StartsOn(r) \in Int /\ r.originDate \in Int /\ r.effectiveFrom \in Int
  BY TracedIs
<1>4. CASE x[1] = "recognition"
  <2>1. schedAllocs[x].date >= Origin(r).start /\ Origin(r).start \in Int
    BY <1>1, <1>3, <1>4 DEF DatesTraced, BaseTraced
  <2>2. FirstRecord(r) = Origin(r)
    BY <1>3, FirstIsOrigin DEF InOrder
  <2>3. Origin(r).start >= StartsOn(r)
    BY <2>2 DEF InOrder
  <2>4. QED
    BY <2>1, <2>3, <1>1, <1>2, <1>3
<1>5. CASE x[1] = "change"
  <2>1. schedAllocs[x].date = r.history[x[3]].date /\ x[3] \in DOMAIN r.history
    BY <1>1, <1>2, <1>3, <1>5 DEF DatesTraced
  <2>2. r.history[x[3]].date >= r.originDate /\ r.history[x[3]].date >= r.effectiveFrom
    BY <2>1, <1>3 DEF DatesTraced
  <2>3. QED
    BY <2>1, <2>2, <1>1, <1>2, <1>3
<1>6. QED
  BY <1>2, <1>4, <1>5

\* Everything is allocated by the day it hands its balance over.
LEMMA AllBeforeHandover ==
  ASSUME WellFormed, Traced, NEW s \in DOMAIN schedules, InOrder(s), NEW d \in Days, Handed(s, d)
  PROVE  AllocatedBy(s, d) = AllocsOf(s)
<1> DEFINE r == schedules[s]
           n == Len(r.history)
<1>1. r.status = "superseded" /\ n \in DOMAIN r.history /\ LastNote(r).date <= d /\ r.history[n] = LastNote(r)
  BY HandedIs DEF LastNote
<1>2. RecordOK(r) /\ DatesTraced(s) /\ DOMAIN r.history = 1..n /\ n \in Nat /\ \A k \in DOMAIN r.history : r.history[k].date \in Int
  BY TracedIs
<1>3. d \in Int /\ ChangesInOrder(s)
  BY DaysFinite DEF InOrder
<1>4. ASSUME NEW x \in AllocsOf(s) PROVE schedAllocs[x].date <= d
  <2>1. x[1] \in {"recognition", "change"} /\ schedAllocs[x].date \in Int /\ (x[1] = "change" => x[3] \in DOMAIN r.history)
    BY AllocsAre, DaysFinite
  <2>2. CASE x[1] = "recognition"
    <3>1. schedAllocs[x].date <= LastNote(r).date
      BY <1>1, <1>2, <2>2 DEF DatesTraced
    <3>2. LastNote(r).date \in Int
      BY <1>1, <1>2
    <3>3. QED
      BY <3>1, <3>2, <1>1, <1>3, <2>1
  <2>3. CASE x[1] = "change"
    <3>1. schedAllocs[x].date = r.history[x[3]].date /\ x[3] \in DOMAIN r.history
      BY <1>2, <2>1, <2>3 DEF DatesTraced
    <3>2. x[3] <= n
      BY <3>1, <1>2
    <3>3. r.history[x[3]].date <= r.history[n].date
      <4> DEFINE H == r.history
      <4>1. RecordOK(schedules[s]) /\ ChangesInOrder(s) /\ H = schedules[s].history /\ x[3] \in DOMAIN H /\ n \in DOMAIN H /\ x[3] <= n
        BY <1>1, <1>2, <1>3, <3>1, <3>2
      <4>2. H[x[3]].date <= H[n].date
        BY ONLY <4>1, DatesGrow
      <4>3. QED
        BY <4>2
    <3>4. QED
      BY <3>1, <3>3, <1>1, <1>2, <1>3
  <2>4. QED
    BY <2>1, <2>2, <2>3
<1>5. QED
  BY <1>4, AllocatedIs

\* The support of a schedule on a day is what it brought by then, less what it handed
\* over by then, and what its allocations show on the ledger.
LEMMA SupportMade ==
  ASSUME WellFormed, Traced, NEW s \in DOMAIN schedules, InOrder(s), NEW c \in Controls, NEW d \in Days
  PROVE  /\ In(s, c, d) \in Int /\ Out(s, c, d) \in Int /\ Moved(s, c, d) \in Int
         /\ SupportOf(s, c, d) = In(s, c, d) - Out(s, c, d) + Moved(s, c, d)
<1> DEFINE r == schedules[s]
           A == AllocatedBy(s, d)
           Y == {x \in A : x[1] = "recognition"}
           f == [x \in A |-> OnLedger(x, c)]
           g == [x \in A |-> schedAllocs[x].amount]
           y == [x \in Y |-> schedAllocs[x].amount]
           k == NormalSign(r)
<1>1. /\ RecordOK(r) /\ r.kind \in Kinds /\ BaseTraced(s) /\ k \in {1, -1} /\ (r.kind = "depreciation" => k = 1)
      /\ Brought(r) \in Nat /\ StartsOn(r) \in Int /\ d \in Int
      /\ (r.kind # "depreciation" => Held(r) \in Nat)
  BY TracedIs, DaysFinite
<1>2. /\ IsFiniteSet(A) /\ A \subseteq AllocsOf(s) /\ IsFiniteSet(Y) /\ Y \subseteq A
      /\ \A x \in A : schedAllocs[x].schedule = s /\ schedAllocs[x].amount \in Nat /\ x[1] \in {"recognition", "change"}
  <2>1. IsFiniteSet(A) /\ A \subseteq AllocsOf(s)
    BY AllocatedIs
  <2>2. \A x \in A : schedAllocs[x].schedule = s /\ schedAllocs[x].amount \in Nat /\ x[1] \in {"recognition", "change"}
    BY <2>1, AllocsAre
  <2>3. QED
    BY <2>1, <2>2, FS_Subset
<1>3. \A x \in A : f[x] = IF r.kind = "depreciation" /\ x[1] = "change" THEN 0 ELSE Coef(r, c) * g[x]
  BY <1>2 DEF OnLedger, Shows
<1>4. \A x \in A : g[x] \in Nat /\ g[x] = schedAllocs[x].amount
  BY <1>2
<1>5. \A x \in Y : y[x] = g[x]
  BY <1>2
<1>6. FirstRecord(r) = Origin(r)
  BY <1>1, FirstIsOrigin DEF InOrder
<1>7. /\ RemainingAsOf(s, d) = IF Handed(s, d) THEN 0 ELSE Origin(r).base - SumFunctionOnSet(g, A)
      /\ RecognizedAsOf(s, d) = Origin(r).initial + SumFunctionOnSet(y, Y)
      /\ Moved(s, c, d) = SumFunctionOnSet(f, A)
  <2>1. SumFunction(g) = SumFunctionOnSet(g, A) /\ SumFunction(y) = SumFunctionOnSet(y, Y)
    BY SumAll
  <2>2. QED
    BY <2>1, <1>6 DEF RemainingAsOf, RecognizedAsOf, Moved
<1>8. Handed(s, d) => r.status = "superseded" /\ r.kind # "depreciation" /\ A = AllocsOf(s) /\ StartsOn(r) <= d
  BY HandedIs, AllBeforeHandover
<1>9. StartsOn(r) > d => A = {}
  <2>1. \A x \in A : StartsOn(r) <= d
    BY NothingBefore
  <2>2. QED
    BY <2>1, <1>1
<1>10. Handed(s, d) => AmountOf(AllocsOf(s)) = SumFunctionOnSet(g, A)
  BY <1>8 DEF AmountOf
<1>11. r.kind # "depreciation" => Origin(r).base = Brought(r) /\ Brought(r) = AmountOf(AllocsOf(s)) + Held(r)
  BY <1>1 DEF BaseTraced, Brought
<1>12. Handed(s, d) => Held(r) = r.transferred
  BY <1>8 DEF Held
<1>13. r.kind = "depreciation" => Origin(r).initial = 0 /\ Brought(r) = Amount
  BY <1>1 DEF BaseTraced, Brought
<1>14. SumFunctionOnSet(g, A) \in Int
  <2>1. \A x \in A : g[x] \in Int
    BY <1>4
  <2> HIDE DEF A, g
  <2>2. QED
    BY <2>1, <1>2, SumAt
<1>15. r.kind = "depreciation" => SumFunctionOnSet(f, A) = IF c = "Accumulated" THEN -SumFunctionOnSet(y, Y) ELSE 0
  <2> SUFFICES ASSUME r.kind = "depreciation" PROVE SumFunctionOnSet(f, A) = IF c = "Accumulated" THEN -SumFunctionOnSet(y, Y) ELSE 0
    OBVIOUS
  <2>1. Coef(r, c) = IF c = "Accumulated" THEN -1 ELSE 0
    BY <1>1 DEF Coef, CreditAccount
  <2>2. \A x \in A : f[x] = IF x[1] = "change" \/ c # "Accumulated" THEN 0 ELSE -g[x]
    BY <2>1, <1>3, <1>4
  <2>3. \A x \in A : f[x] \in Int
    BY <2>2, <1>4
  <2>4. \A x \in A \ Y : f[x] = 0
    BY <2>2, <1>2
  <2>5. \A x \in Y : x \in A /\ x[1] = "recognition" /\ y[x] \in Int
    BY <1>4, <1>5
  <2> HIDE DEF A, Y, f, g, y
  <2>6. SumFunctionOnSet(f, A) = SumFunctionOnSet(f, Y)
    BY <2>3, <2>4, <1>2, SumOver
  <2>7. CASE c = "Accumulated"
    <3>1. \A x \in Y : y[x] \in Int /\ f[x] = -y[x]
      BY <2>2, <2>5, <2>7, <1>5
    <3>2. SumFunctionOnSet(f, Y) = -SumFunctionOnSet(y, Y)
      BY <3>1, <1>2, SumNegated
    <3>3. QED
      BY <3>2, <2>6, <2>7
  <2>8. CASE c # "Accumulated"
    <3>1. \A x \in A : f[x] = 0
      BY <2>2, <2>8
    <3>2. QED
      BY <3>1, <2>8, <1>2, SumZero
  <2>9. QED
    BY <2>7, <2>8
<1>16. r.kind # "depreciation" => SumFunctionOnSet(f, A) = IF c = ControlOf(r) THEN (-k) * SumFunctionOnSet(g, A) ELSE 0
  <2> SUFFICES ASSUME r.kind # "depreciation"
               PROVE  SumFunctionOnSet(f, A) = IF c = ControlOf(r) THEN (-k) * SumFunctionOnSet(g, A) ELSE 0
    OBVIOUS
  <2>1. Coef(r, c) = IF c = ControlOf(r) THEN -k ELSE 0
    BY <1>1 DEF Coef, CreditAccount
  <2>2. -k \in Int /\ \A x \in A : g[x] \in Int
    BY <1>1, <1>4
  <2>3. CASE c = ControlOf(r)
    <3>1. \A x \in A : f[x] = (-k) * g[x]
      BY <2>1, <2>3, <1>3
    <3> HIDE DEF A, f, g, k
    <3>2. SumFunctionOnSet(f, A) = (-k) * SumFunctionOnSet(g, A)
      BY <3>1, <2>2, <1>2, SumScaled
    <3>3. QED
      BY <3>2, <2>3
  <2>4. CASE c # ControlOf(r)
    <3>1. \A x \in A : f[x] = 0
      <4>1. \A x \in A : f[x] = 0 * g[x]
        BY <2>1, <2>4, <1>3
      <4>2. QED
        BY <4>1, <2>2
    <3> HIDE DEF A, f, g, k
    <3>2. QED
      BY <3>1, <2>4, <1>2, SumZero
  <2>5. QED
    BY <2>3, <2>4
<1>17. StartsOn(r) > d => SumFunctionOnSet(f, A) = 0 /\ SumFunctionOnSet(g, A) = 0
  BY <1>9, SumEmpty
<1>18. SumFunctionOnSet(y, Y) \in Int
  <2>1. \A x \in Y : y[x] \in Int
    BY <1>4, <1>5
  <2> HIDE DEF Y, y
  <2>2. QED
    BY <2>1, <1>2, SumAt
<1>19. /\ In(s, c, d) = IF StartsOn(r) <= d /\ c = ControlOf(r) THEN k * Brought(r) ELSE 0
       /\ Out(s, c, d) = IF Handed(s, d) /\ c = ControlOf(r) THEN k * r.transferred ELSE 0
  BY DEF In, Out, StartOf
<1>20. SupportOf(s, c, d) =
         IF StartsOn(r) > d THEN 0
         ELSE CASE r.kind = "depreciation" /\ c = "Equipment" -> Amount
                [] r.kind = "depreciation" /\ c = "Accumulated" -> -RecognizedAsOf(s, d)
                [] r.kind # "depreciation" /\ c = ControlOf(r) -> k * RemainingAsOf(s, d)
                [] OTHER -> 0
  BY DEF SupportOf
<1>21. r.kind = "depreciation" => ControlOf(r) = "Equipment"
  BY DEF ControlOf
<1> DEFINE sg == SumFunctionOnSet(g, A)
           sf == SumFunctionOnSet(f, A)
           sy == SumFunctionOnSet(y, Y)
           t == r.transferred
           b == Brought(r)
<1>22. sg \in Int /\ sy \in Int /\ b \in Int /\ Amount \in Int /\ (Handed(s, d) => t \in Int)
  BY <1>1, <1>8, <1>12, <1>14, <1>18, SchedAssumption
<1>23. Handed(s, d) => b = sg + t
  BY <1>8, <1>10, <1>11, <1>12
<1>24. r.kind # "depreciation" => RemainingAsOf(s, d) = IF Handed(s, d) THEN 0 ELSE b - sg
  BY <1>7, <1>11
<1>25. r.kind = "depreciation" => RecognizedAsOf(s, d) = sy /\ b = Amount /\ k = 1 /\ ~Handed(s, d)
  BY <1>1, <1>7, <1>8, <1>13, <1>22
<1> HIDE DEF A, Y, f, g, y, k, sg, sf, sy, t, b, r
<1>26. CASE r.kind = "depreciation"
  <2>1. CASE StartsOn(r) > d
    BY <2>1, <1>1, <1>7, <1>17, <1>19, <1>20, <1>25, <1>26 DEF sf, sg
  <2>2. CASE StartsOn(r) <= d
    <3>1. SupportOf(s, c, d) = IF c = "Equipment" THEN Amount ELSE IF c = "Accumulated" THEN -sy ELSE 0
      BY <2>2, <1>1, <1>20, <1>25, <1>26
    <3>2. Moved(s, c, d) = IF c = "Accumulated" THEN -sy ELSE 0
      BY <1>7, <1>15, <1>26 DEF sy
    <3>3. In(s, c, d) = IF c = "Equipment" THEN Amount ELSE 0
      <4>1. 1 * b = Amount
        BY <1>25, <1>22, <1>26
      <4>2. QED
        BY <4>1, <2>2, <1>19, <1>21, <1>25, <1>26 DEF b
    <3>4. Out(s, c, d) = 0
      BY <1>19, <1>25, <1>26
    <3>5. QED
      BY <3>1, <3>2, <3>3, <3>4, <1>22
  <2>3. QED
    BY <2>1, <2>2, <1>1
<1>27. CASE r.kind # "depreciation"
  <2>1. Moved(s, c, d) = IF c = ControlOf(r) THEN (-k) * sg ELSE 0
    BY <1>7, <1>16, <1>27 DEF sg
  <2>2. CASE c # ControlOf(r)
    <3>1. In(s, c, d) = 0 /\ Out(s, c, d) = 0 /\ Moved(s, c, d) = 0
      BY <2>1, <2>2, <1>19
    <3>2. SupportOf(s, c, d) = 0
      BY <2>2, <1>20, <1>27
    <3>3. QED
      BY <3>1, <3>2
  <2>3. CASE c = ControlOf(r)
    <3>1. In(s, c, d) = IF StartsOn(r) <= d THEN k * b ELSE 0
      BY <2>3, <1>19 DEF b
    <3>2. Out(s, c, d) = IF Handed(s, d) THEN k * t ELSE 0
      BY <2>3, <1>19 DEF t
    <3>3. SupportOf(s, c, d) = IF StartsOn(r) > d THEN 0 ELSE IF Handed(s, d) THEN k * 0 ELSE k * (b - sg)
      BY <2>3, <1>20, <1>24, <1>27
    <3>4. StartsOn(r) > d => sg = 0 /\ ~Handed(s, d)
      BY <1>1, <1>8, <1>17 DEF sg
    <3>5. CASE k = 1
      BY <3>1, <3>2, <3>3, <3>4, <3>5, <2>1, <2>3, <1>1, <1>22, <1>23
    <3>6. CASE k = -1
      BY <3>1, <3>2, <3>3, <3>4, <3>6, <2>1, <2>3, <1>1, <1>22, <1>23
    <3>7. QED
      BY <3>5, <3>6, <1>1
  <2>4. QED
    BY <2>2, <2>3
<1>28. QED
  BY <1>26, <1>27

(* What the schedules brought and handed over, all together. *)
InAll(c, d) == [s \in DOMAIN schedules |-> In(s, c, d)]
OutAll(c, d) == [s \in DOMAIN schedules |-> Out(s, c, d)]
MovedAll(c, d) == [s \in DOMAIN schedules |-> Moved(s, c, d)]
Roots == {s \in DOMAIN schedules : schedules[s].supersedes = {}}
ReclassRoots == {s \in DOMAIN schedules : ReclassOf(s) \in DOMAIN schedLedger}
LinesOn(c) == [e \in DOMAIN schedLedger |-> schedLedger[e].lines[c]]
EntriesBy(d) == {e \in DOMAIN schedLedger : schedLedger[e].date <= d}
AllocsBy(d) == {x \in DOMAIN schedAllocs : schedAllocs[x].date <= d}
ReclassesBy(d) == {e \in EntriesBy(d) : \E s \in DOMAIN schedules : e = ReclassOf(s)}
OnLedgerBy(c, d) == SumFunctionOnSet([x \in AllocsBy(d) |-> OnLedger(x, c)], AllocsBy(d))
PaidBy(c, d) == IF Payment \in EntriesBy(d) THEN Paid(c) ELSE 0

\* What a replacement brings is what the replaced schedule handed over on the same day.
LEMMA BringsHanded ==
  ASSUME WellFormed, Traced, NEW n \in DOMAIN schedules, NEW s \in DOMAIN schedules, schedules[n].supersedes = {s},
         NEW c, NEW d \in Days
  PROVE  schedules[s].status = "superseded" /\ In(n, c, d) = Out(s, c, d)
<1> DEFINE q == schedules[n]
           r == schedules[s]
<1>0. schedules[n].supersedes # {}
  OBVIOUS
<1>1. PICK o \in DOMAIN schedules :
         /\ schedules[n].supersedes = {o} /\ schedules[o].status = "superseded" /\ schedules[o].kind = schedules[n].kind
         /\ schedules[n].effectiveFrom = LastNote(schedules[o]).date
         /\ Origin(schedules[n]).base = schedules[o].transferred
  BY <1>0 DEF Traced, HandoversTraced
<1>2. o = s
  BY <1>1
<1>3. /\ r.status = "superseded" /\ r.kind = q.kind /\ q.effectiveFrom = LastNote(r).date
      /\ Origin(q).base = r.transferred
  BY <1>1, <1>2
<1>4. q.effectiveFrom # 0
  BY <1>0 DEF Traced, HandoversTraced
<1>5. StartsOn(q) = LastNote(r).date
  BY <1>3, <1>4 DEF StartsOn
<1>6. /\ BaseTraced(s) /\ DatesTraced(s) /\ DOMAIN r.history = 1..Len(r.history) /\ Len(r.history) \in Nat
      /\ HistoryOK(r)
  BY TracedIs
<1>7. r.history # <<>> /\ r.kind # "depreciation"
  BY <1>3, <1>6 DEF DatesTraced, BaseTraced
<1>8. Len(r.history) \in DOMAIN r.history
  <2>1. PICK V : r.history \in Seq(V)
    BY <1>6 DEF HistoryOK
  <2>2. Len(r.history) # 0
    BY <2>1, <1>7
  <2>3. QED
    BY <2>2, <1>6
<1>9. Handed(s, d) <=> LastNote(r).date <= d
  <2>1. ASSUME Handed(s, d) PROVE LastNote(r).date <= d
    BY <2>1, HandedIs
  <2>2. ASSUME LastNote(r).date <= d PROVE Handed(s, d)
    <3>1. r.history[Len(r.history)].action = "supersede"
      BY <1>3, <1>6, <1>8 DEF DatesTraced
    <3>2. QED
      BY <3>1, <2>2, <1>8 DEF Handed, LastNote
  <2>3. QED
    BY <2>1, <2>2
<1>10. Brought(q) = r.transferred
  BY <1>3, <1>7 DEF Brought
<1>11. ControlOf(q) = ControlOf(r) /\ NormalSign(q) = NormalSign(r)
  BY <1>3 DEF ControlOf, NormalSign
<1>12. QED
  BY <1>3, <1>5, <1>9, <1>10, <1>11 DEF In, Out, StartOf

\* Replacements and what they replace cancel.
LEMMA HandoversCancel ==
  ASSUME WellFormed, Traced, \A s \in DOMAIN schedules : InOrder(s), NEW c \in Controls, NEW d \in Days
  PROVE  SumFunctionOnSet(InAll(c, d), DOMAIN schedules \ Roots) = SumFunctionOnSet(OutAll(c, d), DOMAIN schedules)
<1> DEFINE D == DOMAIN schedules
           N == DOMAIN schedules \ Roots
           S == {s \in D : schedules[s].status = "superseded"}
           m == [n \in N |-> CHOOSE s \in D : schedules[n].supersedes = {s}]
           f == InAll(c, d)
           g == OutAll(c, d)
<1>1. IsFiniteSet(D) /\ IsFiniteSet(N) /\ N \subseteq D
  <2>1. D \subseteq Schedules
    BY DEF WellFormed, RecordsOK
  <2>2. IsFiniteSet(D)
    BY <2>1, SchedAssumption, FS_Subset
  <2>3. N \subseteq D
    OBVIOUS
  <2>4. QED
    BY <2>2, <2>3, FS_Subset
<1>2. \A s \in D : f[s] = In(s, c, d) /\ g[s] = Out(s, c, d) /\ f[s] \in Int /\ g[s] \in Int
  <2> TAKE s \in D
  <2>1. In(s, c, d) \in Int /\ Out(s, c, d) \in Int
    BY SupportMade
  <2>2. QED
    BY <2>1 DEF InAll, OutAll
<1>3. \A n \in N : m[n] \in D /\ schedules[n].supersedes = {m[n]}
  <2> TAKE n \in N
  <2>1. n \in DOMAIN schedules /\ schedules[n].supersedes # {}
    BY DEF Roots
  <2>2. PICK s \in D : schedules[n].supersedes = {s}
    BY <2>1 DEF Traced, HandoversTraced
  <2>3. QED
    BY <2>2
<1>4. \A x, y \in N : m[x] = m[y] => x = y
  <2> SUFFICES ASSUME NEW x \in N, NEW y \in N, m[x] = m[y] PROVE x = y
    OBVIOUS
  <2>1. schedules[x].supersedes = schedules[y].supersedes /\ schedules[x].supersedes # {} /\ x \in D /\ y \in D
    BY <1>3
  <2>2. QED
    BY <2>1 DEF Traced, HandoversTraced
<1>5. \A n \in N : schedules[m[n]].status = "superseded" /\ f[n] \in Int /\ f[n] = g[m[n]]
  <2> TAKE n \in N
  <2>1. n \in DOMAIN schedules /\ m[n] \in DOMAIN schedules /\ schedules[n].supersedes = {m[n]}
    BY <1>3
  <2> DEFINE s == m[n]
  <2> HIDE DEF m, f, g
  <2>2. schedules[s].status = "superseded" /\ In(n, c, d) = Out(s, c, d)
    BY <2>1, BringsHanded
  <2>3. QED
    BY <2>1, <2>2, <1>2
<1>6. S = {m[n] : n \in N}
  <2>1. ASSUME NEW s \in S PROVE \E n \in N : s = m[n]
    <3>1. PICK n \in D : schedules[n].supersedes = {s}
      BY DEF Traced, HandoversTraced
    <3>2. n \in N
      BY <3>1 DEF Roots
    <3>3. s = m[n]
      BY <3>1, <3>2, <1>3
    <3>4. QED
      BY <3>2, <3>3
  <2>2. \A n \in N : m[n] \in S
    BY <1>3, <1>5
  <2> HIDE DEF S, m, N
  <2>3. QED
    BY <2>1, <2>2
<1>7. \A s \in D \ S : g[s] = 0
  <2> TAKE s \in D \ S
  <2>1. ~Handed(s, d)
    BY HandedIs
  <2>2. QED
    BY <2>1, <1>2 DEF Out
<1>8. S \subseteq D
  OBVIOUS
<1> HIDE DEF D, N, S, m, f, g
<1>9. SumFunctionOnSet(g, {m[n] : n \in N}) = SumFunctionOnSet(f, N)
  BY <1>1, <1>4, <1>5, SumImage
<1>10. SumFunctionOnSet(g, D) = SumFunctionOnSet(g, S)
  <2>1. \A s \in D : g[s] \in Int
    BY <1>2
  <2>2. QED
    BY <2>1, <1>1, <1>7, <1>8, SumOver
<1>11. SumFunctionOnSet(f, N) = SumFunctionOnSet(g, D)
  BY <1>6, <1>9, <1>10
<1>12. QED
  BY <1>11 DEF D, N, f, g

\* The reclassifications of a day are what the schedules they fund brought.
LEMMA ReclassesFund ==
  ASSUME WellFormed, Traced, \A s \in DOMAIN schedules : InOrder(s), NEW c \in Controls, NEW d \in Days
  PROVE  /\ ReclassRoots \subseteq Roots
         /\ SumFunctionOnSet(LinesOn(c), ReclassesBy(d)) = SumFunctionOnSet(InAll(c, d), ReclassRoots)
<1> DEFINE G == ReclassRoots
           H == {s \in G : schedules[s].originDate <= d}
           m == [s \in H |-> ReclassOf(s)]
           f == InAll(c, d)
           g == LinesOn(c)
<1>1. \A s \in G : s \in DOMAIN schedules /\ ReclassOf(s) \in DOMAIN schedLedger /\ Reclassed(s)
  BY DEF Traced, FundingTraced, ReclassRoots
<1>2. G \subseteq Roots
  BY <1>1 DEF Roots, Reclassed
<1>3. IsFiniteSet(G) /\ IsFiniteSet(H) /\ H \subseteq G
  <2>1. G \subseteq Schedules
    BY DEF ReclassRoots, WellFormed, RecordsOK
  <2>2. IsFiniteSet(G)
    BY <2>1, SchedAssumption, FS_Subset
  <2>3. H \subseteq G
    OBVIOUS
  <2>4. QED
    BY <2>2, <2>3, FS_Subset
<1>4. ASSUME NEW s \in G
      PROVE  /\ schedLedger[ReclassOf(s)].date = schedules[s].originDate
             /\ f[s] = IF schedules[s].originDate <= d THEN g[ReclassOf(s)] ELSE 0
             /\ f[s] \in Int
  <2> DEFINE r == schedules[s]
  <2>1. s \in DOMAIN schedules /\ ReclassOf(s) \in DOMAIN schedLedger /\ Reclassed(s) /\ InOrder(s)
    BY <1>1
  <2>2. schedLedger[ReclassOf(s)].date = r.originDate
    BY <2>1 DEF InOrder, ReclassOf
  <2>3. r.supersedes = {} /\ Brought(r) = Amount /\ schedLedger[ReclassOf(s)].lines[c] = Funds(r, c)
    BY <2>1 DEF Reclassed
  <2>4. r.effectiveFrom = 0
    BY <2>1, <2>3 DEF Traced, HandoversTraced
  <2>5. StartsOn(r) = r.originDate
    BY <2>4 DEF StartsOn
  <2>6. StartOf(s, c) = g[ReclassOf(s)]
    BY <2>1, <2>3 DEF StartOf, Funds, LinesOn
  <2>7. f[s] = In(s, c, d) /\ f[s] \in Int
    BY <2>1, SupportMade DEF InAll
  <2>8. In(s, c, d) = IF r.originDate <= d THEN g[ReclassOf(s)] ELSE 0
    BY <2>5, <2>6 DEF In
  <2>9. QED
    BY <2>2, <2>7, <2>8
<1>5. ReclassesBy(d) = {m[s] : s \in H}
  <2>1. ASSUME NEW e \in ReclassesBy(d) PROVE \E s \in H : e = m[s]
    <3>1. PICK s \in DOMAIN schedules : e = ReclassOf(s)
      BY DEF ReclassesBy
    <3>2. e \in DOMAIN schedLedger /\ schedLedger[e].date <= d
      BY DEF ReclassesBy, EntriesBy
    <3>3. s \in G
      BY <3>1, <3>2 DEF ReclassRoots
    <3>4. s \in H
      BY <3>1, <3>2, <3>3, <1>4
    <3>5. QED
      BY <3>1, <3>4
  <2>2. ASSUME NEW s \in H PROVE m[s] \in ReclassesBy(d)
    <3>1. s \in G /\ schedLedger[ReclassOf(s)].date <= d /\ m[s] = ReclassOf(s)
      BY <1>4
    <3>2. QED
      BY <3>1, <1>1 DEF ReclassesBy, EntriesBy
  <2> HIDE DEF m, H
  <2>3. QED
    BY <2>1, <2>2
<1>6. \A x, y \in H : m[x] = m[y] => x = y
  BY DEF ReclassOf, Id
<1>7. \A s \in H : f[s] \in Int /\ f[s] = g[m[s]]
  BY <1>4
<1>8. \A s \in G \ H : f[s] = 0
  BY <1>4
<1>9. \A s \in G : f[s] \in Int
  BY <1>4
<1> HIDE DEF G, H, m, f, g
<1>10. SumFunctionOnSet(g, {m[s] : s \in H}) = SumFunctionOnSet(f, H)
  BY <1>3, <1>6, <1>7, SumImage
<1>11. SumFunctionOnSet(f, G) = SumFunctionOnSet(f, H)
  BY <1>3, <1>8, <1>9, SumOver
<1>12. SumFunctionOnSet(g, ReclassesBy(d)) = SumFunctionOnSet(f, G)
  BY <1>5, <1>10, <1>11
<1>13. QED
  BY <1>2, <1>12 DEF G, f, g

\* A payment that is linked as a whole is what the other schedules brought.
LEMMA PaymentFunds ==
  ASSUME WellFormed, Traced, \A s \in DOMAIN schedules : InOrder(s), Payment \in DOMAIN schedLedger,
         NEW c \in Controls, Unlinked(c) = 0, NEW d \in Days
  PROVE  SumFunctionOnSet(InAll(c, d), Roots \ ReclassRoots) = PaidBy(c, d)
<1> DEFINE F == Roots \ ReclassRoots
           C == FundedOn(c)
           f == InAll(c, d)
           t == [s \in C |-> Taken(s)]
           h == [s \in Roots |-> IF s \in C THEN Taken(s) ELSE 0]
           w == schedLedger[Payment].date
<1>1. IsFiniteSet(Roots) /\ F \subseteq Roots /\ C \subseteq Roots /\ IsFiniteSet(F) /\ IsFiniteSet(C)
  <2>1. Roots \subseteq Schedules
    BY DEF WellFormed, RecordsOK, Roots
  <2>2. IsFiniteSet(Roots)
    BY <2>1, SchedAssumption, FS_Subset
  <2>3. F \subseteq Roots /\ C \subseteq Roots
    BY DEF FundedOn, Roots
  <2>4. QED
    BY <2>2, <2>3, FS_Subset
<1>2. /\ Paid(c) = SumFunctionOnSet(t, C) /\ Paid(c) \in Int
      /\ \A s \in C : Taken(s) \in Int
  <2>1. /\ Unlinked(c) = Paid(c) - SumFunctionOnSet([s \in FundedOn(c) |-> Taken(s)], FundedOn(c))
        /\ \A s \in FundedOn(c) : Taken(s) \in Int
    BY UnlinkedIs
  <2>2. Paid(c) \in Int
    <3>1. c \in ScheduleAccounts
      BY DEF Controls, ScheduleAccounts
    <3>2. Paid(c) \in {0, Amount, -Amount} /\ Amount \in Int
      BY <3>1, SchedAssumption DEF WellFormed, LedgerOK
    <3>3. QED
      BY <3>2
  <2>3. SumFunctionOnSet(t, C) \in Int
    <3>1. \A s \in C : t[s] \in Int
      BY <2>1
    <3> HIDE DEF t, C
    <3>2. QED
      BY <3>1, <1>1, SumAt
  <2>4. SumFunctionOnSet(t, C) = SumFunctionOnSet([s \in FundedOn(c) |-> Taken(s)], FundedOn(c))
    OBVIOUS
  <2> HIDE DEF t, C
  <2>5. Paid(c) = SumFunctionOnSet(t, C)
    BY <2>1, <2>2, <2>3, <2>4
  <2>6. QED
    BY <2>1, <2>2, <2>5 DEF C
<1>3. w \in Int /\ d \in Int
  <2>1. w \in Days
    BY DEF WellFormed, LedgerOK, EntryOK
  <2>2. QED
    BY <2>1, DaysFinite
<1>4. ASSUME NEW s \in F PROVE f[s] \in Int /\ f[s] = IF w <= d THEN h[s] ELSE 0
  <2> DEFINE r == schedules[s]
  <2>1. s \in DOMAIN schedules /\ r.supersedes = {} /\ ReclassOf(s) \notin DOMAIN schedLedger /\ s \in Roots
    BY DEF Roots, ReclassRoots
  <2>2. OnControl(r) /\ r.originDate = w /\ Brought(r) = r.reserved
    BY <2>1 DEF Traced, FundingTraced, Funded
  <2>3. r.effectiveFrom = 0
    BY <2>1 DEF Traced, HandoversTraced
  <2>4. StartsOn(r) = w
    BY <2>2, <2>3 DEF StartsOn
  <2>5. StartOf(s, c) = h[s]
    <3>1. h[s] = IF s \in C THEN Taken(s) ELSE 0
      BY <2>1
    <3>2. s \in C <=> ControlOf(r) = c
      BY <2>1 DEF FundedOn
    <3>3. Taken(s) = NormalSign(r) * r.reserved
      BY <2>2 DEF Taken
    <3> HIDE DEF h, C
    <3>4. QED
      BY <3>1, <3>2, <3>3, <2>2 DEF StartOf
  <2>6. f[s] = In(s, c, d) /\ f[s] \in Int
    BY <2>1, SupportMade DEF InAll
  <2>7. QED
    BY <2>4, <2>5, <2>6 DEF In
<1>5. \A s \in Roots \ F : h[s] = 0
  <2> TAKE s \in Roots \ F
  <2>1. Reclassed(s)
    BY DEF ReclassRoots, Roots, Traced, FundingTraced
  <2>2. Taken(s) = 0
    BY <2>1 DEF Reclassed, Taken
  <2>3. QED
    BY <2>2
<1>6. \A s \in Roots : h[s] \in Int
  BY <1>2
<1>7. \A s \in Roots \ C : h[s] = 0
  OBVIOUS
<1>8. \A s \in C : h[s] = t[s]
  BY <1>1
<1>9. PaidBy(c, d) = IF w <= d THEN Paid(c) ELSE 0
  BY DEF PaidBy, EntriesBy
<1> HIDE DEF F, C, f, t, h, w
<1>10. SumFunctionOnSet(h, Roots) = SumFunctionOnSet(h, F)
  BY <1>1, <1>5, <1>6, SumOver
<1>11. SumFunctionOnSet(h, Roots) = SumFunctionOnSet(h, C)
  BY <1>1, <1>6, <1>7, SumOver
<1>12. SumFunctionOnSet(h, C) = SumFunctionOnSet(t, C)
  BY <1>1, <1>8, SumSame
<1>13. CASE w <= d
  <2>1. \A s \in F : f[s] = h[s]
    BY <1>4, <1>13
  <2>2. SumFunctionOnSet(f, F) = SumFunctionOnSet(h, F)
    BY <2>1, <1>1, SumSame
  <2>3. SumFunctionOnSet(f, F) = PaidBy(c, d)
    BY <2>2, <1>2, <1>9, <1>10, <1>11, <1>12, <1>13
  <2>4. QED
    BY <2>3 DEF f, F
<1>14. CASE ~(w <= d)
  <2>1. \A s \in F : f[s] = 0
    BY <1>4, <1>14
  <2>2. SumFunctionOnSet(f, F) = 0
    BY <2>1, <1>1, SumZero
  <2>3. QED
    BY <2>2, <1>9, <1>14 DEF f, F
<1>15. QED
  BY <1>13, <1>14

\* What all allocations of a day show, taken schedule by schedule.
LEMMA MovedTogether ==
  ASSUME WellFormed, NEW c \in Controls, NEW d \in Days
  PROVE  /\ IsFiniteSet(AllocsBy(d)) /\ \A x \in AllocsBy(d) : OnLedger(x, c) \in Int
         /\ OnLedgerBy(c, d) = SumFunctionOnSet(MovedAll(c, d), DOMAIN schedules)
<1> DEFINE X == AllocsBy(d)
           D == DOMAIN schedules
           f == [x \in X |-> OnLedger(x, c)]
           key == [x \in X |-> schedAllocs[x].schedule]
           h == MovedAll(c, d)
           Y == [s \in D |-> AllocatedBy(s, d)]
<1>1. IsFiniteSet(X) /\ IsFiniteSet(D)
  <2>1. X \subseteq DOMAIN schedAllocs /\ IsFiniteSet(DOMAIN schedAllocs)
    BY DEF AllocsBy, WellFormed, AllocsOK
  <2>2. D \subseteq Schedules
    BY DEF WellFormed, RecordsOK
  <2>3. QED
    BY <2>1, <2>2, SchedAssumption, FS_Subset
<1>2. \A x \in X : key[x] \in D /\ OnLedger(x, c) \in Int
  <2> TAKE x \in X
  <2>1. x \in AllocsOf(schedAllocs[x].schedule)
    BY DEF AllocsBy, AllocsOf
  <2> DEFINE s == schedAllocs[x].schedule
  <2>2. s \in D /\ schedAllocs[x].amount \in Nat
    BY <2>1, AllocsAre
  <2>3. schedules[s].kind \in Kinds
    BY <2>2 DEF WellFormed, RecordsOK, RecordOK
  <2>4. Coef(schedules[s], c) \in Int
    BY <2>3, RecognitionLinesAre
  <2>5. Coef(schedules[s], c) * schedAllocs[x].amount \in Int
    BY <2>2, <2>4
  <2>6. OnLedger(x, c) \in Int
    BY <2>5 DEF OnLedger, Shows
  <2>7. QED
    BY <2>2, <2>6
<1>3. \A x \in X : f[x] \in Int
  BY <1>2
<1>4. \A s \in D : h[s] = SumFunctionOnSet(f, Y[s]) /\ \A x : x \in Y[s] <=> x \in X /\ key[x] = s
  <2> TAKE s \in D
  <2> DEFINE A == AllocatedBy(s, d)
             g == [x \in A |-> OnLedger(x, c)]
  <2>1. A = {x \in X : key[x] = s} /\ A \subseteq X
    BY DEF AllocatedBy, AllocsBy
  <2>2. \A x \in A : g[x] = f[x]
    BY <2>1
  <2>3. h[s] = SumFunctionOnSet(g, A)
    BY DEF MovedAll, Moved
  <2>4. IsFiniteSet(A)
    BY <2>1, <1>1, FS_Subset
  <2>5. SumFunctionOnSet(g, A) = SumFunctionOnSet(f, A)
    <3> HIDE DEF A, g, f
    <3>1. QED
      BY <2>2, <2>4, SumSame
  <2>6. QED
    BY <2>1, <2>3, <2>5
<1>5. OnLedgerBy(c, d) = SumFunctionOnSet(f, X)
  BY DEF OnLedgerBy
<1>6. \A x \in X : key[x] \in D
  BY <1>2
<1> HIDE DEF X, D, f, key, h, Y
<1>7. SumFunctionOnSet(f, X) = SumFunctionOnSet(h, D)
  BY <1>1, <1>3, <1>4, <1>6, SumByKey
<1>8. QED
  BY <1>1, <1>2, <1>5, <1>7 DEF X, D, f, h

\* The balance of a day: the payment, the reclassifications, and the entries of allocations.
LEMMA BalanceMade ==
  ASSUME WellFormed, Traced, NEW c \in Controls, NEW d \in Days
  PROVE  /\ BalanceAsOf(c, d) = PaidBy(c, d) + SumFunctionOnSet(LinesOn(c), ReclassesBy(d)) + OnLedgerBy(c, d)
         /\ SumFunctionOnSet(LinesOn(c), ReclassesBy(d)) \in Int /\ PaidBy(c, d) \in Int /\ OnLedgerBy(c, d) \in Int
<1> DEFINE E == EntriesBy(d)
           P == E \cap {Payment}
           R == ReclassesBy(d)
           A == E \cap DOMAIN schedAllocs
           X == AllocsBy(d)
           g == LinesOn(c)
           b == [e \in E |-> schedLedger[e].lines[c]]
           f == [x \in X |-> OnLedger(x, c)]
<1>1. c \in ScheduleAccounts
  BY DEF Controls, ScheduleAccounts
<1>2. /\ E \subseteq DOMAIN schedLedger /\ IsFiniteSet(E)
      /\ \A e \in E : g[e] = schedLedger[e].lines[c] /\ g[e] \in Int /\ b[e] = g[e]
  <2>1. E \subseteq DOMAIN schedLedger /\ IsFiniteSet(DOMAIN schedLedger)
    BY DEF EntriesBy, WellFormed, LedgerOK
  <2>2. IsFiniteSet(E)
    BY <2>1, FS_Subset
  <2>3. \A e \in E : g[e] = schedLedger[e].lines[c] /\ b[e] = g[e]
    BY <2>1 DEF LinesOn
  <2>4. \A e \in E : schedLedger[e].lines[c] \in Int
    BY <2>1, <1>1 DEF WellFormed, LedgerOK, EntryOK
  <2>5. QED
    BY <2>1, <2>2, <2>3, <2>4
<1>3. \A x \in DOMAIN schedAllocs : x[1] \in {"recognition", "change"}
  <2> TAKE x \in DOMAIN schedAllocs
  <2>1. x \in AllocsOf(schedAllocs[x].schedule)
    BY DEF AllocsOf
  <2>2. QED
    BY <2>1, AllocsAre
<1>4. Payment[1] = "payment" /\ \A s : ReclassOf(s)[1] = "reclass"
  BY DEF Payment, ReclassOf, Id
<1>5. E = (P \union R) \union A /\ P \cap R = {} /\ (P \union R) \cap A = {}
  <2>1. \A e \in E : e = Payment \/ e \in R \/ e \in DOMAIN schedAllocs
    <3> TAKE e \in E
    <3>1. e = Payment \/ (\E s \in DOMAIN schedules : e = Id("reclass", s, 0, 0)) \/ e \in DOMAIN schedAllocs
      BY <1>2 DEF WellFormed, LedgerOK
    <3>2. QED
      BY <3>1 DEF ReclassesBy, ReclassOf
  <2>2. R \subseteq E /\ \A e \in R : e[1] = "reclass"
    BY <1>4 DEF ReclassesBy
  <2>3. QED
    BY <2>1, <2>2, <1>3, <1>4
<1>6. IsFiniteSet(P) /\ IsFiniteSet(R) /\ IsFiniteSet(A) /\ P \subseteq E /\ R \subseteq E /\ A \subseteq E
  <2>1. P \subseteq E /\ R \subseteq E /\ A \subseteq E
    BY <1>5
  <2>2. QED
    BY <2>1, <1>2, FS_Subset
<1>7. A \subseteq X /\ \A x \in A : g[x] = f[x]
  <2>1. \A x \in A : schedLedger[x].date = schedAllocs[x].date /\ schedLedger[x].lines[c] = OnLedger(x, c)
    BY <1>2 DEF Traced, EntriesTraced
  <2>2. \A x \in A : x \in X
    BY <2>1 DEF EntriesBy, AllocsBy
  <2>3. \A x \in A : g[x] = schedLedger[x].lines[c]
    BY <1>2
  <2>4. QED
    BY <2>1, <2>2, <2>3
<1>8. \A x \in X \ A : f[x] = 0
  <2> TAKE x \in X \ A
  <2>1. x \in DOMAIN schedAllocs /\ schedAllocs[x].date <= d
    BY DEF AllocsBy
  <2>2. CASE x \in DOMAIN schedLedger
    <3>1. schedLedger[x].date = schedAllocs[x].date
      BY <2>1, <2>2 DEF Traced, EntriesTraced
    <3>2. x \in A
      BY <3>1, <2>1, <2>2 DEF EntriesBy
    <3>3. QED
      BY <3>2
  <2>3. CASE x \notin DOMAIN schedLedger
    <3>1. OnLedger(x, c) = 0
      BY <2>1, <2>3 DEF Traced, EntriesTraced
    <3>2. QED
      BY <3>1
  <2>4. QED
    BY <2>2, <2>3
<1>9. IsFiniteSet(X) /\ \A x \in X : f[x] \in Int
  <2>1. IsFiniteSet(AllocsBy(d)) /\ \A x \in AllocsBy(d) : OnLedger(x, c) \in Int
    BY MovedTogether
  <2>2. QED
    BY <2>1
<1>10. OnLedgerBy(c, d) = SumFunctionOnSet(f, X)
  BY DEF OnLedgerBy
<1>11. BalanceAsOf(c, d) = SumFunctionOnSet(b, E)
  <2>1. BalanceAsOf(c, d) = SumFunction(b)
    BY DEF BalanceAsOf, EntriesBy
  <2>2. QED
    BY <2>1, SumAll
<1>12. SumFunctionOnSet(g, P) = PaidBy(c, d) /\ PaidBy(c, d) \in Int
  <2>1. CASE Payment \in E
    <3>1. P = {Payment} /\ g[Payment] \in Int /\ g[Payment] = Paid(c) /\ PaidBy(c, d) = Paid(c)
      BY <2>1, <1>2 DEF Paid, PaidBy
    <3> HIDE DEF g, P
    <3>2. SumFunctionOnSet(g, {Payment}) = g[Payment]
      BY <3>1, SumOne
    <3>3. QED
      BY <3>1, <3>2
  <2>2. CASE Payment \notin E
    <3>1. P = {} /\ PaidBy(c, d) = 0
      BY <2>2 DEF PaidBy
    <3> HIDE DEF g, P
    <3>2. QED
      BY <3>1, SumEmpty
  <2>3. QED
    BY <2>1, <2>2
<1>13. \A e \in E : g[e] \in Int /\ b[e] = g[e]
  BY <1>2
<1> HIDE DEF E, P, R, A, X, g, b, f
<1>14. SumFunctionOnSet(b, E) = SumFunctionOnSet(g, E)
  BY <1>2, <1>13, SumSame
<1>15. SumFunctionOnSet(g, E) = SumFunctionOnSet(g, P \union R) + SumFunctionOnSet(g, A)
  <2>1. IsFiniteSet(P \union R)
    BY <1>6, FS_Union
  <2>2. \A e \in (P \union R) \union A : g[e] \in Int
    BY <1>5, <1>13
  <2>3. SumFunctionOnSet(g, (P \union R) \union A) = SumFunctionOnSet(g, P \union R) + SumFunctionOnSet(g, A)
    BY ONLY <2>1, <2>2, <1>5, <1>6, SumUnion
  <2>4. QED
    BY <2>3, <1>5
<1>16. SumFunctionOnSet(g, P \union R) = SumFunctionOnSet(g, P) + SumFunctionOnSet(g, R)
  <2>1. \A e \in P \union R : g[e] \in Int
    BY <1>6, <1>13
  <2>2. QED
    BY ONLY <2>1, <1>5, <1>6, SumUnion
<1>17. SumFunctionOnSet(g, A) = SumFunctionOnSet(f, X)
  <2>1. SumFunctionOnSet(g, A) = SumFunctionOnSet(f, A)
    BY <1>6, <1>7, SumSame
  <2>2. SumFunctionOnSet(f, X) = SumFunctionOnSet(f, A)
    BY <1>7, <1>8, <1>9, SumOver
  <2>3. QED
    BY <2>1, <2>2
<1>18. SumFunctionOnSet(g, R) \in Int /\ SumFunctionOnSet(f, X) \in Int
  <2>1. \A e \in R : g[e] \in Int
    BY <1>6, <1>13
  <2>2. SumFunctionOnSet(g, R) \in Int
    BY <2>1, <1>6, SumAt
  <2>3. SumFunctionOnSet(f, X) \in Int
    BY <1>9, SumAt
  <2>4. QED
    BY <2>2, <2>3
<1>19. BalanceAsOf(c, d) = SumFunctionOnSet(g, P) + SumFunctionOnSet(g, R) + SumFunctionOnSet(f, X)
  BY <1>11, <1>14, <1>15, <1>16, <1>17
<1>20. QED
  BY <1>10, <1>12, <1>18, <1>19 DEF R, g

--------------------------------------------------------------------------------
\* Every account that is held to its support matches it, on every day.
LEMMA SupportsMatch ==
  ASSUME SchedInv, Traced, \A c \in Controls : Unlinked(c) = 0, \A s \in DOMAIN schedules : InOrder(s)
  PROVE  SupportMatchesLedger
<1> SUFFICES ASSUME NEW c \in ScheduleAccounts, NEW d \in Days, Backed(c, d)
             PROVE  Support(c, d) = BalanceAsOf(c, d)
  BY DEF SupportMatchesLedger, ReconciledAsOf
<1> DEFINE D == DOMAIN schedules
           sup == [s \in D |-> SupportOf(s, c, d)]
           in == InAll(c, d)
           out == OutAll(c, d)
           mov == MovedAll(c, d)
           neg == [s \in D |-> -out[s]]
           both == [s \in D |-> in[s] + neg[s]]
<1>1. WellFormed
  BY DEF SchedInv
<1>2. PICK z \in D : c \in {ControlOf(schedules[z]), CreditAccount(schedules[z])}
  BY DEF Backed
<1>3. c \in Controls
  <2>1. schedules[z].kind \in Kinds
    BY <1>1 DEF WellFormed, RecordsOK, RecordOK
  <2>2. QED
    BY <1>2, <2>1 DEF Kinds, ControlOf, CreditAccount, Controls
<1>4. Payment \in DOMAIN schedLedger /\ Unlinked(c) = 0
  BY <1>1, <1>2, <1>3 DEF WellFormed, LedgerOK
<1>5. IsFiniteSet(D)
  <2>1. D \subseteq Schedules
    BY <1>1 DEF WellFormed, RecordsOK
  <2>2. QED
    BY <2>1, SchedAssumption, FS_Subset
<1>6. \A s \in D : /\ in[s] \in Int /\ out[s] \in Int /\ mov[s] \in Int
                   /\ sup[s] = in[s] - out[s] + mov[s]
  <2> TAKE s \in D
  <2>1. /\ In(s, c, d) \in Int /\ Out(s, c, d) \in Int /\ Moved(s, c, d) \in Int
        /\ SupportOf(s, c, d) = In(s, c, d) - Out(s, c, d) + Moved(s, c, d)
    BY <1>1, <1>3, SupportMade
  <2>2. in[s] = In(s, c, d) /\ out[s] = Out(s, c, d) /\ mov[s] = Moved(s, c, d)
    BY DEF InAll, OutAll, MovedAll
  <2>3. QED
    BY <2>1, <2>2
<1>7. Support(c, d) = SumFunctionOnSet(sup, D)
  BY SumAll DEF Support
<1>8. \A s \in D : neg[s] \in Int /\ neg[s] = -out[s] /\ both[s] \in Int /\ both[s] = in[s] + neg[s] /\ sup[s] = both[s] + mov[s]
  BY <1>6
<1>9. /\ SumFunctionOnSet(in, D \ Roots) = SumFunctionOnSet(out, D)
      /\ SumFunctionOnSet(in, Roots \ ReclassRoots) = PaidBy(c, d)
      /\ ReclassRoots \subseteq Roots
      /\ SumFunctionOnSet(LinesOn(c), ReclassesBy(d)) = SumFunctionOnSet(in, ReclassRoots)
      /\ OnLedgerBy(c, d) = SumFunctionOnSet(mov, D)
  <2>1. SumFunctionOnSet(InAll(c, d), DOMAIN schedules \ Roots) = SumFunctionOnSet(OutAll(c, d), DOMAIN schedules)
    BY <1>1, <1>3, HandoversCancel
  <2>2. SumFunctionOnSet(InAll(c, d), Roots \ ReclassRoots) = PaidBy(c, d)
    BY <1>1, <1>3, <1>4, PaymentFunds
  <2>3. /\ ReclassRoots \subseteq Roots
        /\ SumFunctionOnSet(LinesOn(c), ReclassesBy(d)) = SumFunctionOnSet(InAll(c, d), ReclassRoots)
    BY <1>1, <1>3, ReclassesFund
  <2>4. OnLedgerBy(c, d) = SumFunctionOnSet(MovedAll(c, d), DOMAIN schedules)
    BY <1>1, <1>3, MovedTogether
  <2>5. QED
    BY <2>1, <2>2, <2>3, <2>4
<1>10. Roots \subseteq D /\ IsFiniteSet(Roots) /\ IsFiniteSet(D \ Roots) /\ IsFiniteSet(ReclassRoots) /\ IsFiniteSet(Roots \ ReclassRoots)
  <2>1. Roots \subseteq D /\ ReclassRoots \subseteq D
    BY DEF Roots, ReclassRoots
  <2>2. IsFiniteSet(Roots) /\ IsFiniteSet(D \ Roots) /\ IsFiniteSet(ReclassRoots)
    BY <2>1, <1>5, FS_Subset
  <2>3. IsFiniteSet(Roots \ ReclassRoots)
    BY <2>2, FS_Subset
  <2>4. QED
    BY <2>1, <2>2, <2>3
<1>11. /\ BalanceAsOf(c, d) = PaidBy(c, d) + SumFunctionOnSet(LinesOn(c), ReclassesBy(d)) + OnLedgerBy(c, d)
       /\ SumFunctionOnSet(LinesOn(c), ReclassesBy(d)) \in Int /\ PaidBy(c, d) \in Int /\ OnLedgerBy(c, d) \in Int
  BY <1>1, <1>3, BalanceMade
<1> HIDE DEF D, sup, in, out, mov, neg, both
<1>12. SumFunctionOnSet(sup, D) = SumFunctionOnSet(both, D) + SumFunctionOnSet(mov, D)
  <2>1. \A s \in D : both[s] \in Int /\ mov[s] \in Int /\ sup[s] = both[s] + mov[s]
    BY <1>6, <1>8
  <2>2. QED
    BY <2>1, <1>5, SumPlus
<1>13. SumFunctionOnSet(both, D) = SumFunctionOnSet(in, D) + SumFunctionOnSet(neg, D)
  <2>1. \A s \in D : in[s] \in Int /\ neg[s] \in Int /\ both[s] = in[s] + neg[s]
    BY <1>6, <1>8
  <2>2. QED
    BY <2>1, <1>5, SumPlus
<1>14. SumFunctionOnSet(neg, D) = -SumFunctionOnSet(out, D)
  <2>1. \A s \in D : out[s] \in Int /\ neg[s] = -out[s]
    BY <1>6, <1>8
  <2>2. QED
    BY <2>1, <1>5, SumNegated
<1>15. SumFunctionOnSet(in, D) = SumFunctionOnSet(in, Roots) + SumFunctionOnSet(in, D \ Roots)
  <2>1. D = Roots \union (D \ Roots) /\ Roots \cap (D \ Roots) = {}
    BY <1>10
  <2>2. \A s \in Roots \union (D \ Roots) : in[s] \in Int
    BY <1>6, <2>1
  <2>3. SumFunctionOnSet(in, Roots \union (D \ Roots)) = SumFunctionOnSet(in, Roots) + SumFunctionOnSet(in, D \ Roots)
    BY <2>1, <2>2, <1>10, SumUnion
  <2>4. QED
    BY <2>1, <2>3
<1>16. SumFunctionOnSet(in, Roots) = SumFunctionOnSet(in, ReclassRoots) + SumFunctionOnSet(in, Roots \ ReclassRoots)
  <2>1. Roots = ReclassRoots \union (Roots \ ReclassRoots) /\ ReclassRoots \cap (Roots \ ReclassRoots) = {}
    BY <1>9
  <2>2. \A s \in ReclassRoots \union (Roots \ ReclassRoots) : in[s] \in Int
    BY <1>6, <1>10, <2>1
  <2>3. SumFunctionOnSet(in, ReclassRoots \union (Roots \ ReclassRoots))
          = SumFunctionOnSet(in, ReclassRoots) + SumFunctionOnSet(in, Roots \ ReclassRoots)
    BY <2>1, <2>2, <1>10, SumUnion
  <2>4. QED
    BY <2>1, <2>3
<1>17. SumFunctionOnSet(out, D) \in Int
  <2>1. \A s \in D : out[s] \in Int
    BY <1>6
  <2>2. QED
    BY <2>1, <1>5, SumAt
<1>18. QED
  BY <1>7, <1>9, <1>11, <1>12, <1>13, <1>14, <1>15, <1>16, <1>17

\* On books that are linked as a whole and dated in order, the support reports.py rebuilds
\* for a past day is the ledger balance of that day, for every control account and every
\* day: no sequence of runs, refunds, replacements and early ends ever parts the two.
THEOREM SupportAlwaysMatches == SchedSpec => []OrderedSupportMatches
<1>1. SchedInit => SchedInv /\ Traced
  BY InvHoldsFirst, TracedFirst
<1>2. (SchedInv /\ Traced) /\ [SchedNext]_schedVars => (SchedInv /\ Traced)'
  <2> SUFFICES ASSUME SchedInv, Traced, [SchedNext]_schedVars PROVE SchedInv' /\ Traced'
    OBVIOUS
  <2>1. QED
    BY InvKept, TracedKept
<1>3. SchedInv /\ Traced => OrderedSupportMatches
  BY SupportsMatch DEF OrderedSupportMatches, Controls
<1>4. QED
  BY <1>1, <1>2, <1>3, PTL DEF SchedSpec
================================================================================
