---------------------------- MODULE ScoreProofs ----------------------------
(***************************************************************************)
(* Proofs about the score of a prospect and an estate.                     *)
(*                                                                         *)
(* A criterion scores Part(n, d), a fraction rounded down.  Its range and  *)
(* its monotonicity, in both arguments at once, are the lemmas everything  *)
(* rests on; the highest and the lowest age of a household exist because   *)
(* the ages are finitely many.  The invariant is ProfileInv: the types, and *)
(* that what a prospect asks for is finite; everything else is arithmetic  *)
(* about two profiles, or about the profiles before and after a step.      *)
(***************************************************************************)
EXTENDS Profiles, FiniteSetTheorems, TLAPS

-----------------------------------------------------------------------------
\* Fractions, rounded down.

LEMMA Quotient ==
    ASSUME NEW a \in Nat, NEW d \in Nat \ {0}
    PROVE  /\ a \div d \in Nat
           /\ d * (a \div d) <= a
           /\ a < d * (a \div d) + d
  OBVIOUS

LEMMA Cancel ==
    ASSUME NEW a \in Nat, NEW b \in Nat, NEW d \in Nat \ {0}, d * a < d * b
    PROVE  a < b
  OBVIOUS

LEMMA Products ==
    ASSUME NEW a \in Nat, NEW b \in Nat, NEW c \in Nat, a <= b
    PROVE  a * c <= b * c /\ c * a <= c * b
  OBVIOUS

LEMMA PartRange ==
    ASSUME NEW n \in Nat, NEW d \in Nat \ {0}, n <= d
    PROVE  Part(n, d) \in 0 .. Scale
<1> DEFINE q == (Scale * n) \div d
<1>1. Scale \in Nat /\ Scale * n \in Nat
  BY ScoreAssumption
<1>2. q \in Nat /\ d * q <= Scale * n
  BY <1>1, Quotient
<1> HIDE DEF q
<1>3. Scale * n <= Scale * d
  BY <1>1, Products
<1>4. d * q <= d * Scale
  BY <1>1, <1>2, <1>3
<1>5. d * q < d * (Scale + 1)
  BY <1>1, <1>2, <1>4
<1>6. q < Scale + 1
  BY <1>1, <1>2, <1>5, Cancel
<1> QED BY <1>1, <1>2, <1>6 DEF Part, q

LEMMA PartFull ==
    ASSUME NEW d \in Nat \ {0}
    PROVE  Part(d, d) = Scale
<1> DEFINE q == (Scale * d) \div d
<1>1. Scale \in Nat /\ Scale * d \in Nat
  BY ScoreAssumption
<1>2. q \in Nat /\ d * q <= Scale * d /\ Scale * d < d * q + d
  BY <1>1, Quotient
<1> HIDE DEF q
<1>3. d * q < d * (Scale + 1) /\ d * Scale < d * (q + 1)
  BY <1>1, <1>2
<1>4. q < Scale + 1
  BY <1>1, <1>2, <1>3, Cancel
<1>5. Scale < q + 1
  BY <1>1, <1>2, <1>3, Cancel
<1> QED BY <1>1, <1>2, <1>4, <1>5 DEF Part, q

LEMMA PartMonotone ==
    ASSUME NEW n \in Nat, NEW d \in Nat \ {0}, NEW m \in Nat, NEW e \in Nat \ {0},
           n * e <= m * d
    PROVE  Part(n, d) <= Part(m, e)
<1> DEFINE a == (Scale * n) \div d
           b == (Scale * m) \div e
<1>1. Scale \in Nat /\ Scale * n \in Nat /\ Scale * m \in Nat
  BY ScoreAssumption
<1>2. a \in Nat /\ d * a <= Scale * n
  BY <1>1, Quotient
<1>3. b \in Nat /\ Scale * m < e * b + e
  BY <1>1, Quotient
<1> HIDE DEF a, b
<1>4. (d * a) * e <= (Scale * n) * e
  BY <1>1, <1>2, Products
<1>5. Scale * (n * e) <= Scale * (m * d)
  BY <1>1, Products
<1>6. (Scale * n) * e = Scale * (n * e) /\ Scale * (m * d) = d * (Scale * m)
  BY <1>1
<1>7. (d * a) * e = d * (a * e)
  BY <1>2
<1>8. d * (a * e) <= d * (Scale * m)
  BY <1>1, <1>2, <1>4, <1>5, <1>6, <1>7
<1>9. d * (Scale * m) < d * (e * b + e)
  BY <1>1, <1>3
<1>10. a * e < e * b + e
  BY <1>1, <1>2, <1>3, <1>8, <1>9, Cancel
<1>11. e * a < e * (b + 1)
  BY <1>2, <1>3, <1>10
<1>12. a < b + 1
  BY <1>2, <1>3, <1>11, Cancel
<1> QED BY <1>2, <1>3, <1>12 DEF Part, a, b

-----------------------------------------------------------------------------
\* Distances from what is wanted.

LEMMA FallRange ==
    ASSUME NEW d \in Nat, NEW f \in Nat \ {0}
    PROVE  Fall(d, f) \in 0 .. Scale
<1>1. CASE 10 * d >= f
  BY <1>1, ScoreAssumption DEF Fall
<1>2. CASE ~(10 * d >= f)
  <2>1. f - 10 * d \in Nat /\ f - 10 * d <= f
    BY <1>2
  <2>2. Part(f - 10 * d, f) \in 0 .. Scale
    BY <2>1, PartRange
  <2> QED BY <1>2, <2>2 DEF Fall
<1> QED BY <1>1, <1>2

LEMMA FallMonotone ==
    ASSUME NEW c \in Nat, NEW d \in Nat, NEW f \in Nat \ {0}, c <= d
    PROVE  Fall(d, f) <= Fall(c, f)
<1>1. CASE 10 * d >= f
  <2>1. Fall(c, f) \in 0 .. Scale
    BY FallRange
  <2> QED BY <1>1, <2>1, ScoreAssumption DEF Fall
<1>2. CASE ~(10 * d >= f)
  <2>1. f - 10 * d \in Nat /\ f - 10 * c \in Nat /\ ~(10 * c >= f)
    BY <1>2
  <2>2. f - 10 * d <= f - 10 * c
    OBVIOUS
  <2>3. (f - 10 * d) * f <= (f - 10 * c) * f
    BY <2>1, <2>2, Products
  <2>4. Part(f - 10 * d, f) <= Part(f - 10 * c, f)
    BY <2>1, <2>3, PartMonotone
  <2> QED BY <1>2, <2>1, <2>4 DEF Fall
<1> QED BY <1>1, <1>2

LEMMA ExcessRange ==
    ASSUME NEW n \in Nat, NEW d \in Nat
    PROVE  Excess(n, d) \in 0 .. Scale
<1>1. CASE 10 * n >= d
  BY <1>1, ScoreAssumption DEF Excess
<1>2. CASE ~(10 * n >= d)
  <2>1. d - 10 * n \in Nat /\ d - 10 * n <= d /\ d # 0
    BY <1>2
  <2>2. Part(d - 10 * n, d) \in 0 .. Scale
    BY <2>1, PartRange
  <2> QED BY <1>2, <2>2 DEF Excess
<1> QED BY <1>1, <1>2

LEMMA ExcessMonotone ==
    ASSUME NEW n \in Nat, NEW d \in Nat \ {0}, NEW m \in Nat, NEW e \in Nat \ {0},
           m * d <= n * e
    PROVE  Excess(n, d) <= Excess(m, e)
<1>1. CASE 10 * n >= d
  <2>1. Excess(m, e) \in 0 .. Scale
    BY ExcessRange
  <2> QED BY <1>1, <2>1, ScoreAssumption DEF Excess
<1>2. CASE ~(10 * n >= d)
  <2>1. 10 * n + 1 <= d /\ d - 10 * n \in Nat
    BY <1>2
  <2>2. (10 * n + 1) * e <= d * e
    BY <2>1, Products
  <2>3. (10 * n + 1) * e = 10 * (n * e) + e /\ n * e \in Nat /\ m * d \in Nat
    OBVIOUS
  <2>4. 10 * (m * d) < d * e
    BY <2>2, <2>3
  <2>5. 10 * (m * d) = d * (10 * m)
    OBVIOUS
  <2>6. 10 * m < e
    BY <2>4, <2>5, Cancel
  <2>7. e - 10 * m \in Nat /\ ~(10 * m >= e)
    BY <2>6
  <2>8. (d - 10 * n) * e = d * e - 10 * (n * e) /\ (e - 10 * m) * d = d * e - 10 * (m * d)
    OBVIOUS
  <2>9. (d - 10 * n) * e <= (e - 10 * m) * d
    BY <2>3, <2>8
  <2>10. Part(d - 10 * n, d) <= Part(e - 10 * m, e)
    BY <2>1, <2>7, <2>9, PartMonotone
  <2> QED BY <1>2, <2>7, <2>10 DEF Excess
<1> QED BY <1>1, <1>2

LEMMA WithinRange ==
    ASSUME NEW x \in Nat, NEW r \in Span, NEW below \in Nat \ {0}, NEW above \in Nat \ {0}
    PROVE  Within(x, r, below, above) \in 0 .. Scale
<1>1. r.min \in Nat /\ r.max \in Nat
  BY DEF Span
<1>2. CASE r.min <= x /\ x <= r.max
  BY <1>2, ScoreAssumption DEF Within
<1>3. CASE x > r.max
  <2>1. x - r.max \in Nat
    BY <1>1, <1>3
  <2>2. Fall(x - r.max, above) \in 0 .. Scale
    BY <2>1, FallRange
  <2> QED BY <1>1, <1>3, <2>2 DEF Within
<1>4. CASE ~(x > r.max) /\ ~(r.min <= x)
  <2>1. r.min - x \in Nat
    BY <1>1, <1>4
  <2>2. Fall(r.min - x, below) \in 0 .. Scale
    BY <2>1, FallRange
  <2> QED BY <1>1, <1>4, <2>2 DEF Within
<1> QED BY <1>1, <1>2, <1>3, <1>4

LEMMA WithinMonotone ==
    ASSUME NEW x \in Nat, NEW r \in Span, NEW s \in Span,
           NEW below \in Nat \ {0}, NEW above \in Nat \ {0}, Ordered(r), Wider(r, s)
    PROVE  Within(x, r, below, above) <= Within(x, s, below, above)
<1>1. /\ r.min \in Nat /\ r.max \in Nat /\ s.min \in Nat /\ s.max \in Nat
      /\ r.min <= r.max /\ s.min <= r.min /\ r.max <= s.max
  BY DEF Span, Ordered, Wider
<1>2. Within(x, r, below, above) \in 0 .. Scale
  BY WithinRange
<1>3. CASE s.min <= x /\ x <= s.max
  BY <1>2, <1>3, ScoreAssumption DEF Within
<1>4. CASE x > s.max
  <2>1. x - s.max \in Nat /\ x - r.max \in Nat /\ x - s.max <= x - r.max
    BY <1>1, <1>4
  <2>2. Fall(x - r.max, above) <= Fall(x - s.max, above)
    BY <2>1, FallMonotone
  <2>3. ~(r.min <= x /\ x <= r.max) /\ x > r.max /\ ~(s.min <= x /\ x <= s.max)
    BY <1>1, <1>4
  <2> QED BY <1>4, <2>2, <2>3 DEF Within
<1>5. CASE x < s.min
  <2>1. s.min - x \in Nat /\ r.min - x \in Nat /\ s.min - x <= r.min - x
    BY <1>1, <1>5
  <2>2. Fall(r.min - x, below) <= Fall(s.min - x, below)
    BY <2>1, FallMonotone
  <2>3. ~(r.min <= x) /\ ~(x > r.max) /\ ~(s.min <= x) /\ ~(x > s.max)
    BY <1>1, <1>5
  <2> QED BY <2>2, <2>3 DEF Within
<1> QED BY <1>1, <1>3, <1>4, <1>5

-----------------------------------------------------------------------------
\* The highest and the lowest of finitely many numbers.

\* Those of A above a, those below.
Above(A, a) == {b \in A : b > a}
Below(A, a) == {b \in A : b < a}

Proper(y, x) == y \subseteq x /\ y # x

LEMMA Smallest ==
    ASSUME NEW A, IsFiniteSet(A), NEW F \in SUBSET (SUBSET A), F # {}
    PROVE  \E x \in F : \A y \in F : ~Proper(y, x)
<1>1. IsWellFoundedOn(StrictSubsetOrdering(A), FiniteSubsetsOf(A))
  BY FS_StrictSubsetOrderingWellFounded
<1>2. F \subseteq FiniteSubsetsOf(A)
  BY FS_Subset DEF FiniteSubsetsOf
<1>3. PICK x \in F : \A y \in F : <<y, x>> \notin StrictSubsetOrdering(A)
  BY <1>1, <1>2, WFMin
<1>4. ASSUME NEW y \in F, Proper(y, x) PROVE FALSE
  <2>1. <<y, x>> \in (SUBSET A) \X (SUBSET A) /\ <<y, x>>[1] = y /\ <<y, x>>[2] = x
    OBVIOUS
  <2>2. <<y, x>> \in StrictSubsetOrdering(A)
    BY <1>4, <2>1 DEF StrictSubsetOrdering, Proper
  <2> QED BY <1>3, <2>2
<1> QED BY <1>3, <1>4

LEMMA HasHighest ==
    ASSUME NEW A \in SUBSET Nat, IsFiniteSet(A), A # {}
    PROVE  \E a \in A : \A b \in A : b <= a
<1> DEFINE F == {Above(A, a) : a \in A}
<1>1. F \in SUBSET (SUBSET A) /\ F # {}
  BY DEF Above
<1>2. \E x \in F : \A y \in F : ~Proper(y, x)
  <2> HIDE DEF F
  <2> QED BY <1>1, Smallest
<1>3. PICK a \in A : \A b \in A : ~Proper(Above(A, b), Above(A, a))
  BY <1>2
<1>4. ASSUME NEW b \in A, ~(b <= a) PROVE FALSE
  <2>1. b \in Nat /\ a \in Nat /\ b > a
    BY <1>4
  <2>2. b \in Above(A, a) /\ b \notin Above(A, b)
    BY <2>1 DEF Above
  <2>3. ASSUME NEW c \in Above(A, b) PROVE c \in Above(A, a)
    <3>1. c \in Nat /\ c \in A
      BY DEF Above
    <3> QED BY <2>1, <3>1 DEF Above
  <2> QED BY <1>3, <2>2, <2>3 DEF Proper
<1> QED BY <1>4

LEMMA HasLowest ==
    ASSUME NEW A \in SUBSET Nat, IsFiniteSet(A), A # {}
    PROVE  \E a \in A : \A b \in A : a <= b
<1> DEFINE F == {Below(A, a) : a \in A}
<1>1. F \in SUBSET (SUBSET A) /\ F # {}
  BY DEF Below
<1>2. \E x \in F : \A y \in F : ~Proper(y, x)
  <2> HIDE DEF F
  <2> QED BY <1>1, Smallest
<1>3. PICK a \in A : \A b \in A : ~Proper(Below(A, b), Below(A, a))
  BY <1>2
<1>4. ASSUME NEW b \in A, ~(a <= b) PROVE FALSE
  <2>1. b \in Nat /\ a \in Nat /\ b < a
    BY <1>4
  <2>2. b \in Below(A, a) /\ b \notin Below(A, b)
    BY <2>1 DEF Below
  <2>3. ASSUME NEW c \in Below(A, b) PROVE c \in Below(A, a)
    <3>1. c \in Nat /\ c \in A
      BY DEF Below
    <3> QED BY <2>1, <3>1 DEF Below
  <2> QED BY <1>3, <2>2, <2>3 DEF Proper
<1> QED BY <1>4

-----------------------------------------------------------------------------
\* What the score reads of a prospect, and of an estate as it is scored.

ProspectRead(p) ==
    /\ p.active \in BOOLEAN /\ p.income \in Nat /\ p.budgetMax \in Nat
    /\ p.members \in Seq(Member) /\ p.members # <<>>
    /\ p.rooms \in Span \cup {None} /\ p.space \in Span \cup {None} /\ p.floor \in Span \cup {None}
    /\ IsFiniteSet(p.options)

EstateRead(e) ==
    /\ e.price \in Nat /\ e.budget \in Nat /\ e.rooms \in Nat /\ e.area \in Nat /\ e.floors \in Nat
    /\ e.vacant \in Int \cup {None} /\ e.ages \in Span /\ e.family \in Span

LEMMA SomebodyLives ==
    ASSUME NEW p, ProspectRead(p)
    PROVE  /\ Len(p.members) \in Nat \ {0} /\ DOMAIN p.members = 1 .. Len(p.members)
           /\ \A i \in DOMAIN p.members : p.members[i] \in Member
           /\ IsFiniteSet(DOMAIN p.members) /\ Cardinality(DOMAIN p.members) = Len(p.members)
<1>1. p.members \in Seq(Member) /\ p.members # <<>>
  BY DEF ProspectRead
<1>2. Len(p.members) \in Nat /\ DOMAIN p.members = 1 .. Len(p.members)
      /\ \A i \in 1 .. Len(p.members) : p.members[i] \in Member
  BY <1>1
<1>3. Len(p.members) # 0
  BY <1>1
<1>4. IsFiniteSet(1 .. Len(p.members)) /\ Cardinality(1 .. Len(p.members)) = Len(p.members)
  BY <1>2, <1>3, FS_Interval
<1> QED BY <1>2, <1>3, <1>4

LEMMA SomeMembers ==
    ASSUME NEW p, ProspectRead(p), NEW S \in SUBSET DOMAIN p.members
    PROVE  IsFiniteSet(S) /\ Cardinality(S) \in Nat /\ Cardinality(S) <= Len(p.members)
<1>1. IsFiniteSet(DOMAIN p.members) /\ Cardinality(DOMAIN p.members) = Len(p.members)
  BY SomebodyLives
<1>2. IsFiniteSet(S) /\ Cardinality(S) <= Cardinality(DOMAIN p.members)
  BY <1>1, FS_Subset
<1> QED BY <1>1, <1>2, FS_CardinalityType

LEMMA AgesAreFinite ==
    ASSUME NEW p, ProspectRead(p)
    PROVE  IsFiniteSet(Ages(p)) /\ Ages(p) \in SUBSET Nat
<1> DEFINE D == DOMAIN p.members
           A == {p.members[i].age : i \in D}
           f == [i \in D |-> p.members[i].age]
<1>1. f \in Surjection(D, A)
  BY DEF Surjection
<1>2. IsFiniteSet(D)
  BY SomebodyLives
<1>3. IsFiniteSet(A)
  <2> HIDE DEF D, A, f
  <2> QED BY <1>1, <1>2, FS_Surjection
<1>4. Ages(p) \in SUBSET A
  BY DEF Ages
<1>5. IsFiniteSet(Ages(p))
  <2> HIDE DEF A
  <2> QED BY <1>3, <1>4, FS_Subset
<1>6. \A i \in D : p.members[i].age \in Nat \cup {None}
  BY SomebodyLives DEF Member
<1> QED BY <1>5, <1>6 DEF Ages

-----------------------------------------------------------------------------
\* Every criterion scores between zero and Scale.

LEMMA LandlordBudgetRange ==
    ASSUME NEW p, NEW e, ProspectRead(p), EstateRead(e), p.income # 0
    PROVE  LandlordBudgetScore(p, e) \in 0 .. Scale
<1>1. p.income \in Nat /\ e.price \in Nat /\ e.budget \in Nat
  BY DEF ProspectRead, EstateRead
<1>2. CASE e.price = 0 \/ (e.budget # 0 /\ e.budget <= p.income)
  BY <1>2, ScoreAssumption DEF LandlordBudgetScore
<1>3. CASE e.price # 0 /\ e.budget = 0
  <2>1. Excess(e.price, p.income) \in 0 .. Scale
    BY <1>1, ExcessRange
  <2> QED BY <1>3, <2>1 DEF LandlordBudgetScore
<1>4. CASE e.price # 0 /\ e.budget # 0 /\ ~(e.budget <= p.income)
  <2>1. e.budget - p.income \in Nat
    BY <1>1, <1>4
  <2>2. e.price * (e.budget - p.income) \in Nat /\ p.income * e.budget \in Nat
    BY <1>1, <2>1
  <2>3. Excess(e.price * (e.budget - p.income), p.income * e.budget) \in 0 .. Scale
    BY <2>2, ExcessRange
  <2> QED BY <1>4, <2>3 DEF LandlordBudgetScore
<1> QED BY <1>2, <1>3, <1>4

LEMMA CreditRange ==
    ASSUME NEW p, ProspectRead(p)
    PROVE  CreditScore(p) \in 0 .. Scale
<1> DEFINE S == {i \in DOMAIN p.members : p.members[i].clean}
<1>1. Cardinality(S) \in Nat /\ Cardinality(S) <= Len(p.members)
  BY SomeMembers
<1>2. Len(p.members) \in Nat \ {0}
  BY SomebodyLives
<1>3. Part(Cardinality(S), Len(p.members)) \in 0 .. Scale
  <2> HIDE DEF S
  <2> QED BY <1>1, <1>2, PartRange
<1> QED BY <1>3 DEF CreditScore

LEMMA ArrearsRange ==
    ASSUME NEW p, NEW e
    PROVE  ArrearsScore(p, e) \in 0 .. Scale
  BY ScoreAssumption DEF ArrearsScore

Highest(A) == CHOOSE a \in A : \A b \in A : b <= a
Lowest(A) == CHOOSE a \in A : \A b \in A : a <= b

LEMMA HighestOfAges ==
    ASSUME NEW A \in SUBSET Nat, IsFiniteSet(A), A # {}
    PROVE  Highest(A) \in A /\ \A b \in A : b <= Highest(A)
  BY HasHighest DEF Highest

LEMMA LowestOfAges ==
    ASSUME NEW A \in SUBSET Nat, IsFiniteSet(A), A # {}
    PROVE  Lowest(A) \in A /\ \A b \in A : Lowest(A) <= b
  BY HasLowest DEF Lowest

\* Everybody's age is known and asked for.
AllFit(p, r) ==
    \A i \in DOMAIN p.members : /\ p.members[i].age # None
                                /\ r.min <= p.members[i].age
                                /\ p.members[i].age <= r.max

LEMMA AgeScoreIs ==
    ASSUME NEW p, NEW e
    PROVE  AgeScore(p, e) =
             IF e.ages.min = 0 \/ e.ages.max = 0 THEN 0
             ELSE IF AllFit(p, e.ages) THEN Scale
             ELSE IF \E a \in Ages(p) : a > e.ages.max THEN Fall(Highest(Ages(p)) - e.ages.max, 51)
             ELSE IF \E a \in Ages(p) : a < e.ages.min THEN Fall(e.ages.min - Lowest(Ages(p)), 51)
             ELSE 0
  BY DEF AgeScore, AllFit, Highest, Lowest

LEMMA AgeRange ==
    ASSUME NEW p, NEW e, ProspectRead(p), EstateRead(e)
    PROVE  AgeScore(p, e) \in 0 .. Scale
<1>1. e.ages.min \in Nat /\ e.ages.max \in Nat
  BY DEF EstateRead, Span
<1>2. IsFiniteSet(Ages(p)) /\ Ages(p) \in SUBSET Nat
  BY AgesAreFinite
<1>3. ASSUME \E a \in Ages(p) : a > e.ages.max
      PROVE  Fall(Highest(Ages(p)) - e.ages.max, 51) \in 0 .. Scale
  <2>1. Highest(Ages(p)) \in Nat /\ \A b \in Ages(p) : b <= Highest(Ages(p)) /\ b \in Nat
    BY <1>2, <1>3, HighestOfAges
  <2>2. Highest(Ages(p)) - e.ages.max \in Nat
    BY <1>1, <1>3, <2>1
  <2> QED BY <2>2, FallRange
<1>4. ASSUME \E a \in Ages(p) : a < e.ages.min
      PROVE  Fall(e.ages.min - Lowest(Ages(p)), 51) \in 0 .. Scale
  <2>1. Lowest(Ages(p)) \in Nat /\ \A b \in Ages(p) : Lowest(Ages(p)) <= b /\ b \in Nat
    BY <1>2, <1>4, LowestOfAges
  <2>2. e.ages.min - Lowest(Ages(p)) \in Nat
    BY <1>1, <1>4, <2>1
  <2> QED BY <2>2, FallRange
<1>5. 0 \in 0 .. Scale /\ Scale \in 0 .. Scale
  BY ScoreAssumption
<1> QED BY <1>3, <1>4, <1>5, AgeScoreIs

\* A range whose zeroes are read as ones.
Ones(r) == [min |-> OrOne(r.min), max |-> OrOne(r.max)]

LEMMA OnesSpan ==
    ASSUME NEW r \in Span
    PROVE  Ones(r) \in Span
  BY DEF Span, Ones, OrOne

LEMMA WantedSpan ==
    ASSUME NEW r \in Span \cup {None}
    PROVE  Wanted(r) \in Span
<1>1. CASE r = None
  BY <1>1 DEF Wanted, Span
<1>2. CASE r # None
  BY <1>2 DEF Wanted, Span, OrOne
<1> QED BY <1>1, <1>2

LEMMA HouseholdRange ==
    ASSUME NEW p, NEW e, ProspectRead(p), EstateRead(e)
    PROVE  HouseholdScore(p, e) \in 0 .. Scale
<1>1. Ones(e.family) \in Span
  BY OnesSpan DEF EstateRead
<1>2. Len(p.members) \in Nat
  BY SomebodyLives
<1>3. Within(Len(p.members), Ones(e.family), 11, 11) \in 0 .. Scale
  BY <1>1, <1>2, WithinRange
<1> QED BY <1>3 DEF HouseholdScore, Ones

LEMMA ProspectBudgetRange ==
    ASSUME NEW p, NEW e, ProspectRead(p), EstateRead(e)
    PROVE  ProspectBudgetScore(p, e) \in 0 .. Scale
<1>1. p.income \in Nat /\ p.budgetMax \in Nat /\ e.price \in Nat
  BY DEF ProspectRead, EstateRead
<1>2. CASE ~(e.price <= p.budgetMax)
  <2>1. e.price - p.budgetMax \in Nat
    BY <1>1, <1>2
  <2>2. Excess(e.price - p.budgetMax, p.income) \in 0 .. Scale
    BY <1>1, <2>1, ExcessRange
  <2> QED BY <1>2, <2>2, ScoreAssumption DEF ProspectBudgetScore
<1>3. CASE e.price <= p.budgetMax
  BY <1>3, ScoreAssumption DEF ProspectBudgetScore
<1> QED BY <1>2, <1>3

LEMMA RoomsRange ==
    ASSUME NEW p, NEW e, ProspectRead(p), EstateRead(e)
    PROVE  RoomsScore(p, e) \in 0 .. Scale
<1>1. OrOne(e.rooms) \in Nat
  BY DEF EstateRead, OrOne
<1>2. Wanted(p.rooms) \in Span
  BY WantedSpan DEF ProspectRead
<1> QED BY <1>1, <1>2, WithinRange DEF RoomsScore

LEMMA SpaceRange ==
    ASSUME NEW p, NEW e, ProspectRead(p), EstateRead(e)
    PROVE  SpaceScore(p, e) \in 0 .. Scale
<1>1. e.area \in Nat
  BY DEF EstateRead
<1>2. Wanted(p.space) \in Span
  BY WantedSpan DEF ProspectRead
<1> QED BY <1>1, <1>2, WithinRange DEF SpaceScore

LEMMA FloorRange ==
    ASSUME NEW p, NEW e, ProspectRead(p), EstateRead(e)
    PROVE  FloorScore(p, e) \in 0 .. Scale
<1> DEFINE r == IF p.floor = None THEN [min |-> 0, max |-> 0] ELSE p.floor
<1>1. e.floors \in Nat
  BY DEF EstateRead
<1>2. r \in Span
  BY DEF ProspectRead, Span
<1>3. Within(e.floors, r, 11, 11) \in 0 .. Scale
  <2> HIDE DEF r
  <2> QED BY <1>1, <1>2, WithinRange
<1> QED BY <1>3 DEF FloorScore

LEMMA RentStartRange ==
    ASSUME NEW e, EstateRead(e)
    PROVE  RentStartScore(e) \in 0 .. Scale
<1>1. HalfYear \in Nat /\ Year \in Nat /\ HalfYear < Year /\ Scale \in Nat
  BY ScoreAssumption
<1>2. CASE e.vacant = None \/ e.vacant < 0 \/ e.vacant >= Year \/ e.vacant <= HalfYear
  BY <1>1, <1>2 DEF RentStartScore
<1>3. CASE ~(e.vacant = None \/ e.vacant < 0 \/ e.vacant >= Year \/ e.vacant <= HalfYear)
  <2>1. e.vacant \in Int
    BY <1>3 DEF EstateRead
  <2>2. Year - e.vacant \in Nat /\ Year - HalfYear \in Nat \ {0} /\ Year - e.vacant <= Year - HalfYear
    BY <1>1, <1>3, <2>1
  <2>3. Part(Year - e.vacant, Year - HalfYear) \in 0 .. Scale
    BY <2>2, PartRange
  <2> QED BY <1>3, <2>3 DEF RentStartScore
<1> QED BY <1>2, <1>3

LEMMA SomeOptions ==
    ASSUME NEW p, ProspectRead(p), p.options # {}, NEW S \in SUBSET p.options
    PROVE  /\ Cardinality(S) \in Nat /\ Cardinality(p.options) \in Nat \ {0}
           /\ Cardinality(S) <= Cardinality(p.options) /\ IsFiniteSet(S)
<1>1. IsFiniteSet(p.options)
  BY DEF ProspectRead
<1>2. IsFiniteSet(S) /\ Cardinality(S) <= Cardinality(p.options)
  BY <1>1, FS_Subset
<1>3. Cardinality(p.options) # 0
  BY <1>1, FS_EmptySet
<1> QED BY <1>1, <1>2, <1>3, FS_CardinalityType

LEMMA AmenitiesRange ==
    ASSUME NEW p, NEW e, ProspectRead(p)
    PROVE  AmenitiesScore(p, e) \in 0 .. Scale
<1>1. CASE p.options = {}
  BY <1>1, ScoreAssumption DEF AmenitiesScore
<1>2. CASE p.options # {}
  <2> DEFINE S == p.options \cap e.options
  <2>1. S \in SUBSET p.options
    OBVIOUS
  <2>2. Part(Cardinality(S), Cardinality(p.options)) \in 0 .. Scale
    <3> HIDE DEF S
    <3> QED BY <1>2, <2>1, SomeOptions, PartRange
  <2> QED BY <1>2, <2>2 DEF AmenitiesScore
<1> QED BY <1>1, <1>2

LEMMA LandlordRange ==
    ASSUME NEW p, NEW e, ProspectRead(p), EstateRead(e)
    PROVE  /\ LandlordScore(p, e) \in 0 .. 40 * Scale
           /\ e.price > p.income => LandlordScore(p, e) = 0
<1>1. Scale \in Nat
  BY ScoreAssumption
<1>2. CASE p.income = 0 \/ e.price > p.income
  BY <1>1, <1>2 DEF LandlordScore
<1>3. CASE p.income # 0 /\ ~(e.price > p.income)
  <2>1. LandlordBudgetScore(p, e) \in 0 .. Scale
    BY <1>3, LandlordBudgetRange
  <2>2. CreditScore(p) \in 0 .. Scale /\ ArrearsScore(p, e) \in 0 .. Scale
    BY CreditRange, ArrearsRange
  <2>3. AgeScore(p, e) \in 0 .. Scale /\ HouseholdScore(p, e) \in 0 .. Scale
    BY AgeRange, HouseholdRange
  <2> QED BY <1>1, <1>3, <2>1, <2>2, <2>3 DEF LandlordScore
<1> QED BY <1>2, <1>3

LEMMA ProspectRange ==
    ASSUME NEW p, NEW e, ProspectRead(p), EstateRead(e)
    PROVE  /\ ProspectScore(p, e) \in 0 .. 40 * Scale
           /\ e.price > p.income => ProspectScore(p, e) = 0
<1>1. Scale \in Nat
  BY ScoreAssumption
<1>2. ProspectBudgetScore(p, e) \in 0 .. Scale /\ RoomsScore(p, e) \in 0 .. Scale
  BY ProspectBudgetRange, RoomsRange
<1>3. SpaceScore(p, e) \in 0 .. Scale /\ FloorScore(p, e) \in 0 .. Scale
  BY SpaceRange, FloorRange
<1>4. RentStartScore(e) \in 0 .. Scale /\ AmenitiesScore(p, e) \in 0 .. Scale
  BY RentStartRange, AmenitiesRange
<1>5. e.price > p.income => ProspectBudgetScore(p, e) = 0
  BY DEF ProspectBudgetScore
<1> QED BY <1>1, <1>2, <1>3, <1>4, <1>5 DEF ProspectScore

-----------------------------------------------------------------------------
\* The profiles.

OptionsAreFinite == IsFiniteSet(prospect.options)

ProfileInv == TypeOK /\ OptionsAreFinite

LEMMA FieldsFit ==
    ASSUME NEW r, NEW types, Fits(r, types), NEW f \in DOMAIN types, NEW v \in types[f]
    PROVE  Fits([r EXCEPT ![f] = v], types)
<1> DEFINE s == [r EXCEPT ![f] = v]
<1>1. DOMAIN s = DOMAIN types
  BY DEF Fits
<1>2. ASSUME NEW g \in DOMAIN types PROVE s[g] \in types[g]
  BY <1>2 DEF Fits
<1> QED BY <1>1, <1>2 DEF Fits

LEMMA ProspectFields == DOMAIN ProspectTypes =
        {"active", "members", "income", "pets", "budgetMin", "budgetMax", "utilities", "transfer",
         "rentStart", "stay", "rooms", "space", "floor", "aptTypes", "houseTypes", "options", "levels"}
  BY DEF ProspectTypes

LEMMA ProfilesStart == Init => ProfileInv
  BY ProfilesAssumption, OptionsAssumption DEF Init, ProfileInv, TypeOK, OptionsAreFinite

\* Whatever the household, one of its fields and its activity.
LEMMA PersonFits ==
    ASSUME ProfileInv, NEW f \in DOMAIN ProspectTypes \ {"options", "active"}, NEW v \in ProspectTypes[f],
           WithPerson(f, v)
    PROVE  ProfileInv'
<1>1. PICK a \in {FALSE, prospect.active} : prospect' = [prospect EXCEPT ![f] = v, !.active = a]
  BY DEF WithPerson
<1> DEFINE q == [prospect EXCEPT ![f] = v]
<1>2. Fits(q, ProspectTypes)
  BY FieldsFit DEF ProfileInv, TypeOK
<1>3. prospect' = [q EXCEPT !["active"] = a]
  BY <1>1
<1>4. q["options"] = prospect["options"]
  BY DEF q
<1>5. prospect["active"] \in ProspectTypes["active"] /\ "active" \in DOMAIN ProspectTypes
      /\ ProspectTypes["active"] = BOOLEAN
  BY ProspectFields DEF ProfileInv, TypeOK, Fits, ProspectTypes
<1>6. a \in ProspectTypes["active"]
  BY <1>5
<1> HIDE DEF q
<1>7. Fits(prospect', ProspectTypes)
  BY <1>2, <1>3, <1>5, <1>6, FieldsFit
<1>8. prospect'.options = prospect.options
  BY <1>3, <1>4
<1>9. UNCHANGED <<estate, proofs>>
  BY DEF WithPerson
<1> QED BY <1>7, <1>8, <1>9 DEF ProfileInv, TypeOK, OptionsAreFinite

LEMMA WithoutFits ==
    ASSUME NEW i \in DOMAIN prospect.members, i # 1, ProfileInv
    PROVE  Without(i) \in Seq(Member) \ {<<>>}
<1> DEFINE s == prospect.members
<1>1. s \in Seq(Member) \ {<<>>}
  BY ProspectFields DEF ProfileInv, TypeOK, Fits, ProspectTypes
<1> HIDE DEF s
<1>2. Len(s) \in Nat /\ DOMAIN s = 1 .. Len(s) /\ \A j \in 1 .. Len(s) : s[j] \in Member
  BY <1>1
<1>3. i \in 1 .. Len(s) /\ i # 1
  BY <1>2 DEF s
<1>4. Len(s) - 1 \in Nat \ {0}
  BY <1>2, <1>3
<1>5. ASSUME NEW j \in 1 .. Len(s) - 1 PROVE s[IF j < i THEN j ELSE j + 1] \in Member
  BY <1>2, <1>3, <1>4, <1>5
<1> DEFINE t == [j \in 1 .. Len(s) - 1 |-> s[IF j < i THEN j ELSE j + 1]]
<1>6. t \in [1 .. Len(s) - 1 -> Member]
  BY <1>5
<1>7. t \in Seq(Member)
  BY <1>4, <1>6
<1>8. t # <<>>
  BY <1>4, 1 \in DOMAIN t
<1> QED BY <1>7, <1>8 DEF Without, s

LEMMA ProfilesStay == ProfileInv /\ [Next]_vars => ProfileInv'
<1> SUFFICES ASSUME ProfileInv, [Next]_vars PROVE ProfileInv'
  OBVIOUS
<1> USE DEF ProfileInv
<1>1. ASSUME NEW f \in DOMAIN ProspectValues \ {"income", "pets"}, NEW v \in ProspectValues[f], UpdateTenant(f, v)
      PROVE  ProfileInv'
  <2>1. f \in DOMAIN ProspectTypes /\ v \in ProspectTypes[f]
    BY ProfilesAssumption
  <2>2. Fits(prospect', ProspectTypes)
    BY <1>1, <2>1, FieldsFit DEF TypeOK, UpdateTenant
  <2>3. prospect'.options = IF f = "options" THEN v ELSE prospect.options
    BY <1>1, ProspectFields DEF UpdateTenant, TypeOK, Fits
  <2>4. OptionsAreFinite'
    BY <2>3, OptionsAssumption DEF OptionsAreFinite
  <2> QED BY <1>1, <2>2, <2>4 DEF UpdateTenant, TypeOK
<1>2. ASSUME NEW f \in DOMAIN ProspectValues \cap {"income", "pets"}, NEW v \in ProspectValues[f], WithPerson(f, v)
      PROVE  ProfileInv'
  <2>1. f \in DOMAIN ProspectTypes \ {"options", "active"} /\ v \in ProspectTypes[f]
    BY ProfilesAssumption
  <2> QED BY <1>2, <2>1, PersonFits
<1>3. ASSUME NEW m \in Members, AddMember(m) PROVE ProfileInv'
  <2>1. "members" \in DOMAIN ProspectTypes \ {"options", "active"}
        /\ ProspectTypes["members"] = Seq(Member) \ {<<>>}
    BY ProspectFields DEF ProspectTypes
  <2>2. m \in Member /\ prospect.members \in Seq(Member)
    BY <2>1, ProfilesAssumption DEF TypeOK, Fits
  <2>3. Append(prospect.members, m) \in Seq(Member) \ {<<>>}
    BY <2>2
  <2> QED BY <1>3, <2>1, <2>3, PersonFits DEF AddMember
<1>4. ASSUME NEW i \in DOMAIN prospect.members, RemoveMember(i) PROVE ProfileInv'
  <2>1. "members" \in DOMAIN ProspectTypes \ {"options", "active"}
        /\ ProspectTypes["members"] = Seq(Member) \ {<<>>}
    BY ProspectFields DEF ProspectTypes
  <2>2. Without(i) \in ProspectTypes["members"]
    BY <1>4, <2>1, WithoutFits DEF RemoveMember
  <2> QED BY <1>4, <2>1, <2>2, PersonFits DEF RemoveMember
<1>5. CASE ActivateTenant
  <2>1. "active" \in DOMAIN ProspectTypes /\ ProspectTypes["active"] = BOOLEAN
    BY ProspectFields DEF ProspectTypes
  <2>2. (~prospect.active) \in ProspectTypes["active"]
    <3>1. (~prospect.active) \in BOOLEAN
      OBVIOUS
    <3> QED BY <2>1, <3>1
  <2>3. prospect' = [prospect EXCEPT !["active"] = ~prospect.active]
    BY <1>5 DEF ActivateTenant
  <2>4. Fits(prospect', ProspectTypes)
    BY <2>1, <2>2, <2>3, FieldsFit DEF TypeOK
  <2>5. prospect'.options = prospect.options
    BY <2>3
  <2> QED BY <1>5, <2>4, <2>5 DEF ActivateTenant, TypeOK, OptionsAreFinite
<1>6. ASSUME NEW f \in DOMAIN EstateValues, NEW v \in EstateValues[f], UpdateEstate(f, v) PROVE ProfileInv'
  <2>1. f \in DOMAIN EstateTypes /\ v \in EstateTypes[f]
    BY ProfilesAssumption
  <2>2. Fits(estate', EstateTypes)
    BY <1>6, <2>1, FieldsFit DEF TypeOK, UpdateEstate
  <2> QED BY <1>6, <2>2 DEF UpdateEstate, TypeOK, OptionsAreFinite
<1>7. ASSUME NEW type \in Sources, ChangeProofs(type) PROVE ProfileInv'
  <2>1. proofs' \subseteq Sources
    BY <1>7 DEF ChangeProofs, TypeOK
  <2> QED BY <1>7, <2>1 DEF ChangeProofs, TypeOK, OptionsAreFinite
<1>8. CASE UNCHANGED vars
  BY <1>8 DEF vars, TypeOK, OptionsAreFinite
<1> QED BY <1>1, <1>2, <1>3, <1>4, <1>5, <1>6, <1>7, <1>8 DEF Next

\* A profile keeps the types that the search and the score read, whatever is
\* entered, for any inputs of the types that the validators admit.
THEOREM ProfileTypes == Spec => []TypeOK
<1>1. ProfileInv => TypeOK
  BY DEF ProfileInv
<1> QED BY ProfilesStart, ProfilesStay, <1>1, PTL DEF Spec

-----------------------------------------------------------------------------
\* Both scores are in their range.

LEMMA ProspectReads ==
    ASSUME ProfileInv
    PROVE  ProspectRead(prospect)
<1>1. /\ prospect.active \in BOOLEAN /\ prospect.income \in Nat /\ prospect.budgetMax \in Nat
      /\ prospect.members \in Seq(Member) \ {<<>>}
      /\ prospect.rooms \in Span \cup {None} /\ prospect.space \in Span \cup {None}
      /\ prospect.floor \in Span \cup {None}
  BY ProspectFields DEF ProfileInv, TypeOK, Fits, ProspectTypes
<1> QED BY <1>1 DEF ProfileInv, OptionsAreFinite, ProspectRead

LEMMA EstateFields ==
    ASSUME ProfileInv
    PROVE  /\ EstateRead(estate) /\ estate.inside \in BOOLEAN
           /\ DOMAIN estate = DOMAIN EstateTypes
  BY DEF ProfileInv, TypeOK, Fits, EstateTypes, EstateRead

LEMMA ScoredFields ==
    ASSUME NEW e, DOMAIN e = DOMAIN EstateTypes
    PROVE  /\ \A f \in {"inside", "shortTerm", "price", "transfer", "rooms", "area", "floor", "floors",
                        "vacant", "aptType", "houseType", "options", "levels"} : Scored(e)[f] = e[f]
           /\ e.inside => /\ Scored(e).rentEnd = None
                          /\ \A f \in {"sources", "budget", "arrears", "pets", "ages", "family"} :
                                Scored(e)[f] = e[f]
           /\ ~e.inside => /\ Scored(e).rentEnd = e.rentEnd
                           /\ Scored(e).sources = Sources /\ Scored(e).budget = 30
                           /\ Scored(e).arrears = FALSE /\ Scored(e).pets = "small"
                           /\ Scored(e).ages = [min |-> 25, max |-> 65]
                           /\ Scored(e).family = [min |-> 1, max |-> 2]
<1>1. DOMAIN e = {"inside", "shortTerm", "price", "budget", "transfer", "rooms", "area", "floor", "floors",
                  "vacant", "rentEnd", "aptType", "houseType", "options", "levels", "sources",
                  "arrears", "ages", "family", "pets"}
  BY DEF EstateTypes
<1>2. CASE e.inside
  BY <1>1, <1>2 DEF Scored
<1>3. CASE ~e.inside
  BY <1>1, <1>3 DEF Scored
<1> QED BY <1>2, <1>3

LEMMA ScoredReads ==
    ASSUME NEW e, DOMAIN e = DOMAIN EstateTypes, EstateRead(e)
    PROVE  EstateRead(Scored(e)) /\ Scored(e).price = e.price
<1>1. /\ Scored(e).price = e.price /\ Scored(e).rooms = e.rooms /\ Scored(e).area = e.area
      /\ Scored(e).floors = e.floors /\ Scored(e).vacant = e.vacant
  BY ScoredFields
<1>2. CASE e.inside
  <2>1. /\ Scored(e).budget = e.budget /\ Scored(e).ages = e.ages /\ Scored(e).family = e.family
    BY <1>2, ScoredFields
  <2> QED BY <1>1, <2>1 DEF EstateRead
<1>3. CASE ~e.inside
  <2>1. /\ Scored(e).budget = 30 /\ Scored(e).ages = [min |-> 25, max |-> 65]
        /\ Scored(e).family = [min |-> 1, max |-> 2]
    BY <1>3, ScoredFields
  <2>2. [min |-> 25, max |-> 65] \in Span /\ [min |-> 1, max |-> 2] \in Span
    BY DEF Span
  <2> QED BY <1>1, <2>1, <2>2 DEF EstateRead
<1> QED BY <1>2, <1>3

LEMMA InRange == ProfileInv => ScoresInRange
<1> SUFFICES ASSUME ProfileInv PROVE ScoresInRange
  OBVIOUS
<1> DEFINE e == Scored(estate)
<1>1. ProspectRead(prospect) /\ EstateRead(e) /\ e.price = estate.price
  BY ProspectReads, EstateFields, ScoredReads
<1> HIDE DEF e
<1>2. /\ LandlordScore(prospect, e) \in 0 .. 40 * Scale
      /\ e.price > prospect.income => LandlordScore(prospect, e) = 0
  BY <1>1, LandlordRange
<1>3. /\ ProspectScore(prospect, e) \in 0 .. 40 * Scale
      /\ e.price > prospect.income => ProspectScore(prospect, e) = 0
  BY <1>1, ProspectRange
<1>4. Score \in {[landlord |-> LandlordScore(prospect, e), prospect |-> ProspectScore(prospect, e)],
                 [landlord |-> 0, prospect |-> 0]}
  BY DEF Score, MatchPercent, e
<1>5. 0 \in 0 .. 40 * Scale
  BY ScoreAssumption
<1>6. /\ Score.landlord \in 0 .. 40 * Scale /\ Score.prospect \in 0 .. 40 * Scale
  BY <1>2, <1>3, <1>4, <1>5
<1>7. estate.price > prospect.income => Score = [landlord |-> 0, prospect |-> 0]
  BY <1>1, <1>2, <1>3, <1>4
<1> QED BY <1>6, <1>7 DEF ScoresInRange

\* Neither score is negative or above a hundred percent, and a rent above the
\* income scores nothing: for any profiles, entered in any order.
THEOREM ScoresStayInRange == Spec => []ScoresInRange
  BY ProfilesStart, ProfilesStay, InRange, PTL DEF Spec

-----------------------------------------------------------------------------
\* What the search finds scores well.

LEMMA WithinFull ==
    ASSUME NEW x, NEW r, r.min <= x, x <= r.max, NEW below, NEW above
    PROVE  Within(x, r, below, above) = Scale
  BY DEF Within

LEMMA WantedFull ==
    ASSUME NEW x \in Nat, NEW r \in Span, r # None, OrOne(r.min) <= x, x <= OrOne(r.max),
           NEW below, NEW above
    PROVE  Within(x, Wanted(r), below, above) = Scale
<1>1. Wanted(r).min = r.min /\ Wanted(r).max = OrOne(r.max)
  BY DEF Wanted, Span
<1>2. r.min \in Nat /\ r.min <= OrOne(r.min)
  BY DEF Span, OrOne
<1>3. OrOne(r.min) \in Nat
  BY <1>2 DEF OrOne
<1>4. r.min <= x
  BY <1>2, <1>3
<1> QED BY <1>1, <1>4, WithinFull

LEMMA FoundWell == ProfileInv => FoundScoresWell
<1> SUFFICES ASSUME ProfileInv, Comparable, Found(prospect, estate)
             PROVE  Score.prospect >= 30 * Scale
  BY DEF FoundScoresWell
<1> DEFINE p == prospect
           e == Scored(estate)
<1>1. ProspectRead(p) /\ EstateRead(estate) /\ EstateRead(e)
  BY ProspectReads, EstateFields, ScoredReads
<1>2. /\ e.inside = estate.inside /\ e.price = estate.price /\ e.rooms = estate.rooms
      /\ e.area = estate.area /\ e.options = estate.options
  BY EstateFields, ScoredFields
<1>3. estate.inside /\ e.sources = estate.sources
  BY EstateFields, ScoredFields DEF Comparable
<1>4. Score = [landlord |-> LandlordScore(p, e), prospect |-> ProspectScore(p, e)]
  <2>1. StayFits(p, e) /\ proofs \cap e.sources # {}
    BY <1>3 DEF Comparable, StayFits
  <2> HIDE DEF e
  <2> QED BY <2>1 DEF Score, MatchPercent, e
<1>5. /\ p.budgetMax > 100 /\ estate.price <= p.income /\ p.income # 0
      /\ p.rooms # None /\ p.space # None /\ estate.rooms # 0 /\ estate.area # 0
  BY DEF Comparable
<1>6. /\ p.budgetMax \in Nat /\ p.income \in Nat /\ p.rooms \in Span /\ p.space \in Span
      /\ estate.price \in Nat /\ estate.rooms \in Nat /\ estate.area \in Nat
  BY <1>1, <1>5 DEF ProspectRead, EstateRead
<1> HIDE DEF p, e
<1>7. Scale \in Nat \ {0}
  BY ScoreAssumption
<1>8. ProspectBudgetScore(p, e) = Scale
  <2>1. Limit(p.budgetMax, p.income) = p.budgetMax
    BY <1>5 DEF Limit
  <2>2. estate.price <= p.budgetMax
    BY <1>5, <1>6, <2>1 DEF Found, BudgetFits, p
  <2> QED BY <1>2, <1>5, <1>6, <2>2 DEF ProspectBudgetScore
<1>9. RoomsScore(p, e) = Scale
  <2>1. OrOne(p.rooms.min) <= estate.rooms /\ estate.rooms <= OrOne(p.rooms.max)
    BY <1>5 DEF Found, RoomsFit, p
  <2>2. OrOne(e.rooms) = estate.rooms
    BY <1>2, <1>5 DEF OrOne
  <2> QED BY <1>5, <1>6, <2>1, <2>2, WantedFull DEF RoomsScore
<1>10. SpaceScore(p, e) = Scale
  <2>1. OrOne(p.space.min) <= estate.area /\ estate.area <= OrOne(p.space.max)
    BY <1>5 DEF Found, SpaceFits, p
  <2> QED BY <1>2, <1>5, <1>6, <2>1, WantedFull DEF SpaceScore
<1>11. p.options \subseteq e.options
  BY <1>2, <1>3 DEF Found, OptionsFit, p
<1>12. AmenitiesScore(p, e) = Scale
  <2>1. CASE p.options = {}
    BY <2>1 DEF AmenitiesScore
  <2>2. CASE p.options # {}
    <3>1. p.options \cap e.options = p.options
      BY <1>11
    <3>2. Cardinality(p.options) \in Nat \ {0}
      BY <1>1, <2>2, SomeOptions
    <3> QED BY <2>2, <3>1, <3>2, PartFull DEF AmenitiesScore
  <2> QED BY <2>1, <2>2
<1>13. FloorScore(p, e) \in 0 .. Scale /\ RentStartScore(e) \in 0 .. Scale
  BY <1>1, FloorRange, RentStartRange
<1>14. (p.options \cap Mandatory) \ e.options = {}
  BY <1>11
<1>15. ProspectScore(p, e) >= 30 * Scale
  BY <1>7, <1>8, <1>9, <1>10, <1>12, <1>13, <1>14 DEF ProspectScore
<1> QED BY <1>4, <1>15

\* An estate that the search finds for a prospect with rooms, space and a rent in
\* mind has three quarters of his score, for any profiles: the two places that
\* read them, 2500 lines apart, agree.
THEOREM FoundIsWorthShowing == Spec => []FoundScoresWell
  BY ProfilesStart, ProfilesStay, FoundWell, PTL DEF Spec

-----------------------------------------------------------------------------
\* Earning more, asking for less and offering more, criterion by criterion.

\* A share of a higher income, against a lower share of it that is asked for, is
\* a smaller excess: 1/income grows apart from 1/budget.
LEMMA SharesShrink ==
    ASSUME NEW P \in Nat, NEW R \in Nat, R <= P,
           NEW I \in Nat, NEW J \in Nat, I <= J,
           NEW B \in Nat, NEW C \in Nat, C <= B, I <= B, J <= C
    PROVE  (R * (C - J)) * (I * B) <= (P * (B - I)) * (J * C)
<1> DEFINE X == (C - J) * (I * B)
           Y == (B - I) * (J * C)
<1>1. C - J \in Nat /\ B - I \in Nat /\ I * B \in Nat /\ J * C \in Nat
  OBVIOUS
<1>2. X \in Nat /\ Y \in Nat
  BY <1>1
<1>3. X = (C * B) * I - (J * I) * B /\ Y = (C * B) * J - (J * I) * C
  OBVIOUS
<1>4. C * B \in Nat /\ J * I \in Nat
  OBVIOUS
<1>5. (C * B) * I <= (C * B) * J /\ (J * I) * C <= (J * I) * B
  BY <1>4, Products
<1>6. X <= Y
  <2> DEFINE a == (C * B) * I
             b == (C * B) * J
             c == (J * I) * C
             d == (J * I) * B
  <2>1. a \in Int /\ b \in Int /\ c \in Int /\ d \in Int /\ a <= b /\ c <= d
    BY <1>4, <1>5
  <2>2. X = a - d /\ Y = b - c
    BY <1>3
  <2> HIDE DEF a, b, c, d, X, Y
  <2> QED BY <2>1, <2>2
<1>7. (R * (C - J)) * (I * B) = R * X /\ (P * (B - I)) * (J * C) = P * Y
  BY <1>1
<1> HIDE DEF X, Y
<1>8. R * X <= P * X /\ P * X <= P * Y
  BY <1>2, <1>6, Products
<1>9. R * X \in Nat /\ P * X \in Nat /\ P * Y \in Nat
  BY <1>2
<1> QED BY <1>7, <1>8, <1>9

LEMMA BudgetNotWorse ==
    ASSUME NEW p, NEW q, NEW e, NEW f, ProspectRead(p), ProspectRead(q), EstateRead(e), EstateRead(f),
           p.income # 0, p.income <= q.income, f.price <= e.price, 0 < f.budget, f.budget <= e.budget
    PROVE  LandlordBudgetScore(p, e) <= LandlordBudgetScore(q, f)
<1>1. /\ p.income \in Nat /\ q.income \in Nat /\ e.price \in Nat /\ f.price \in Nat
      /\ e.budget \in Nat /\ f.budget \in Nat
  BY DEF ProspectRead, EstateRead
<1>2. Scale \in Nat /\ LandlordBudgetScore(p, e) \in 0 .. Scale
  BY LandlordBudgetRange, ScoreAssumption
<1>3. CASE f.price = 0 \/ f.budget <= q.income
  BY <1>1, <1>2, <1>3 DEF LandlordBudgetScore
<1>4. CASE f.price # 0 /\ ~(f.budget <= q.income)
  <2>1. /\ e.price # 0 /\ e.budget # 0 /\ f.budget # 0
        /\ ~(e.budget <= p.income) /\ q.income # 0
    BY <1>1, <1>4
  <2> DEFINE n == e.price * (e.budget - p.income)
             d == p.income * e.budget
             m == f.price * (f.budget - q.income)
             g == q.income * f.budget
  <2>2. e.budget - p.income \in Nat /\ f.budget - q.income \in Nat
    BY <1>1, <1>4, <2>1
  <2>3. n \in Nat /\ m \in Nat /\ d \in Nat \ {0} /\ g \in Nat \ {0}
    BY <1>1, <2>1, <2>2
  <2>4. p.income <= e.budget /\ q.income <= f.budget
    BY <1>1, <1>4, <2>1
  <2>5. m * d <= n * g
    BY <1>1, <2>4, SharesShrink
  <2>6. /\ LandlordBudgetScore(p, e) = Excess(n, d)
        /\ LandlordBudgetScore(q, f) = Excess(m, g)
    BY <1>4, <2>1 DEF LandlordBudgetScore
  <2> HIDE DEF n, d, m, g
  <2> QED BY <2>3, <2>5, <2>6, ExcessMonotone
<1> QED BY <1>3, <1>4

\* What a household may become: the same ages, no more debts, no less credit.
SameHousehold(p, q) ==
    /\ Len(p.members) = Len(q.members)
    /\ \A i \in DOMAIN p.members :
          /\ q.members[i].age = p.members[i].age
          /\ p.members[i].clean => q.members[i].clean
          /\ q.members[i].arrears => p.members[i].arrears

LEMMA SameDomain ==
    ASSUME NEW p, NEW q, ProspectRead(p), ProspectRead(q), SameHousehold(p, q)
    PROVE  DOMAIN p.members = DOMAIN q.members
  BY SomebodyLives DEF SameHousehold

LEMMA CreditNotWorse ==
    ASSUME NEW p, NEW q, ProspectRead(p), ProspectRead(q), SameHousehold(p, q)
    PROVE  CreditScore(p) <= CreditScore(q)
<1> DEFINE S == {i \in DOMAIN p.members : p.members[i].clean}
           T == {i \in DOMAIN q.members : q.members[i].clean}
           n == Len(p.members)
<1>1. S \in SUBSET T
  BY SameDomain DEF SameHousehold
<1>2. IsFiniteSet(T) /\ Cardinality(T) \in Nat /\ Cardinality(S) \in Nat
  BY SomeMembers
<1>3. Cardinality(S) <= Cardinality(T)
  <2> HIDE DEF S, T
  <2> QED BY <1>1, <1>2, FS_Subset
<1>4. n \in Nat \ {0} /\ n = Len(q.members)
  BY SomebodyLives DEF SameHousehold
<1>5. CreditScore(p) = Part(Cardinality(S), n) /\ CreditScore(q) = Part(Cardinality(T), n)
  BY <1>4 DEF CreditScore
<1> HIDE DEF S, T, n
<1>6. Cardinality(S) * n <= Cardinality(T) * n
  BY <1>2, <1>3, <1>4, Products
<1> QED BY <1>2, <1>4, <1>5, <1>6, PartMonotone

LEMMA ArrearsNotWorse ==
    ASSUME NEW p, NEW q, NEW e, NEW f, ProspectRead(p), ProspectRead(q), SameHousehold(p, q),
           e.arrears => f.arrears
    PROVE  ArrearsScore(p, e) <= ArrearsScore(q, f)
<1>1. (\A i \in DOMAIN p.members : ~p.members[i].arrears) => \A i \in DOMAIN q.members : ~q.members[i].arrears
  BY SameDomain DEF SameHousehold
<1> QED BY <1>1, ScoreAssumption DEF ArrearsScore

\* Nobody is too old when somebody is too young, or the ages that are asked for
\* stay as they are.
LEMMA AgesNotWorse ==
    ASSUME NEW p, NEW q, NEW e, NEW f, ProspectRead(p), ProspectRead(q), EstateRead(e), EstateRead(f),
           SameHousehold(p, q), 0 < f.ages.min, Wider(e.ages, f.ages),
           OneSided(p, e) \/ e.ages = f.ages
    PROVE  AgeScore(p, e) <= AgeScore(q, f)
<1> DEFINE A == Ages(p)
<1>1. /\ e.ages.min \in Nat /\ e.ages.max \in Nat /\ f.ages.min \in Nat /\ f.ages.max \in Nat
      /\ f.ages.min <= e.ages.min /\ e.ages.max <= f.ages.max
  BY DEF EstateRead, Span, Wider
<1>2. AgeScore(p, e) \in 0 .. Scale /\ AgeScore(q, f) \in 0 .. Scale /\ Scale \in Nat
  BY AgeRange, ScoreAssumption
<1>3. DOMAIN p.members = DOMAIN q.members /\ \A i \in DOMAIN p.members : q.members[i].age = p.members[i].age
  BY SameDomain DEF SameHousehold
<1>4. Ages(q) = A /\ \A r : AllFit(p, r) <=> AllFit(q, r)
  BY <1>3 DEF Ages, AllFit
<1>5. CASE e.ages = f.ages
  BY <1>2, <1>4, <1>5, AgeScoreIs
<1>6. CASE AllFit(q, f.ages) \/ e.ages.max = 0
  BY <1>1, <1>2, <1>6, AgeScoreIs
<1>7. CASE OneSided(p, e) /\ ~AllFit(q, f.ages) /\ e.ages.max # 0
  <2>1. A \in SUBSET Nat /\ IsFiniteSet(A)
    BY AgesAreFinite
  <2>2. \A i \in DOMAIN p.members : p.members[i].age \in A
    BY <1>7 DEF OneSided, Ages
  <2>3. \/ \A a \in A : a <= e.ages.max
        \/ \A a \in A : a >= e.ages.min
    BY <1>7 DEF OneSided, Ages
  <2>4. PICK i \in DOMAIN p.members : ~(f.ages.min <= p.members[i].age /\ p.members[i].age <= f.ages.max)
    BY <1>3, <1>7 DEF AllFit, OneSided
  <2>5. PICK a \in A : ~(f.ages.min <= a /\ a <= f.ages.max)
    BY <2>2, <2>4
  <2>6. a \in Nat /\ A # {}
    BY <2>1, <2>5
  <2>7. ~AllFit(p, e.ages)
    BY <1>1, <2>1, <2>2, <2>4 DEF AllFit
  <2>8. e.ages.min # 0 /\ f.ages.max # 0 /\ f.ages.min # 0
    BY <1>1, <1>7
  <2> HIDE DEF A
  <2>9. CASE a > f.ages.max
    <3> DEFINE h == Highest(A)
    <3>1. h \in A /\ a <= h /\ h \in Nat
      BY <2>1, <2>6, <2>5, HighestOfAges
    <3> HIDE DEF h
    <3>2. h - f.ages.max \in Nat /\ h - e.ages.max \in Nat /\ h - f.ages.max <= h - e.ages.max
      BY <1>1, <2>6, <2>9, <3>1
    <3>3. Fall(h - e.ages.max, 51) <= Fall(h - f.ages.max, 51)
      BY <3>2, FallMonotone
    <3>4. a > e.ages.max
      BY <1>1, <2>6, <2>9
    <3>5. AgeScore(p, e) = Fall(h - e.ages.max, 51)
      BY <1>7, <2>5, <2>7, <2>8, <3>4, AgeScoreIs DEF h, A
    <3>6. AgeScore(q, f) = Fall(h - f.ages.max, 51)
      BY <1>4, <1>7, <2>5, <2>8, <2>9, AgeScoreIs DEF h
    <3> QED BY <3>3, <3>5, <3>6
  <2>10. CASE a < f.ages.min
    <3> DEFINE h == Lowest(A)
    <3>1. h \in A /\ h <= a /\ h \in Nat
      BY <2>1, <2>6, <2>5, LowestOfAges
    <3> HIDE DEF h
    <3>2. f.ages.min - h \in Nat /\ e.ages.min - h \in Nat /\ f.ages.min - h <= e.ages.min - h
      BY <1>1, <2>6, <2>10, <3>1
    <3>3. Fall(e.ages.min - h, 51) <= Fall(f.ages.min - h, 51)
      BY <3>2, FallMonotone
    <3>4. a < e.ages.min
      BY <1>1, <2>6, <2>10
    <3>5. \A b \in A : b \in Nat /\ b <= e.ages.max
      BY <1>1, <2>1, <2>3, <2>5, <2>6, <3>4
    <3>6. \A b \in A : ~(b > e.ages.max) /\ ~(b > f.ages.max)
      BY <1>1, <3>5
    <3>7. AgeScore(p, e) = Fall(e.ages.min - h, 51)
      BY <1>7, <2>5, <2>7, <2>8, <3>4, <3>6, AgeScoreIs DEF h, A
    <3>8. AgeScore(q, f) = Fall(f.ages.min - h, 51)
      BY <1>4, <1>7, <2>5, <2>8, <2>10, <3>6, AgeScoreIs DEF h
    <3> QED BY <3>3, <3>7, <3>8
  <2> QED BY <1>1, <2>5, <2>6, <2>9, <2>10
<1> QED BY <1>5, <1>6, <1>7

LEMMA HouseholdNotWorse ==
    ASSUME NEW p, NEW q, NEW e, NEW f, ProspectRead(p), ProspectRead(q), EstateRead(e), EstateRead(f),
           SameHousehold(p, q), 0 < f.family.min, Ordered(e.family), Wider(e.family, f.family)
    PROVE  HouseholdScore(p, e) <= HouseholdScore(q, f)
<1>1. e.family \in Span /\ f.family \in Span
  BY DEF EstateRead
<1>2. Ones(e.family) \in Span /\ Ones(f.family) \in Span
  BY <1>1, OnesSpan
<1>3. /\ e.family.min \in Nat /\ e.family.max \in Nat /\ f.family.min \in Nat /\ f.family.max \in Nat
  BY <1>1 DEF Span
<1>4. Ordered(Ones(e.family)) /\ Wider(Ones(e.family), Ones(f.family))
  BY <1>3 DEF Ordered, Wider, Ones, OrOne
<1>5. Len(p.members) \in Nat /\ Len(q.members) = Len(p.members)
  BY SomebodyLives DEF SameHousehold
<1>6. Within(Len(p.members), Ones(e.family), 11, 11) <= Within(Len(p.members), Ones(f.family), 11, 11)
  BY <1>2, <1>4, <1>5, WithinMonotone
<1> QED BY <1>5, <1>6 DEF HouseholdScore, Ones

\* What is scored of somebody whose life got easier, part by part.
EasierLandlord(p, q, e, f) ==
    /\ p.active => q.active
    /\ p.income <= q.income /\ p.pets = q.pets /\ SameHousehold(p, q)
    /\ f.price <= e.price /\ 0 < f.budget /\ f.budget <= e.budget
    /\ 0 < f.ages.min /\ Wider(e.ages, f.ages) /\ (OneSided(p, e) \/ e.ages = f.ages)
    /\ 0 < f.family.min /\ Ordered(e.family) /\ Wider(e.family, f.family)
    /\ e.arrears => f.arrears
    /\ e.pets = f.pets

EasierProspect(p, q, e, f) ==
    /\ p.income <= q.income /\ p.budgetMax <= q.budgetMax /\ f.price <= e.price
    /\ \A field \in {"rooms", "space", "floor"} :
          p[field] # None /\ q[field] # None /\ Ordered(p[field]) /\ Wider(p[field], q[field])
    /\ p.aptTypes \subseteq q.aptTypes /\ p.houseTypes \subseteq q.houseTypes
    /\ p.options = q.options /\ e.options \subseteq f.options
    /\ \A field \in {"rooms", "area", "floors", "vacant", "aptType", "houseType"} : e[field] = f[field]

LEMMA LandlordNotWorse ==
    ASSUME NEW p, NEW q, NEW e, NEW f, ProspectRead(p), ProspectRead(q), EstateRead(e), EstateRead(f),
           EasierLandlord(p, q, e, f)
    PROVE  LandlordScore(p, e) <= LandlordScore(q, f)
<1>1. /\ p.income \in Nat /\ q.income \in Nat /\ e.price \in Nat /\ f.price \in Nat
      /\ p.income <= q.income /\ f.price <= e.price
  BY DEF ProspectRead, EstateRead, EasierLandlord
<1>2. LandlordScore(q, f) \in 0 .. 40 * Scale /\ Scale \in Nat
  BY LandlordRange, ScoreAssumption
<1> DEFINE Out == \/ ~p.active \/ p.income = 0 \/ e.price > p.income
                  \/ LandlordBudgetScore(p, e) = 0 \/ AgeScore(p, e) = 0 \/ HouseholdScore(p, e) = 0
<1>3. CASE Out
  BY <1>2, <1>3 DEF LandlordScore
<1>4. CASE ~Out
  <2>1. p.income # 0 /\ q.income # 0 /\ q.active /\ ~(f.price > q.income)
    BY <1>1, <1>4 DEF EasierLandlord
  <2>2. /\ LandlordBudgetScore(p, e) \in 0 .. Scale /\ LandlordBudgetScore(q, f) \in 0 .. Scale
        /\ LandlordBudgetScore(p, e) <= LandlordBudgetScore(q, f)
    BY <2>1, LandlordBudgetRange, BudgetNotWorse DEF EasierLandlord
  <2>3. CreditScore(p) \in 0 .. Scale /\ CreditScore(q) \in 0 .. Scale /\ CreditScore(p) <= CreditScore(q)
    BY CreditRange, CreditNotWorse DEF EasierLandlord
  <2>4. /\ ArrearsScore(p, e) \in 0 .. Scale /\ ArrearsScore(q, f) \in 0 .. Scale
        /\ ArrearsScore(p, e) <= ArrearsScore(q, f)
    BY ArrearsRange, ArrearsNotWorse DEF EasierLandlord
  <2>5. AgeScore(p, e) \in 0 .. Scale /\ AgeScore(q, f) \in 0 .. Scale /\ AgeScore(p, e) <= AgeScore(q, f)
    BY AgeRange, AgesNotWorse DEF EasierLandlord
  <2>6. /\ HouseholdScore(p, e) \in 0 .. Scale /\ HouseholdScore(q, f) \in 0 .. Scale
        /\ HouseholdScore(p, e) <= HouseholdScore(q, f)
    BY HouseholdRange, HouseholdNotWorse DEF EasierLandlord
  <2>7. (p.pets = e.pets) = (q.pets = f.pets)
    BY DEF EasierLandlord
  <2>8. ~(\/ ~q.active \/ q.income = 0 \/ f.price > q.income
          \/ LandlordBudgetScore(q, f) = 0 \/ AgeScore(q, f) = 0 \/ HouseholdScore(q, f) = 0)
    BY <1>4, <2>1, <2>2, <2>5, <2>6
  <2> QED BY <1>2, <1>4, <2>2, <2>3, <2>4, <2>5, <2>6, <2>7, <2>8 DEF LandlordScore
<1> QED BY <1>3, <1>4

LEMMA ProspectBudgetNotWorse ==
    ASSUME NEW p, NEW q, NEW e, NEW f, ProspectRead(p), ProspectRead(q), EstateRead(e), EstateRead(f),
           EasierProspect(p, q, e, f)
    PROVE  ProspectBudgetScore(p, e) <= ProspectBudgetScore(q, f)
<1>1. /\ p.income \in Nat /\ q.income \in Nat /\ e.price \in Nat /\ f.price \in Nat
      /\ p.budgetMax \in Nat /\ q.budgetMax \in Nat
      /\ p.income <= q.income /\ f.price <= e.price /\ p.budgetMax <= q.budgetMax
  BY DEF ProspectRead, EstateRead, EasierProspect
<1>2. /\ ProspectBudgetScore(p, e) \in 0 .. Scale /\ ProspectBudgetScore(q, f) \in 0 .. Scale
      /\ Scale \in Nat
  BY ProspectBudgetRange, ScoreAssumption
<1>3. CASE p.income = 0 \/ e.price > p.income
  BY <1>2, <1>3 DEF ProspectBudgetScore
<1>4. CASE ~(p.income = 0 \/ e.price > p.income) /\ f.price <= q.budgetMax
  BY <1>1, <1>2, <1>4 DEF ProspectBudgetScore
<1>5. CASE ~(p.income = 0 \/ e.price > p.income) /\ ~(f.price <= q.budgetMax)
  <2>1. /\ ~(q.income = 0 \/ f.price > q.income) /\ ~(e.price <= p.budgetMax)
        /\ p.income # 0 /\ q.income # 0
    BY <1>1, <1>5
  <2> DEFINE n == e.price - p.budgetMax
             m == f.price - q.budgetMax
  <2>2. n \in Nat /\ m \in Nat /\ m <= n
    BY <1>1, <1>5, <2>1
  <2>3. /\ ProspectBudgetScore(p, e) = Excess(n, p.income)
        /\ ProspectBudgetScore(q, f) = Excess(m, q.income)
    BY <1>5, <2>1 DEF ProspectBudgetScore
  <2> HIDE DEF n, m
  <2>4. m * p.income <= n * p.income /\ n * p.income <= n * q.income
    BY <1>1, <2>2, Products
  <2>5. m * p.income <= n * q.income
    <3>1. m * p.income \in Nat /\ n * p.income \in Nat /\ n * q.income \in Nat
      BY <1>1, <2>2
    <3> QED BY <2>4, <3>1
  <2> QED BY <1>1, <2>1, <2>2, <2>3, <2>5, ExcessMonotone
<1> QED BY <1>3, <1>4, <1>5

LEMMA WantedWider ==
    ASSUME NEW r \in Span, NEW s \in Span, r # None, s # None, Ordered(r), Wider(r, s)
    PROVE  Ordered(Wanted(r)) /\ Wider(Wanted(r), Wanted(s))
<1>1. /\ Wanted(r).min = r.min /\ Wanted(r).max = OrOne(r.max)
      /\ Wanted(s).min = s.min /\ Wanted(s).max = OrOne(s.max)
  BY DEF Wanted, Span
<1>2. r.min \in Nat /\ r.max \in Nat /\ s.min \in Nat /\ s.max \in Nat
  BY DEF Span
<1> QED BY <1>1, <1>2 DEF Ordered, Wider, OrOne

LEMMA RangesNotWorse ==
    ASSUME NEW p, NEW q, NEW e, NEW f, ProspectRead(p), ProspectRead(q), EstateRead(e), EstateRead(f),
           EasierProspect(p, q, e, f)
    PROVE  /\ RoomsScore(p, e) <= RoomsScore(q, f)
           /\ SpaceScore(p, e) <= SpaceScore(q, f)
           /\ FloorScore(p, e) <= FloorScore(q, f)
<1>1. /\ e.rooms \in Nat /\ e.area \in Nat /\ e.floors \in Nat
      /\ e.rooms = f.rooms /\ e.area = f.area /\ e.floors = f.floors
  BY DEF EstateRead, EasierProspect
<1>2. /\ p.rooms \in Span /\ q.rooms \in Span /\ p.rooms # None /\ q.rooms # None
      /\ Ordered(p.rooms) /\ Wider(p.rooms, q.rooms)
  BY DEF ProspectRead, EasierProspect
<1>3. /\ p.space \in Span /\ q.space \in Span /\ p.space # None /\ q.space # None
      /\ Ordered(p.space) /\ Wider(p.space, q.space)
  BY DEF ProspectRead, EasierProspect
<1>4. /\ p.floor \in Span /\ q.floor \in Span /\ p.floor # None /\ q.floor # None
      /\ Ordered(p.floor) /\ Wider(p.floor, q.floor)
  BY DEF ProspectRead, EasierProspect
<1>5. OrOne(e.rooms) \in Nat /\ OrOne(e.rooms) = OrOne(f.rooms)
  BY <1>1 DEF OrOne
<1>6. /\ Wanted(p.rooms) \in Span /\ Wanted(q.rooms) \in Span
      /\ Ordered(Wanted(p.rooms)) /\ Wider(Wanted(p.rooms), Wanted(q.rooms))
  BY <1>2, WantedSpan, WantedWider
<1>7. /\ Wanted(p.space) \in Span /\ Wanted(q.space) \in Span
      /\ Ordered(Wanted(p.space)) /\ Wider(Wanted(p.space), Wanted(q.space))
  BY <1>3, WantedSpan, WantedWider
<1>8. Within(OrOne(e.rooms), Wanted(p.rooms), 15, 25) <= Within(OrOne(e.rooms), Wanted(q.rooms), 15, 25)
  BY <1>5, <1>6, WithinMonotone
<1>9. Within(e.area, Wanted(p.space), 51, 101) <= Within(e.area, Wanted(q.space), 51, 101)
  BY <1>1, <1>7, WithinMonotone
<1>10. Within(e.floors, p.floor, 11, 11) <= Within(e.floors, q.floor, 11, 11)
  BY <1>1, <1>4, WithinMonotone
<1> QED BY <1>1, <1>4, <1>5, <1>8, <1>9, <1>10 DEF RoomsScore, SpaceScore, FloorScore

LEMMA AmenitiesNotWorse ==
    ASSUME NEW p, NEW q, NEW e, NEW f, ProspectRead(p), ProspectRead(q), EasierProspect(p, q, e, f)
    PROVE  AmenitiesScore(p, e) <= AmenitiesScore(q, f)
<1>1. p.options = q.options /\ e.options \subseteq f.options
  BY DEF EasierProspect
<1>2. CASE p.options = {}
  BY <1>1, <1>2, ScoreAssumption DEF AmenitiesScore
<1>3. CASE p.options # {}
  <2> DEFINE S == p.options \cap e.options
             T == p.options \cap f.options
             n == Cardinality(p.options)
  <2>1. S \in SUBSET p.options /\ T \in SUBSET p.options /\ S \in SUBSET T
    BY <1>1
  <2>2. /\ AmenitiesScore(p, e) = Part(Cardinality(S), n)
        /\ AmenitiesScore(q, f) = Part(Cardinality(T), n)
    BY <1>1, <1>3 DEF AmenitiesScore
  <2> HIDE DEF S, T
  <2>3. /\ Cardinality(S) \in Nat /\ Cardinality(T) \in Nat /\ n \in Nat \ {0} /\ IsFiniteSet(T)
    BY <1>3, <2>1, SomeOptions
  <2>4. Cardinality(S) <= Cardinality(T)
    BY <2>1, <2>3, FS_Subset
  <2> HIDE DEF n
  <2>5. Cardinality(S) * n <= Cardinality(T) * n
    BY <2>3, <2>4, Products
  <2> QED BY <2>2, <2>3, <2>5, PartMonotone
<1> QED BY <1>2, <1>3

LEMMA ProspectNotWorse ==
    ASSUME NEW p, NEW q, NEW e, NEW f, ProspectRead(p), ProspectRead(q), EstateRead(e), EstateRead(f),
           EasierProspect(p, q, e, f)
    PROVE  ProspectScore(p, e) <= ProspectScore(q, f)
<1>1. ProspectScore(q, f) \in 0 .. 40 * Scale /\ Scale \in Nat
  BY ProspectRange, ScoreAssumption
<1>2. /\ ProspectBudgetScore(p, e) \in 0 .. Scale /\ ProspectBudgetScore(q, f) \in 0 .. Scale
      /\ ProspectBudgetScore(p, e) <= ProspectBudgetScore(q, f)
  BY ProspectBudgetRange, ProspectBudgetNotWorse
<1>3. /\ RoomsScore(p, e) \in 0 .. Scale /\ RoomsScore(q, f) \in 0 .. Scale
      /\ SpaceScore(p, e) \in 0 .. Scale /\ SpaceScore(q, f) \in 0 .. Scale
      /\ FloorScore(p, e) \in 0 .. Scale /\ FloorScore(q, f) \in 0 .. Scale
  BY RoomsRange, SpaceRange, FloorRange
<1>4. /\ RoomsScore(p, e) <= RoomsScore(q, f) /\ SpaceScore(p, e) <= SpaceScore(q, f)
      /\ FloorScore(p, e) <= FloorScore(q, f)
  BY RangesNotWorse
<1>5. RentStartScore(e) = RentStartScore(f) /\ RentStartScore(e) \in 0 .. Scale
  BY RentStartRange DEF RentStartScore, EasierProspect
<1>6. /\ AmenitiesScore(p, e) \in 0 .. Scale /\ AmenitiesScore(q, f) \in 0 .. Scale
      /\ AmenitiesScore(p, e) <= AmenitiesScore(q, f)
  BY AmenitiesRange, AmenitiesNotWorse
<1>7. (e.aptType \in p.aptTypes => f.aptType \in q.aptTypes)
      /\ (e.houseType \in p.houseTypes => f.houseType \in q.houseTypes)
  BY DEF EasierProspect
<1>8. (p.options \cap Mandatory) \ e.options = {} => (q.options \cap Mandatory) \ f.options = {}
  BY DEF EasierProspect
<1> DEFINE a == IF e.aptType \in p.aptTypes THEN Scale ELSE 0
           b == IF f.aptType \in q.aptTypes THEN Scale ELSE 0
           c == IF e.houseType \in p.houseTypes THEN Scale ELSE 0
           d == IF f.houseType \in q.houseTypes THEN Scale ELSE 0
<1>9. a \in Nat /\ b \in Nat /\ c \in Nat /\ d \in Nat /\ a <= b /\ c <= d
  BY <1>1, <1>7
<1> DEFINE Out(r, g) == \/ ProspectBudgetScore(r, g) = 0 \/ RoomsScore(r, g) = 0 \/ SpaceScore(r, g) = 0
                        \/ (r.options \cap Mandatory) \ g.options # {}
<1>10. /\ ProspectScore(p, e) =
             IF Out(p, e) THEN 0
             ELSE 20 * ProspectBudgetScore(p, e) + 2 * RoomsScore(p, e) + 4 * SpaceScore(p, e)
                  + 3 * FloorScore(p, e) + 5 * RentStartScore(e) + a + c + 4 * AmenitiesScore(p, e)
       /\ ProspectScore(q, f) =
             IF Out(q, f) THEN 0
             ELSE 20 * ProspectBudgetScore(q, f) + 2 * RoomsScore(q, f) + 4 * SpaceScore(q, f)
                  + 3 * FloorScore(q, f) + 5 * RentStartScore(f) + b + d + 4 * AmenitiesScore(q, f)
  BY DEF ProspectScore
<1>11. Out(q, f) => Out(p, e)
  BY <1>1, <1>2, <1>3, <1>4, <1>8
<1> HIDE DEF a, b, c, d, Out
<1> QED BY <1>1, <1>2, <1>3, <1>4, <1>5, <1>6, <1>9, <1>10, <1>11

\* The change of the profiles, as it is scored.
LEMMA EasierIsScored ==
    ASSUME NEW p, NEW q, NEW e, NEW f, DOMAIN p = DOMAIN ProspectTypes,
           DOMAIN e = DOMAIN EstateTypes, DOMAIN f = DOMAIN EstateTypes,
           Easier(p, q, e, f)
    PROVE  EasierLandlord(p, q, Scored(e), Scored(f)) /\ EasierProspect(p, q, Scored(e), Scored(f))
<1>1. \A g \in {"pets", "options"} : q[g] = p[g]
  BY ProspectFields DEF Easier, SameFields
<1>2. \A g \in {"inside", "rooms", "area", "floors", "vacant", "aptType", "houseType", "pets"} : f[g] = e[g]
  BY DEF Easier, SameFields, EstateTypes
<1>3. SameHousehold(p, q)
  BY DEF Easier, SameHousehold
<1>4. /\ \A g \in {"rooms", "area", "floors", "vacant", "aptType", "houseType"} : Scored(e)[g] = Scored(f)[g]
      /\ Scored(e).price = e.price /\ Scored(f).price = f.price
      /\ Scored(e).options = e.options /\ Scored(f).options = f.options
  <2>1. /\ Scored(e).rooms = e.rooms /\ Scored(e).area = e.area /\ Scored(e).floors = e.floors
        /\ Scored(e).vacant = e.vacant /\ Scored(e).aptType = e.aptType
        /\ Scored(e).houseType = e.houseType /\ Scored(e).price = e.price
        /\ Scored(e).options = e.options
    BY ScoredFields
  <2>2. /\ Scored(f).rooms = f.rooms /\ Scored(f).area = f.area /\ Scored(f).floors = f.floors
        /\ Scored(f).vacant = f.vacant /\ Scored(f).aptType = f.aptType
        /\ Scored(f).houseType = f.houseType /\ Scored(f).price = f.price
        /\ Scored(f).options = f.options
    BY ScoredFields
  <2> QED BY <1>2, <2>1, <2>2
<1>5. CASE e.inside
  <2>1. /\ Scored(e).budget = e.budget /\ Scored(f).budget = f.budget
        /\ Scored(e).ages = e.ages /\ Scored(f).ages = f.ages
        /\ Scored(e).family = e.family /\ Scored(f).family = f.family
        /\ Scored(e).arrears = e.arrears /\ Scored(f).arrears = f.arrears
        /\ Scored(e).pets = e.pets /\ Scored(f).pets = f.pets
    BY <1>2, <1>5, ScoredFields
  <2>2. EasierLandlord(p, q, Scored(e), Scored(f))
    BY <1>1, <1>2, <1>3, <1>4, <2>1 DEF Easier, EasierLandlord, OneSided
  <2> QED BY <1>1, <1>4, <2>2 DEF Easier, EasierProspect
<1>6. CASE ~e.inside
  <2>1. /\ Scored(e).budget = 30 /\ Scored(f).budget = 30
        /\ Scored(e).ages = [min |-> 25, max |-> 65] /\ Scored(f).ages = [min |-> 25, max |-> 65]
        /\ Scored(e).family = [min |-> 1, max |-> 2] /\ Scored(f).family = [min |-> 1, max |-> 2]
        /\ Scored(e).arrears = FALSE /\ Scored(f).arrears = FALSE
        /\ Scored(e).pets = "small" /\ Scored(f).pets = "small"
    BY <1>2, <1>6, ScoredFields
  <2>2. EasierLandlord(p, q, Scored(e), Scored(f))
    BY <1>1, <1>3, <1>4, <2>1 DEF Easier, EasierLandlord, Ordered, Wider
  <2> QED BY <1>1, <1>4, <2>2 DEF Easier, EasierProspect
<1> QED BY <1>5, <1>6

LEMMA StayStillFits ==
    ASSUME NEW p, NEW q, NEW e, NEW f, DOMAIN e = DOMAIN EstateTypes, DOMAIN f = DOMAIN EstateTypes,
           Easier(p, q, e, f), NEW s \in SUBSET Sources, NEW t \in SUBSET Sources, s \subseteq t,
           StayFits(p, Scored(e)), s \cap Scored(e).sources # {}
    PROVE  StayFits(q, Scored(f)) /\ t \cap Scored(f).sources # {}
<1>1. f.inside = e.inside /\ f.shortTerm = e.shortTerm /\ f.vacant = e.vacant /\ f.rentEnd = e.rentEnd
  BY DEF Easier, SameFields, EstateTypes
<1>2. q.stay \in {None, p.stay} /\ e.sources \subseteq f.sources
  BY DEF Easier
<1>3. /\ Scored(e).inside = e.inside /\ Scored(f).inside = f.inside
      /\ Scored(e).shortTerm = e.shortTerm /\ Scored(f).shortTerm = f.shortTerm
      /\ Scored(e).vacant = e.vacant /\ Scored(f).vacant = f.vacant
  BY ScoredFields
<1>4. Scored(e).rentEnd = Scored(f).rentEnd /\ Scored(e).sources \subseteq Scored(f).sources
  <2>1. CASE e.inside
    <3>1. Scored(e).rentEnd = None /\ Scored(e).sources = e.sources
      BY <2>1, ScoredFields
    <3>2. Scored(f).rentEnd = None /\ Scored(f).sources = f.sources
      BY <1>1, <2>1, ScoredFields
    <3> QED BY <1>2, <3>1, <3>2
  <2>2. CASE ~e.inside
    <3>1. Scored(e).rentEnd = e.rentEnd /\ Scored(e).sources = Sources
      BY <2>2, ScoredFields
    <3>2. Scored(f).rentEnd = f.rentEnd /\ Scored(f).sources = Sources
      BY <1>1, <2>2, ScoredFields
    <3> QED BY <1>1, <3>1, <3>2
  <2> QED BY <2>1, <2>2
<1>5. StayFits(q, Scored(f))
  BY <1>1, <1>2, <1>3, <1>4 DEF StayFits
<1> QED BY <1>4, <1>5

LEMMA ScoreNotWorse ==
    ASSUME NEW p, NEW q, NEW e, NEW f, ProspectRead(p), ProspectRead(q), EstateRead(e), EstateRead(f),
           DOMAIN p = DOMAIN ProspectTypes, DOMAIN e = DOMAIN EstateTypes, DOMAIN f = DOMAIN EstateTypes,
           Easier(p, q, e, f), NEW s \in SUBSET Sources, NEW t \in SUBSET Sources, s \subseteq t
    PROVE  /\ MatchPercent(p, e, s).landlord <= MatchPercent(q, f, t).landlord
           /\ MatchPercent(p, e, s).prospect <= MatchPercent(q, f, t).prospect
<1> DEFINE E == Scored(e)
           F == Scored(f)
<1>1. EstateRead(E) /\ EstateRead(F)
  BY ScoredReads
<1>2. EasierLandlord(p, q, E, F) /\ EasierProspect(p, q, E, F)
  BY EasierIsScored
<1>3. StayFits(p, E) /\ s \cap E.sources # {} => StayFits(q, F) /\ t \cap F.sources # {}
  BY StayStillFits
<1>4. /\ MatchPercent(p, e, s) =
           IF StayFits(p, E) /\ s \cap E.sources # {}
           THEN [landlord |-> LandlordScore(p, E), prospect |-> ProspectScore(p, E)]
           ELSE [landlord |-> 0, prospect |-> 0]
      /\ MatchPercent(q, f, t) =
           IF StayFits(q, F) /\ t \cap F.sources # {}
           THEN [landlord |-> LandlordScore(q, F), prospect |-> ProspectScore(q, F)]
           ELSE [landlord |-> 0, prospect |-> 0]
  BY DEF MatchPercent
<1> HIDE DEF E, F
<1>5. LandlordScore(p, E) <= LandlordScore(q, F) /\ ProspectScore(p, E) <= ProspectScore(q, F)
  BY <1>1, <1>2, LandlordNotWorse, ProspectNotWorse
<1>6. LandlordScore(q, F) \in 0 .. 40 * Scale /\ ProspectScore(q, F) \in 0 .. 40 * Scale
  BY <1>1, LandlordRange, ProspectRange
<1>7. Scale \in Nat
  BY ScoreAssumption
<1> QED BY <1>3, <1>4, <1>5, <1>6, <1>7

LEMMA StepNotWorse ==
    ASSUME ProfileInv, ProfileInv', Easier(prospect, prospect', estate, estate'), proofs \subseteq proofs'
    PROVE  Score.landlord <= Score'.landlord /\ Score.prospect <= Score'.prospect
<1>1. /\ ProspectRead(prospect) /\ DOMAIN prospect = DOMAIN ProspectTypes
      /\ EstateRead(estate) /\ DOMAIN estate = DOMAIN EstateTypes
  BY ProspectReads, EstateFields DEF ProfileInv, TypeOK, Fits
<1>2. /\ prospect'.active \in BOOLEAN /\ prospect'.income \in Nat /\ prospect'.budgetMax \in Nat
      /\ prospect'.members \in Seq(Member) \ {<<>>}
      /\ prospect'.rooms \in Span \cup {None} /\ prospect'.space \in Span \cup {None}
      /\ prospect'.floor \in Span \cup {None}
  BY ProspectFields DEF ProfileInv, TypeOK, Fits, ProspectTypes
<1>3. ProspectRead(prospect')
  BY <1>2 DEF ProfileInv, OptionsAreFinite, ProspectRead
<1>4. EstateRead(estate') /\ DOMAIN estate' = DOMAIN EstateTypes
  BY DEF ProfileInv, TypeOK, Fits, EstateTypes, EstateRead
<1>5. proofs \in SUBSET Sources /\ proofs' \in SUBSET Sources
  BY DEF ProfileInv, TypeOK
<1> QED BY <1>1, <1>3, <1>4, <1>5, ScoreNotWorse DEF Score

\* Whoever earns more, asks for less or is offered more never loses points, on
\* either side, for any profiles whose ranges end after they start.
THEOREM EasierIsNeverWorse == Spec => EasierNeverWorse
<1> DEFINE A == Easier(prospect, prospect', estate, estate') /\ proofs \subseteq proofs'
                => Score.landlord <= Score'.landlord /\ Score.prospect <= Score'.prospect
<1>1. ProfileInv /\ [Next]_vars => A
  BY ProfilesStay, StepNotWorse
<1> QED BY ProfilesStart, ProfilesStay, <1>1, PTL DEF Spec, EasierNeverWorse
=============================================================================
