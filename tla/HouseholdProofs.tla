-------------------------- MODULE HouseholdProofs --------------------------
(***************************************************************************)
(* Owners and rows of members tell the same story, for any number of       *)
(* prospects and rows.  A removal renumbers the rows; the proofs are about *)
(* rows at any positions, numbered anew at the end.                        *)
(***************************************************************************)
EXTENDS Households, SequenceTheorems, TLAPS

\* For users reg, their owners own, and rows f at positions D:

WellTyped(reg, own, D, f) ==
    /\ reg \subseteq Users
    /\ own \in [Users -> Users \cup {None}]
    /\ \A u \in Users : own[u] # None => u \in reg /\ own[u] \in reg /\ own[own[u]] = None
    /\ D \subseteq Nat
    /\ \A i \in D : f[i] \in Row /\ f[i].home \in reg /\ f[i].linked \in reg \cup {None}

\* Who belongs to somebody has at most his own main row.
OwnedHasMainOnly(own, D, f) ==
    \A u \in Users : own[u] # None =>
        /\ \A i \in D : f[i].home = u => f[i].email = None /\ f[i].linked = None
        /\ \A i, j \in D : f[i].home = u /\ f[j].home = u => i = j

\* Who is on his own has a main row, and no other row of his comes before it.
FirstIsMain(reg, own, D, f) ==
    \A u \in reg : own[u] = None =>
        \E i \in D : IsMain(f[i], u) /\ \A j \in D : f[j].home = u => i <= j

OwnedHasRow(own, D, f) ==
    \A u \in Users : own[u] # None =>
        \E i \in D : f[i].home = own[u] /\ f[i].linked = u /\ f[i].email = u

Linkage(own, D, f) ==
    \A i \in D : f[i].linked # None =>
        /\ own[f[i].linked] = f[i].home
        /\ \A j \in D : f[j].linked = f[i].linked => i = j

EmailsDiffer(D, f) == \A i, j \in D : f[i].email # None /\ f[i].email = f[j].email => i = j

\* Who is invited has come later than who invites him: so nobody invites himself,
\* directly or through others.
InvitedLater(reg, D, f) ==
    \A i, j \in D : f[i].email \in reg /\ f[j].home = f[i].email =>
        \E k \in D : f[k].home = f[i].home /\ k < j

Household(reg, own, D, f) ==
    /\ WellTyped(reg, own, D, f)
    /\ OwnedHasMainOnly(own, D, f)
    /\ FirstIsMain(reg, own, D, f)
    /\ OwnedHasRow(own, D, f)
    /\ Linkage(own, D, f)
    /\ EmailsDiffer(D, f)
    /\ InvitedLater(reg, D, f)

IInv ==
    /\ members \in Seq(Row) /\ Len(members) <= MaxRows
    /\ Household(registered, owner, DOMAIN members, members)

\* What the properties of households rest on: nobody enters an address of his own
\* first row, nobody enters one that a user or another row has, and a code is not
\* used by who has an account already.  The handlers refuse none of the three.
NewAddresses == Endpoints \cap {"mainAddress", "takenAddress", "codeLogin"} = {}

-----------------------------------------------------------------------------
\* Rows can be numbered anew in the same order.
LEMMA Renumber ==
    ASSUME NEW reg, NEW own, NEW D, NEW f, Household(reg, own, D, f),
           NEW D2 \in SUBSET Nat, NEW f2, NEW g \in [D2 -> D],
           \A k \in D2 : f2[k] = f[g[k]],
           \A k, l \in D2 : k < l => g[k] < g[l],
           \A i \in D : \E k \in D2 : g[k] = i
    PROVE  Household(reg, own, D2, f2)
<1>1. \A k \in D2 : g[k] \in D /\ g[k] \in Nat /\ k \in Nat
  BY DEF Household, WellTyped
<1>2. \A k, l \in D2 : /\ g[k] = g[l] => k = l
                       /\ g[k] < g[l] => k < l
                       /\ g[k] <= g[l] => k <= l
  BY <1>1
<1>3. WellTyped(reg, own, D2, f2)
  BY <1>1 DEF Household, WellTyped
<1>4. OwnedHasMainOnly(own, D2, f2)
  BY <1>1, <1>2 DEF Household, OwnedHasMainOnly
<1>5. FirstIsMain(reg, own, D2, f2)
  <2> SUFFICES ASSUME NEW u \in reg, own[u] = None
               PROVE  \E k \in D2 : IsMain(f2[k], u) /\ \A l \in D2 : f2[l].home = u => k <= l
    BY DEF FirstIsMain
  <2>1. PICK i \in D : IsMain(f[i], u) /\ \A j \in D : f[j].home = u => i <= j
    BY DEF Household, FirstIsMain
  <2>2. PICK k \in D2 : g[k] = i
    OBVIOUS
  <2> QED BY <1>1, <1>2, <2>1, <2>2
<1>6. OwnedHasRow(own, D2, f2)
  <2> SUFFICES ASSUME NEW u \in Users, own[u] # None
               PROVE  \E k \in D2 : f2[k].home = own[u] /\ f2[k].linked = u /\ f2[k].email = u
    BY DEF OwnedHasRow
  <2>1. PICK i \in D : f[i].home = own[u] /\ f[i].linked = u /\ f[i].email = u
    BY DEF Household, OwnedHasRow
  <2>2. PICK k \in D2 : g[k] = i
    OBVIOUS
  <2>3. f2[k] = f[i]
    BY <2>2
  <2> QED BY <2>1, <2>3
<1>7. Linkage(own, D2, f2)
  <2> SUFFICES ASSUME NEW k \in D2, f2[k].linked # None
               PROVE  /\ own[f2[k].linked] = f2[k].home
                      /\ \A l \in D2 : f2[l].linked = f2[k].linked => k = l
    BY DEF Linkage
  <2>1. g[k] \in D /\ f2[k] = f[g[k]] /\ f[g[k]].linked # None
    BY <1>1
  <2>2. /\ own[f[g[k]].linked] = f[g[k]].home
        /\ \A j \in D : f[j].linked = f[g[k]].linked => g[k] = j
    BY <2>1 DEF Household, Linkage
  <2>3. \A l \in D2 : f2[l].linked = f2[k].linked => k = l
    <3> SUFFICES ASSUME NEW l \in D2, f2[l].linked = f2[k].linked PROVE k = l
      OBVIOUS
    <3>1. g[l] \in D /\ f[g[l]].linked = f[g[k]].linked
      BY <1>1, <2>1
    <3>2. g[k] = g[l]
      BY <2>2, <3>1
    <3> QED BY <1>2, <3>2
  <2>4. own[f2[k].linked] = f2[k].home
    BY <2>1, <2>2
  <2> QED BY <2>3, <2>4
<1>8. EmailsDiffer(D2, f2)
  <2> SUFFICES ASSUME NEW k \in D2, NEW l \in D2, f2[k].email # None, f2[k].email = f2[l].email
               PROVE  k = l
    BY DEF EmailsDiffer
  <2>1. g[k] = g[l]
    BY <1>1 DEF Household, EmailsDiffer
  <2> QED BY <1>2, <2>1
<1>9. InvitedLater(reg, D2, f2)
  <2> SUFFICES ASSUME NEW k \in D2, NEW l \in D2, f2[k].email \in reg, f2[l].home = f2[k].email
               PROVE  \E m \in D2 : f2[m].home = f2[k].home /\ m < l
    BY DEF InvitedLater
  <2>1. PICK i \in D : f[i].home = f[g[k]].home /\ i < g[l]
    BY <1>1 DEF Household, InvitedLater
  <2>2. PICK m \in D2 : g[m] = i
    OBVIOUS
  <2> QED BY <1>1, <1>2, <2>1, <2>2
<1> QED BY <1>3, <1>4, <1>5, <1>6, <1>7, <1>8, <1>9 DEF Household

\* The rows without the one at position i.
LEMMA RemoveAtIs ==
    ASSUME NEW s \in Seq(Row), NEW i \in DOMAIN s
    PROVE  /\ RemoveAt(s, i) \in Seq(Row)
           /\ Len(RemoveAt(s, i)) = Len(s) - 1
           /\ \A k \in 1 .. Len(s) - 1 : RemoveAt(s, i)[k] = s[IF k < i THEN k ELSE k + 1]
<1> DEFINE front == SubSeq(s, 1, i - 1)
           back == SubSeq(s, i + 1, Len(s))
<1>1. Len(s) \in Nat /\ i \in 1 .. Len(s) /\ \A k \in 1 .. Len(s) : s[k] \in Row
  BY ElementOfSeq, LenProperties
<1>2. /\ front \in Seq(Row) /\ Len(front) = i - 1
      /\ \A k \in 1 .. i - 1 : front[k] = s[k]
  <2>1. \A k \in 1 .. i - 1 : s[k] \in Row
    BY <1>1
  <2> QED BY <1>1, <2>1, SubSeqProperties
<1>3. /\ back \in Seq(Row) /\ Len(back) = Len(s) - i
      /\ \A k \in 1 .. Len(s) - i : back[k] = s[i + k]
  <2>1. \A k \in i + 1 .. Len(s) : s[k] \in Row
    BY <1>1
  <2>2. /\ back \in Seq(Row)
        /\ Len(back) = IF i + 1 <= Len(s) THEN Len(s) - (i + 1) + 1 ELSE 0
        /\ \A k \in 1 .. Len(s) - (i + 1) + 1 : back[k] = s[(i + 1) + k - 1]
    BY <1>1, <2>1, SubSeqProperties
  <2> HIDE DEF back
  <2> QED BY <1>1, <2>2
<1> HIDE DEF front, back
<1>4. /\ front \o back \in Seq(Row) /\ Len(front \o back) = Len(front) + Len(back)
      /\ \A k \in 1 .. Len(front) + Len(back) :
            (front \o back)[k] = IF k <= Len(front) THEN front[k] ELSE back[k - Len(front)]
  BY <1>2, <1>3, ConcatProperties
<1>5. RemoveAt(s, i) = front \o back
  BY DEF RemoveAt, front, back
<1>6. Len(front) + Len(back) = Len(s) - 1
  BY <1>1, <1>2, <1>3
<1>7. ASSUME NEW k \in 1 .. Len(s) - 1 PROVE (front \o back)[k] = s[IF k < i THEN k ELSE k + 1]
  <2>1. k \in 1 .. Len(front) + Len(back)
    BY <1>6
  <2>2. CASE k < i
    BY <1>1, <1>2, <1>4, <2>1, <2>2
  <2>3. CASE ~(k < i)
    <3>1. k - (i - 1) \in 1 .. Len(s) - i /\ i + (k - (i - 1)) = k + 1
      BY <1>1, <2>3
    <3>2. (front \o back)[k] = back[k - (i - 1)]
      <4>1. Len(front) = i - 1 /\ ~(k <= Len(front))
        BY <1>1, <1>2, <2>3
      <4> QED BY <1>4, <2>1, <4>1
    <3> QED BY <1>3, <2>3, <3>1, <3>2
  <2> QED BY <2>2, <2>3
<1> QED BY <1>4, <1>5, <1>6, <1>7

LEMMA Removed ==
    ASSUME NEW reg, NEW own, NEW s \in Seq(Row), NEW i \in DOMAIN s,
           Household(reg, own, DOMAIN s \ {i}, s)
    PROVE  Household(reg, own, DOMAIN RemoveAt(s, i), RemoveAt(s, i))
<1> DEFINE t == RemoveAt(s, i)
           D2 == 1 .. Len(s) - 1
           g == [k \in D2 |-> IF k < i THEN k ELSE k + 1]
<1>1. t \in Seq(Row) /\ DOMAIN t = D2 /\ \A k \in D2 : t[k] = s[IF k < i THEN k ELSE k + 1]
  BY RemoveAtIs
<1> HIDE DEF t
<1>2. DOMAIN s = 1 .. Len(s) /\ Len(s) \in Nat
  OBVIOUS
<1>3. g \in [D2 -> DOMAIN s \ {i}]
  BY <1>2
<1>4. \A k \in D2 : t[k] = s[g[k]]
  BY <1>1
<1>5. \A k, l \in D2 : k < l => g[k] < g[l]
  BY <1>2
<1>6. ASSUME NEW j \in DOMAIN s \ {i} PROVE \E k \in D2 : g[k] = j
  <2>1. CASE j < i
    BY <1>2, <2>1
  <2>2. CASE j > i
    <3>1. j - 1 \in D2 /\ g[j - 1] = j
      BY <1>2, <2>2
    <3> QED BY <3>1
  <2> QED BY <1>2, <2>1, <2>2
<1>7. D2 \in SUBSET Nat
  BY <1>2
<1>8. \A j \in DOMAIN s \ {i} : \E k \in D2 : g[k] = j
  BY <1>6
<1> HIDE DEF g, D2
<1>9. Household(reg, own, D2, t)
  BY <1>3, <1>4, <1>5, <1>7, <1>8, Renumber
<1> QED BY <1>1, <1>9 DEF t

-----------------------------------------------------------------------------
\* Who has a row that is not a main row is on his own.
LEMMA HomeIsMain ==
    ASSUME NEW reg, NEW own, NEW D, NEW f, Household(reg, own, D, f),
           NEW i \in D, f[i].email # None \/ f[i].linked # None
    PROVE  f[i].home \in Users /\ own[f[i].home] = None
BY DEF Household, WellTyped, OwnedHasMainOnly, Row

\* The row that describes a user has his address.
LEMMA LinkedHasEmail ==
    ASSUME NEW reg, NEW own, NEW D, NEW f, Household(reg, own, D, f),
           NEW i \in D, f[i].linked # None
    PROVE  f[i].email = f[i].linked
<1>1. f[i] \in Row /\ f[i].linked \in Users /\ f[i].home \in Users
  BY DEF Household, WellTyped, Row
<1>2. own[f[i].linked] # None
  BY <1>1, HouseholdAssumption DEF Household, Linkage
<1>3. PICK j \in D : f[j].linked = f[i].linked /\ f[j].email = f[i].linked
  BY <1>1, <1>2 DEF Household, OwnedHasRow
<1> QED BY <1>3 DEF Household, Linkage

\* Nobody is invited by himself.
LEMMA NotBySelf ==
    ASSUME NEW reg, NEW own, NEW D, NEW f, Household(reg, own, D, f),
           NEW i \in D, f[i].email \in reg
    PROVE  f[i].email # f[i].home
<1> SUFFICES ASSUME f[i].email = f[i].home PROVE FALSE
  OBVIOUS
<1>1. f[i].email # None
  BY HouseholdAssumption DEF Household, WellTyped
<1>2. own[f[i].home] = None
  BY <1>1, HomeIsMain
<1>3. PICK j \in D : f[j].home = f[i].home /\ \A k \in D : f[k].home = f[i].home => j <= k
  BY <1>2 DEF Household, FirstIsMain, IsMain
<1>4. PICK k \in D : f[k].home = f[i].home /\ k < j
  BY <1>3 DEF Household, InvitedLater
<1> QED BY <1>3, <1>4 DEF Household, WellTyped

\* Somebody signs up.
LEMMA SignedUp ==
    ASSUME NEW reg, NEW own, NEW D, NEW f, Household(reg, own, D, f),
           NEW u \in Users \ reg, NEW n \in Nat, \A i \in D : i < n,
           NEW f2, f2[n] = MainRow(u), \A i \in D : f2[i] = f[i]
    PROVE  Household(reg \cup {u}, own, D \cup {n}, f2)
<1>1. /\ own[u] = None /\ reg \subseteq Users /\ D \subseteq Nat
      /\ \A i \in D : f[i] \in Row /\ f[i].home \in reg /\ f[i].linked \in reg \cup {None}
      /\ \A v \in Users : own[v] # None => v \in reg /\ own[v] \in reg
  BY DEF Household, WellTyped
<1>2. /\ f2[n] \in Row /\ f2[n].home = u /\ f2[n].email = None /\ f2[n].linked = None
      /\ IsMain(f2[n], u)
  BY DEF MainRow, Row, IsMain
<1>3. WellTyped(reg \cup {u}, own, D \cup {n}, f2)
  BY <1>1, <1>2 DEF Household, WellTyped
<1>4. OwnedHasMainOnly(own, D \cup {n}, f2)
  <2> SUFFICES ASSUME NEW v \in Users, own[v] # None
               PROVE  /\ \A i \in D : f[i].home = v => f[i].email = None /\ f[i].linked = None
                      /\ \A i, j \in D : f[i].home = v /\ f[j].home = v => i = j
                      /\ v # u
    BY <1>2 DEF OwnedHasMainOnly
  <2> QED BY <1>1 DEF Household, OwnedHasMainOnly
<1>5. FirstIsMain(reg \cup {u}, own, D \cup {n}, f2)
  <2> SUFFICES ASSUME NEW v \in reg \cup {u}, own[v] = None
               PROVE  \E i \in D \cup {n} : /\ IsMain(f2[i], v)
                                            /\ \A j \in D \cup {n} : f2[j].home = v => i <= j
    BY DEF FirstIsMain
  <2>1. CASE v = u
    BY <1>1, <1>2, <2>1
  <2>2. CASE v # u
    <3>1. PICK i \in D : IsMain(f[i], v) /\ \A j \in D : f[j].home = v => i <= j
      BY <2>2 DEF Household, FirstIsMain
    <3> QED BY <1>1, <1>2, <2>2, <3>1
  <2> QED BY <2>1, <2>2
<1>6. OwnedHasRow(own, D \cup {n}, f2)
  BY <1>1 DEF Household, OwnedHasRow
<1>7. Linkage(own, D \cup {n}, f2)
  BY <1>1, <1>2 DEF Household, Linkage
<1>8. EmailsDiffer(D \cup {n}, f2)
  <2>1. \A i, j \in D : f[i].email # None /\ f[i].email = f[j].email => i = j
    BY DEF Household, EmailsDiffer
  <2> QED BY <1>2, <2>1 DEF EmailsDiffer
<1>9. InvitedLater(reg \cup {u}, D \cup {n}, f2)
  <2> SUFFICES ASSUME NEW i \in D \cup {n}, NEW j \in D \cup {n},
                      f2[i].email \in reg \cup {u}, f2[j].home = f2[i].email
               PROVE  \E k \in D \cup {n} : f2[k].home = f2[i].home /\ k < j
    BY DEF InvitedLater
  <2>1. i \in D /\ i # n
    BY <1>1, <1>2, HouseholdAssumption
  <2>2. CASE j = n
    BY <2>1, <2>2
  <2>3. CASE j \in D
    BY <1>1, <2>1, <2>3 DEF Household, InvitedLater
  <2> QED BY <2>2, <2>3
<1> QED BY <1>3, <1>4, <1>5, <1>6, <1>7, <1>8, <1>9 DEF Household

\* Who is on his own adds a row.
LEMMA MemberAdded ==
    ASSUME NEW reg, NEW own, NEW D, NEW f, Household(reg, own, D, f),
           NEW u \in reg, own[u] = None, NEW n \in Nat, \A i \in D : i < n,
           NEW f2, f2[n] \in Row, f2[n].home = u, f2[n].linked = None,
           f2[n].email # None => f2[n].email \notin reg /\ \A i \in D : f[i].email # f2[n].email,
           \A i \in D : f2[i] = f[i]
    PROVE  Household(reg, own, D \cup {n}, f2)
<1>1. /\ reg \subseteq Users /\ D \subseteq Nat /\ None \notin reg
      /\ \A i \in D : f[i] \in Row /\ f[i].home \in reg /\ f[i].linked \in reg \cup {None}
  BY HouseholdAssumption DEF Household, WellTyped
<1>2. WellTyped(reg, own, D \cup {n}, f2)
  BY <1>1 DEF Household, WellTyped
<1>3. OwnedHasMainOnly(own, D \cup {n}, f2)
  BY <1>1 DEF Household, OwnedHasMainOnly
<1>4. FirstIsMain(reg, own, D \cup {n}, f2)
  <2> SUFFICES ASSUME NEW v \in reg, own[v] = None
               PROVE  \E i \in D \cup {n} : /\ IsMain(f2[i], v)
                                            /\ \A j \in D \cup {n} : f2[j].home = v => i <= j
    BY DEF FirstIsMain
  <2>1. PICK i \in D : IsMain(f[i], v) /\ \A j \in D : f[j].home = v => i <= j
    BY DEF Household, FirstIsMain
  <2>2. i < n /\ i \in Nat
    BY <1>1
  <2>3. \A j \in D \cup {n} : f2[j].home = v => i <= j
    BY <2>1, <2>2
  <2> QED BY <2>1, <2>3
<1>5. OwnedHasRow(own, D \cup {n}, f2)
  BY <1>1 DEF Household, OwnedHasRow
<1>6. Linkage(own, D \cup {n}, f2)
  BY <1>1 DEF Household, Linkage
<1>7. EmailsDiffer(D \cup {n}, f2)
  <2>1. \A i, j \in D : f[i].email # None /\ f[i].email = f[j].email => i = j
    BY DEF Household, EmailsDiffer
  <2> QED BY <2>1 DEF EmailsDiffer
<1>8. InvitedLater(reg, D \cup {n}, f2)
  <2> SUFFICES ASSUME NEW i \in D \cup {n}, NEW j \in D \cup {n},
                      f2[i].email \in reg, f2[j].home = f2[i].email
               PROVE  \E k \in D \cup {n} : f2[k].home = f2[i].home /\ k < j
    BY DEF InvitedLater
  <2>1. i \in D /\ i # n /\ f[i].email \in reg
    BY <1>1
  <2>2. PICK m \in D : f[m].home = f2[j].home /\ m <= j
    <3>1. CASE j \in D
      BY <1>1, <3>1
    <3>2. CASE j = n
      <4>1. PICK m \in D : f[m].home = u
        BY DEF Household, FirstIsMain, IsMain
      <4> QED BY <1>1, <3>2, <4>1
    <3> QED BY <3>1, <3>2
  <2>3. PICK k \in D : f[k].home = f[i].home /\ k < m
    BY <2>1, <2>2 DEF Household, InvitedLater
  <2>4. k \in Nat /\ m \in Nat /\ j \in Nat
    BY <1>1
  <2>5. k < j
    BY <2>2, <2>3, <2>4
  <2> QED BY <2>1, <2>3, <2>5
<1> QED BY <1>2, <1>3, <1>4, <1>5, <1>6, <1>7, <1>8 DEF Household

\* What an invitation says besides its address, and whether it is verified, matters
\* to nobody else.
LEMMA SameLinks ==
    ASSUME NEW reg, NEW own, NEW D, NEW f, Household(reg, own, D, f), NEW f2,
           \A i \in D : /\ f2[i] \in Row /\ f2[i].home = f[i].home
                        /\ f2[i].email = f[i].email /\ f2[i].linked = f[i].linked
    PROVE  Household(reg, own, D, f2)
<1>1. WellTyped(reg, own, D, f2)
  BY DEF Household, WellTyped
<1>2. OwnedHasMainOnly(own, D, f2)
  BY DEF Household, OwnedHasMainOnly
<1>3. FirstIsMain(reg, own, D, f2)
  BY DEF Household, FirstIsMain, IsMain
<1>4. OwnedHasRow(own, D, f2)
  BY DEF Household, OwnedHasRow
<1>5. Linkage(own, D, f2)
  BY DEF Household, Linkage
<1>6. EmailsDiffer(D, f2)
  BY DEF Household, EmailsDiffer
<1>7. InvitedLater(reg, D, f2)
  BY DEF Household, InvitedLater
<1> QED BY <1>1, <1>2, <1>3, <1>4, <1>5, <1>6, <1>7 DEF Household

\* A row that describes no user and is not the first of its household gets an
\* address that nobody has.
LEMMA EmailChanged ==
    ASSUME NEW reg, NEW own, NEW D, NEW f, Household(reg, own, D, f),
           NEW i \in D, f[i].linked = None,
           NEW first \in D, first < i, f[first].home = f[i].home,
           NEW e \in Users, e \notin reg, \A j \in D : f[j].email # e,
           NEW f2, f2[i] \in Row, f2[i].home = f[i].home, f2[i].email = e, f2[i].linked = None,
           \A j \in D \ {i} : f2[j] = f[j]
    PROVE  Household(reg, own, D, f2)
<1>1. /\ reg \subseteq Users /\ D \subseteq Nat /\ own \in [Users -> Users \cup {None}]
      /\ \A j \in D : f[j] \in Row /\ f[j].home \in reg /\ f[j].linked \in reg \cup {None}
  BY DEF Household, WellTyped
<1>2. /\ f2[i] \in Row /\ f2[i].home = f[i].home /\ f2[i].email = e /\ f2[i].linked = None
  OBVIOUS
<1>3. e # None
  BY HouseholdAssumption
<1>4. first # i /\ own[f[i].home] = None
  BY <1>1 DEF Household, OwnedHasMainOnly
<1>5. WellTyped(reg, own, D, f2)
  BY <1>2 DEF Household, WellTyped
<1>6. OwnedHasMainOnly(own, D, f2)
  <2> SUFFICES ASSUME NEW v \in Users, own[v] # None
               PROVE  /\ \A j \in D : f2[j].home = v => f2[j].email = None /\ f2[j].linked = None
                      /\ \A j, k \in D : f2[j].home = v /\ f2[k].home = v => j = k
    BY DEF OwnedHasMainOnly
  <2>1. \A j \in D : f2[j].home = v => f2[j] = f[j]
    BY <1>2, <1>4
  <2>2. /\ \A j \in D : f[j].home = v => f[j].email = None /\ f[j].linked = None
        /\ \A j, k \in D : f[j].home = v /\ f[k].home = v => j = k
    BY DEF Household, OwnedHasMainOnly
  <2> QED BY <2>1, <2>2
<1>7. FirstIsMain(reg, own, D, f2)
  <2> SUFFICES ASSUME NEW v \in reg, own[v] = None
               PROVE  \E j \in D : IsMain(f2[j], v) /\ \A k \in D : f2[k].home = v => j <= k
    BY DEF FirstIsMain
  <2>1. PICK j \in D : IsMain(f[j], v) /\ \A k \in D : f[k].home = v => j <= k
    BY DEF Household, FirstIsMain
  <2>2. j # i
    BY <1>1, <2>1 DEF IsMain
  <2>3. \A k \in D : f2[k].home = v => j <= k
    BY <1>2, <2>1
  <2> QED BY <2>1, <2>2, <2>3
<1>8. OwnedHasRow(own, D, f2)
  <2> SUFFICES ASSUME NEW v \in Users, own[v] # None
               PROVE  \E j \in D : f2[j].home = own[v] /\ f2[j].linked = v /\ f2[j].email = v
    BY DEF OwnedHasRow
  <2>1. PICK j \in D : f[j].home = own[v] /\ f[j].linked = v /\ f[j].email = v
    BY DEF Household, OwnedHasRow
  <2>2. j # i
    BY <2>1, HouseholdAssumption
  <2> QED BY <2>1, <2>2
<1>9. Linkage(own, D, f2)
  <2>1. \A j \in D : f2[j].linked = f[j].linked /\ f2[j].home = f[j].home
    BY <1>2
  <2> QED BY <2>1 DEF Household, Linkage
<1>10. EmailsDiffer(D, f2)
  <2> SUFFICES ASSUME NEW j \in D, NEW k \in D, f2[j].email # None, f2[j].email = f2[k].email
               PROVE  j = k
    BY DEF EmailsDiffer
  <2>1. CASE j = i
    BY <1>2, <2>1
  <2>2. CASE k = i
    BY <1>2, <2>2
  <2>3. CASE j # i /\ k # i
    BY <2>3 DEF Household, EmailsDiffer
  <2> QED BY <2>1, <2>2, <2>3
<1>11. InvitedLater(reg, D, f2)
  <2> SUFFICES ASSUME NEW j \in D, NEW k \in D, f2[j].email \in reg, f2[k].home = f2[j].email
               PROVE  \E m \in D : f2[m].home = f2[j].home /\ m < k
    BY DEF InvitedLater
  <2>1. j # i /\ f[j].email \in reg /\ f[k].home = f[j].email
    BY <1>2
  <2>2. PICK m \in D : f[m].home = f[j].home /\ m < k
    BY <2>1 DEF Household, InvitedLater
  <2>3. f2[m].home = f[m].home /\ f2[j].home = f[j].home
    BY <1>2
  <2> QED BY <2>2, <2>3
<1> QED BY <1>5, <1>6, <1>7, <1>8, <1>9, <1>10, <1>11 DEF Household

\* Somebody signs up with the code of an invitation.
LEMMA HousekeeperSignedUp ==
    ASSUME NEW reg, NEW own, NEW D, NEW f, Household(reg, own, D, f),
           NEW u \in Users \ reg, NEW i \in D, f[i].email = u,
           NEW n \in Nat, \A j \in D : j < n,
           NEW f2, f2[n] = MainRow(u), f2[i] = [f[i] EXCEPT !.linked = u],
           \A j \in D \ {i} : f2[j] = f[j]
    PROVE  Household(reg \cup {u}, [own EXCEPT ![u] = f[i].home], D \cup {n}, f2)
<1> DEFINE h == f[i].home
           own2 == [own EXCEPT ![u] = h]
           D2 == D \cup {n}
<1>1. /\ reg \subseteq Users /\ D \subseteq Nat /\ own \in [Users -> Users \cup {None}]
      /\ \A j \in D : f[j] \in Row /\ f[j].home \in reg /\ f[j].linked \in reg \cup {None}
      /\ \A v \in Users : own[v] # None => v \in reg /\ own[v] \in reg /\ own[own[v]] = None
      /\ None \notin Users
  BY HouseholdAssumption DEF Household, WellTyped
<1>2. /\ f2[n] \in Row /\ f2[n].home = u /\ f2[n].email = None /\ f2[n].linked = None
      /\ IsMain(f2[n], u)
  BY DEF MainRow, Row, IsMain
<1>3. /\ f2[i] \in Row /\ f2[i].home = h /\ f2[i].email = u /\ f2[i].linked = u
  BY <1>1 DEF Row
<1>4. f[i].linked = None
  BY <1>1, LinkedHasEmail
<1>5. h \in reg /\ h # u /\ own[h] = None
  BY <1>1, HomeIsMain
<1>6. /\ own2 \in [Users -> Users \cup {None}] /\ own2[u] = h
      /\ \A v \in Users : v # u => own2[v] = own[v]
  BY <1>1, <1>5
<1>7. n \notin D /\ n # i
  BY <1>1
<1> HIDE DEF h, own2
<1>8. WellTyped(reg \cup {u}, own2, D2, f2)
  <2>1. \A v \in Users : own2[v] # None =>
           v \in reg \cup {u} /\ own2[v] \in reg \cup {u} /\ own2[own2[v]] = None
    BY <1>1, <1>5, <1>6
  <2>2. \A j \in D2 : f2[j] \in Row /\ f2[j].home \in reg \cup {u}
                      /\ f2[j].linked \in reg \cup {u} \cup {None}
    BY <1>1, <1>2, <1>3, <1>5
  <2> QED BY <1>1, <1>6, <2>1, <2>2 DEF WellTyped
<1>9. OwnedHasMainOnly(own2, D2, f2)
  <2> SUFFICES ASSUME NEW v \in Users, own2[v] # None
               PROVE  /\ \A j \in D2 : f2[j].home = v => f2[j].email = None /\ f2[j].linked = None
                      /\ \A j, k \in D2 : f2[j].home = v /\ f2[k].home = v => j = k
    BY DEF OwnedHasMainOnly
  <2>1. CASE v = u
    <3>1. ASSUME NEW j \in D PROVE f2[j].home # v
      <4>1. CASE j = i
        BY <1>3, <1>5, <2>1, <4>1
      <4>2. CASE j # i
        BY <1>1, <2>1, <4>2
      <4> QED BY <4>1, <4>2
    <3>2. \A j \in D2 : f2[j].home = v => j = n
      BY <3>1
    <3> QED BY <1>2, <3>2
  <2>2. CASE v # u
    <3>1. own[v] # None /\ v # h
      BY <1>5, <1>6, <2>2
    <3>2. \A j \in D2 : f2[j].home = v => j \in D /\ j # i /\ f[j].home = v
      BY <1>2, <1>3, <2>2, <3>1
    <3> QED BY <3>1, <3>2 DEF Household, OwnedHasMainOnly
  <2> QED BY <2>1, <2>2
<1>10. FirstIsMain(reg \cup {u}, own2, D2, f2)
  <2> SUFFICES ASSUME NEW v \in reg \cup {u}, own2[v] = None
               PROVE  \E j \in D2 : IsMain(f2[j], v) /\ \A k \in D2 : f2[k].home = v => j <= k
    BY DEF FirstIsMain
  <2>1. v # u /\ own[v] = None /\ v \in reg
    BY <1>1, <1>5, <1>6
  <2>2. PICK j \in D : IsMain(f[j], v) /\ \A k \in D : f[k].home = v => j <= k
    BY <2>1 DEF Household, FirstIsMain
  <2>3. j # i
    BY <1>1, <2>2 DEF IsMain
  <2>4. \A k \in D2 : f2[k].home = v => j <= k
    BY <1>2, <1>3, <2>1, <2>2 DEF h
  <2> QED BY <2>2, <2>3, <2>4
<1>11. OwnedHasRow(own2, D2, f2)
  <2> SUFFICES ASSUME NEW v \in Users, own2[v] # None
               PROVE  \E j \in D2 : f2[j].home = own2[v] /\ f2[j].linked = v /\ f2[j].email = v
    BY DEF OwnedHasRow
  <2>1. CASE v = u
    BY <1>3, <1>6, <2>1
  <2>2. CASE v # u
    <3>1. PICK j \in D : f[j].home = own2[v] /\ f[j].linked = v /\ f[j].email = v
      BY <1>6, <2>2 DEF Household, OwnedHasRow
    <3>2. j # i
      BY <2>2, <3>1
    <3> QED BY <3>1, <3>2
  <2> QED BY <2>1, <2>2
<1>12. Linkage(own2, D2, f2)
  <2> SUFFICES ASSUME NEW j \in D2, f2[j].linked # None
               PROVE  /\ own2[f2[j].linked] = f2[j].home
                      /\ \A k \in D2 : f2[k].linked = f2[j].linked => j = k
    BY DEF Linkage
  <2>1. \A k \in D : k # i => f2[k].linked # u
    BY <1>1
  <2>2. CASE j = i
    BY <1>1, <1>2, <1>3, <1>6, <2>1, <2>2
  <2>3. CASE j # i
    <3>1. j \in D /\ f2[j] = f[j] /\ f[j].linked # u /\ f[j].linked \in Users
      BY <1>1, <1>2, <2>3
    <3>2. own[f[j].linked] = f[j].home /\ \A k \in D : f[k].linked = f[j].linked => j = k
      BY <1>1, <3>1 DEF Household, Linkage
    <3>3. own2[f2[j].linked] = f2[j].home
      BY <1>6, <3>1, <3>2
    <3>4. ASSUME NEW k \in D2, f2[k].linked = f2[j].linked PROVE j = k
      <4>1. f2[k].linked # None /\ f2[k].linked # u
        BY <3>1, <3>4
      <4>2. k # n /\ k # i
        BY <1>2, <1>3, <4>1
      <4> QED BY <3>1, <3>2, <3>4, <4>2
    <3> QED BY <3>3, <3>4
  <2> QED BY <2>2, <2>3
<1>13. EmailsDiffer(D2, f2)
  <2>1. \A j, k \in D : f[j].email # None /\ f[j].email = f[k].email => j = k
    BY DEF Household, EmailsDiffer
  <2>2. \A j \in D : f2[j].email = f[j].email
    BY <1>3
  <2> QED BY <1>2, <2>1, <2>2 DEF EmailsDiffer
<1>14. InvitedLater(reg \cup {u}, D2, f2)
  <2> SUFFICES ASSUME NEW j \in D2, NEW k \in D2,
                      f2[j].email \in reg \cup {u}, f2[k].home = f2[j].email
               PROVE  \E m \in D2 : f2[m].home = f2[j].home /\ m < k
    BY DEF InvitedLater
  <2>1. j # n /\ j \in D
    BY <1>1, <1>2
  <2>4. \A m \in D : f2[m].home = f[m].home /\ f2[m].email = f[m].email
    BY <1>3 DEF h
  <2>2. CASE k = n
    BY <2>1, <2>2
  <2>3. CASE k \in D
    <3>1. f[j].email \in reg /\ f[k].home = f[j].email
      BY <1>1, <2>1, <2>3, <2>4
    <3> QED BY <2>1, <2>3, <2>4, <3>1 DEF Household, InvitedLater
  <2> QED BY <2>2, <2>3
<1> QED BY <1>8, <1>9, <1>10, <1>11, <1>12, <1>13, <1>14 DEF Household, own2, h

-----------------------------------------------------------------------------
\* What an invitation i of a user means: he who sent it is on his own, his first row
\* comes before the rows of whom he invites, and no other row has that address.
LEMMA Invitation ==
    ASSUME NEW reg, NEW own, NEW D, NEW f, Household(reg, own, D, f),
           NEW i \in D, f[i].email \in reg
    PROVE  /\ own[f[i].home] = None /\ f[i].home \in reg /\ f[i].home # f[i].email
           /\ \E first \in D :
                 /\ first # i /\ IsMain(f[first], f[i].home)
                 /\ \A j \in D : f[j].home = f[i].home => first <= j
                 /\ \A j \in D : f[j].home = f[i].email => first < j
           /\ \A j \in D : f[j].email = f[i].email \/ f[j].linked = f[i].email => j = i
           /\ own[f[i].email] # None =>
                 own[f[i].email] = f[i].home /\ f[i].linked = f[i].email
           /\ own[f[i].email] = None => f[i].linked = None
<1> DEFINE h == f[i].home
           u == f[i].email
<1>1. /\ reg \subseteq Users /\ D \subseteq Nat /\ None \notin Users
      /\ \A j \in D : f[j].home \in reg /\ f[j].linked \in reg \cup {None}
  BY HouseholdAssumption DEF Household, WellTyped
<1>2. u # None /\ u \in Users
  BY <1>1
<1>3. own[h] = None /\ h \in reg
  BY <1>1, <1>2, HomeIsMain
<1>4. h # u
  BY NotBySelf
<1>5. PICK first \in D : IsMain(f[first], h) /\ \A j \in D : f[j].home = h => first <= j
  BY <1>3 DEF Household, FirstIsMain
<1>6. first # i
  BY <1>2, <1>5 DEF IsMain
<1>7. ASSUME NEW j \in D, f[j].home = u PROVE first < j
  <2>1. PICK k \in D : f[k].home = h /\ k < j
    BY <1>7 DEF Household, InvitedLater
  <2> QED BY <1>1, <1>5, <2>1
<1>8. \A j \in D : f[j].email = u => j = i
  BY <1>2 DEF Household, EmailsDiffer
<1>9. \A j \in D : f[j].linked = u => j = i
  BY <1>2, <1>8, LinkedHasEmail
<1>10. own[u] # None => own[u] = h /\ f[i].linked = u
  <2>1. own[u] # None => \E j \in D : f[j].home = own[u] /\ f[j].linked = u /\ f[j].email = u
    BY <1>2 DEF Household, OwnedHasRow
  <2> QED BY <1>8, <2>1
<1>11. f[i].linked # None => own[u] = h
  BY LinkedHasEmail DEF Household, Linkage
<1> QED BY <1>1, <1>3, <1>4, <1>5, <1>6, <1>7, <1>8, <1>9, <1>10, <1>11

\* Who has rows is merged into the household that invites him.
LEMMA Merged ==
    ASSUME NEW reg, NEW own, NEW D, NEW f, Household(reg, own, D, f),
           NEW i \in D, NEW u \in reg, f[i].email = u, NEW h, h = f[i].home,
           NEW main \in D, IsMain(f[main], u),
           NEW own2 \in [Users -> Users \cup {None}],
           \A v \in Users : own2[v] = IF v = u \/ own[v] = u THEN h ELSE own[v],
           NEW f2,
           \A j \in D \ {i} :
              /\ f2[j] \in Row
              /\ f2[j].home = IF f[j].home = u THEN h ELSE f[j].home
              /\ f2[j].email = IF j = main THEN u ELSE f[j].email
              /\ f2[j].linked = IF j = main THEN u ELSE f[j].linked
    PROVE  Household(reg, own2, D \ {i}, f2)
<1> DEFINE D2 == D \ {i}
<1>1. /\ reg \subseteq Users /\ D \subseteq Nat /\ own \in [Users -> Users \cup {None}]
      /\ \A j \in D : f[j] \in Row /\ f[j].home \in reg /\ f[j].linked \in reg \cup {None}
      /\ \A v \in Users : own[v] # None => v \in reg /\ own[v] \in reg /\ own[own[v]] = None
      /\ None \notin Users
  BY HouseholdAssumption DEF Household, WellTyped
<1>2. /\ own[h] = None /\ h \in reg /\ h # u
      /\ \A j \in D : f[j].email = u \/ f[j].linked = u => j = i
      /\ own[u] # None => own[u] = h
  <2>1. f[i].email \in reg
    OBVIOUS
  <2>2. /\ own[f[i].home] = None /\ f[i].home \in reg /\ f[i].home # f[i].email
        /\ \A j \in D : f[j].email = f[i].email \/ f[j].linked = f[i].email => j = i
        /\ own[f[i].email] # None => own[f[i].email] = f[i].home
    BY <2>1, Invitation
  <2> QED BY <2>2
<1>3. PICK first \in D :
         /\ first # i /\ IsMain(f[first], h)
         /\ \A j \in D : f[j].home = h => first <= j
         /\ \A j \in D : f[j].home = u => first < j
  <2>1. f[i].email \in reg
    OBVIOUS
  <2>2. \E first \in D :
           /\ first # i /\ IsMain(f[first], f[i].home)
           /\ \A j \in D : f[j].home = f[i].home => first <= j
           /\ \A j \in D : f[j].home = f[i].email => first < j
    BY <2>1, Invitation
  <2> QED BY <2>2
<1>4. f[main].home = u /\ f[main].email = None /\ f[main].linked = None /\ main # i
  BY <1>1, <1>2 DEF IsMain
<1>5. \A j \in D2 :
         /\ f2[j] \in Row
         /\ f2[j].home = IF f[j].home = u THEN h ELSE f[j].home
         /\ f2[j].email = IF j = main THEN u ELSE f[j].email
         /\ f2[j].linked = IF j = main THEN u ELSE f[j].linked
  OBVIOUS
<1>6. /\ own2 \in [Users -> Users \cup {None}]
      /\ \A v \in Users : own2[v] = IF v = u \/ own[v] = u THEN h ELSE own[v]
  OBVIOUS
<1>7. own2[h] = None /\ own2[u] = h
  BY <1>1, <1>2, <1>6
<1>8. WellTyped(reg, own2, D2, f2)
  <2>1. ASSUME NEW v \in Users, own2[v] # None
        PROVE  v \in reg /\ own2[v] \in reg /\ own2[own2[v]] = None
    <3>1. CASE v = u \/ own[v] = u
      BY <1>1, <1>2, <1>6, <1>7, <3>1
    <3>2. CASE v # u /\ own[v] # u
      BY <1>1, <1>6, <2>1, <3>2
    <3> QED BY <3>1, <3>2
  <2>2. \A j \in D2 : f2[j] \in Row /\ f2[j].home \in reg /\ f2[j].linked \in reg \cup {None}
    BY <1>1, <1>2, <1>5
  <2> QED BY <1>1, <1>6, <2>1, <2>2 DEF WellTyped
<1>9. OwnedHasMainOnly(own2, D2, f2)
  <2> SUFFICES ASSUME NEW v \in Users, own2[v] # None
               PROVE  /\ \A j \in D2 : f2[j].home = v => f2[j].email = None /\ f2[j].linked = None
                      /\ \A j, k \in D2 : f2[j].home = v /\ f2[k].home = v => j = k
    BY DEF OwnedHasMainOnly
  <2>1. v # h
    BY <1>7
  <2>2. \A j \in D2 : f2[j].home = v => f[j].home = v /\ f[j].home # u /\ j # main
    BY <1>4, <1>5, <2>1
  <2>3. CASE v = u
    BY <2>2, <2>3
  <2>4. CASE v # u
    <3>1. own[v] # None
      BY <1>1, <1>6, <2>4
    <3>2. /\ \A j \in D : f[j].home = v => f[j].email = None /\ f[j].linked = None
          /\ \A j, k \in D : f[j].home = v /\ f[k].home = v => j = k
      BY <3>1 DEF Household, OwnedHasMainOnly
    <3> QED BY <1>5, <2>2, <3>2
  <2> QED BY <2>3, <2>4
<1>10. FirstIsMain(reg, own2, D2, f2)
  <2> SUFFICES ASSUME NEW v \in reg, own2[v] = None
               PROVE  \E j \in D2 : IsMain(f2[j], v) /\ \A k \in D2 : f2[k].home = v => j <= k
    BY DEF FirstIsMain
  <2>1. v # u /\ own[v] = None
    BY <1>1, <1>2, <1>6
  <2>2. CASE v = h
    <3>1. IsMain(f2[first], v) /\ first # main
      BY <1>2, <1>3, <1>4, <1>5, <2>2 DEF IsMain
    <3>2. ASSUME NEW k \in D2, f2[k].home = v PROVE first <= k
      <4>1. f[k].home = u \/ f[k].home = h
        BY <1>5, <2>2, <3>2
      <4>2. first \in Nat /\ k \in Nat
        BY <1>1
      <4> QED BY <1>3, <4>1, <4>2
    <3> QED BY <1>3, <3>1, <3>2
  <2>3. CASE v # h
    <3>1. PICK j \in D : IsMain(f[j], v) /\ \A k \in D : f[k].home = v => j <= k
      BY <2>1 DEF Household, FirstIsMain
    <3>2. j # i /\ j # main
      BY <1>1, <1>4, <2>1, <3>1 DEF IsMain
    <3>3. IsMain(f2[j], v)
      BY <1>5, <2>1, <3>1, <3>2 DEF IsMain
    <3>4. \A k \in D2 : f2[k].home = v => j <= k
      BY <1>5, <2>3, <3>1
    <3> QED BY <3>2, <3>3, <3>4
  <2> QED BY <2>2, <2>3
<1>11. OwnedHasRow(own2, D2, f2)
  <2> SUFFICES ASSUME NEW v \in Users, own2[v] # None
               PROVE  \E j \in D2 : f2[j].home = own2[v] /\ f2[j].linked = v /\ f2[j].email = v
    BY DEF OwnedHasRow
  <2>1. CASE v = u
    BY <1>4, <1>5, <1>7, <2>1
  <2>2. CASE v # u
    <3>1. own[v] # None
      BY <1>1, <1>6, <2>2
    <3>2. PICK j \in D : f[j].home = own[v] /\ f[j].linked = v /\ f[j].email = v
      BY <3>1 DEF Household, OwnedHasRow
    <3>3. j # i /\ j # main
      BY <1>1, <1>4, <2>2, <3>2
    <3> QED BY <1>5, <1>6, <2>2, <3>2, <3>3
  <2> QED BY <2>1, <2>2
<1>12. Linkage(own2, D2, f2)
  <2> SUFFICES ASSUME NEW j \in D2, f2[j].linked # None
               PROVE  /\ own2[f2[j].linked] = f2[j].home
                      /\ \A k \in D2 : f2[k].linked = f2[j].linked => j = k
    BY DEF Linkage
  <2>1. \A k \in D2 : f[k].linked # u
    BY <1>2
  <2>2. CASE j = main
    BY <1>4, <1>5, <1>7, <2>1, <2>2
  <2>3. CASE j # main
    <3>1. f2[j].linked = f[j].linked /\ f[j].linked \in Users /\ f[j].linked # u
      BY <1>1, <1>5, <2>1, <2>3
    <3>2. own[f[j].linked] = f[j].home /\ \A k \in D : f[k].linked = f[j].linked => j = k
      BY <1>5, <2>3 DEF Household, Linkage
    <3>3. own2[f2[j].linked] = f2[j].home
      <4>1. f2[j].home = IF own[f[j].linked] = u THEN h ELSE own[f[j].linked]
        BY <1>5, <3>2
      <4> QED BY <1>6, <3>1, <4>1
    <3>4. \A k \in D2 : f2[k].linked = f2[j].linked => j = k
      BY <1>5, <3>1, <3>2
    <3> QED BY <3>3, <3>4
  <2> QED BY <2>2, <2>3
<1>13. EmailsDiffer(D2, f2)
  <2> SUFFICES ASSUME NEW j \in D2, NEW k \in D2, f2[j].email # None, f2[j].email = f2[k].email
               PROVE  j = k
    BY DEF EmailsDiffer
  <2>1. f[j].email # u /\ f[k].email # u
    BY <1>2
  <2>2. CASE j = main \/ k = main
    BY <1>5, <2>1, <2>2
  <2>3. CASE j # main /\ k # main
    <3>1. f[j].email # None /\ f[j].email = f[k].email
      BY <1>5, <2>3
    <3> QED BY <3>1 DEF Household, EmailsDiffer
  <2> QED BY <2>2, <2>3
<1>14. InvitedLater(reg, D2, f2)
  <2> SUFFICES ASSUME NEW p \in D2, NEW q \in D2, f2[p].email \in reg, f2[q].home = f2[p].email
               PROVE  \E k \in D2 : f2[k].home = f2[p].home /\ k < q
    BY DEF InvitedLater
  <2>1. f2[q].home # u
    BY <1>2, <1>5
  <2>2. p # main /\ f2[p].email = f[p].email
    BY <1>5, <2>1
  <2>3. f[p].email # f[p].home
    <3>1. p \in D /\ f[p].email \in reg
      BY <2>2
    <3> QED BY <3>1, NotBySelf
  <2>4. CASE f[q].home = u
    <3>1. f[p].email = f[first].home
      BY <1>3, <1>5, <2>2, <2>4 DEF IsMain
    <3>2. PICK k \in D : f[k].home = f[p].home /\ k < first
      BY <2>2, <3>1 DEF Household, InvitedLater
    <3>3. k # i
      BY <1>3, <2>3, <3>1, <3>2 DEF IsMain
    <3>4. first < q /\ k \in Nat /\ first \in Nat /\ q \in Nat
      BY <1>1, <1>3, <2>4
    <3>5. f2[k].home = f2[p].home
      BY <1>5, <3>2, <3>3
    <3>6. k < q
      BY <3>2, <3>4
    <3> QED BY <3>3, <3>5, <3>6
  <2>5. CASE f[q].home # u
    <3>1. f[q].home = f[p].email
      BY <1>5, <2>2, <2>5
    <3>2. PICK k \in D : f[k].home = f[p].home /\ k < q
      BY <2>2, <3>1 DEF Household, InvitedLater
    <3>3. CASE k # i
      BY <1>5, <3>2, <3>3
    <3>4. CASE k = i
      <4>1. f[p].home = h /\ f2[p].home = h /\ f2[first].home = h
        BY <1>2, <1>3, <1>5, <3>2, <3>4 DEF IsMain
      <4>2. first <= i /\ first \in Nat /\ i \in Nat /\ q \in Nat
        BY <1>1, <1>3
      <4>3. first < q
        BY <3>2, <3>4, <4>2
      <4> QED BY <1>3, <4>1, <4>3
    <3> QED BY <3>3, <3>4
  <2> QED BY <2>4, <2>5
<1> QED BY <1>8, <1>9, <1>10, <1>11, <1>12, <1>13, <1>14 DEF Household

-----------------------------------------------------------------------------
\* A row that is not the main row of its household goes; whom it describes is on his
\* own, with a main row that he has or gets.
LEMMA RowGone ==
    ASSUME NEW reg, NEW own, NEW D, NEW f, Household(reg, own, D, f),
           NEW i \in D, NEW h, h = f[i].home, NEW w, w = f[i].linked,
           ~IsMain(f[i], h) \/ \E j \in D : j < i /\ f[j].home = h,
           NEW own2 \in [Users -> Users \cup {None}],
           \A v \in Users : own2[v] = IF v = w THEN None ELSE own[v],
           NEW N \in SUBSET Nat, \A m, n \in N : m = n,
           NEW f2, \A j \in D \ {i} : j \notin N /\ f2[j] = f[j],
           \A n \in N : f2[n] \in Row /\ IsMain(f2[n], w),
           w # None => \E j \in (D \ {i}) \cup N : f2[j].home = w
    PROVE  Household(reg, own2, (D \ {i}) \cup N, f2)
<1> DEFINE D2 == (D \ {i}) \cup N
<1>1. /\ reg \subseteq Users /\ D \subseteq Nat /\ own \in [Users -> Users \cup {None}]
      /\ \A j \in D : f[j] \in Row /\ f[j].home \in reg /\ f[j].linked \in reg \cup {None}
      /\ \A v \in Users : own[v] # None => v \in reg /\ own[v] \in reg /\ own[own[v]] = None
      /\ None \notin Users
  BY HouseholdAssumption DEF Household, WellTyped
<1>2. h \in reg /\ own[h] = None
  <2>1. CASE ~IsMain(f[i], h)
    <3>1. f[i].email # None \/ f[i].linked # None
      BY <2>1 DEF IsMain
    <3> QED BY <1>1, <3>1, HomeIsMain
  <2>2. CASE \E j \in D : j < i /\ f[j].home = h
    <3>1. PICK j \in D : j < i /\ f[j].home = h
      BY <2>2
    <3>2. j # i /\ f[i].home \in Users
      BY <1>1, <3>1
    <3> QED BY <1>1, <3>1, <3>2 DEF Household, OwnedHasMainOnly
  <2> QED BY <2>1, <2>2
<1>3. PICK first \in D : IsMain(f[first], h) /\ \A j \in D : f[j].home = h => first <= j
  BY <1>2 DEF Household, FirstIsMain
<1>4. first # i
  BY <1>1, <1>3
<1>5. w # None => w \in reg /\ own[w] = h /\ w # h
  BY <1>1, <1>2 DEF Household, Linkage
<1>6. \A j \in D : w # None /\ (f[j].email = w \/ f[j].linked = w) => j = i
  <2>1. w # None => f[i].email = w
    BY LinkedHasEmail
  <2> QED BY <2>1 DEF Household, Linkage, EmailsDiffer
<1>7. \A v \in Users : own2[v] # None => own[v] # None /\ own2[v] = own[v] /\ v # w
  OBVIOUS
<1>8. \A n \in N : /\ f2[n] \in Row /\ f2[n].home = w /\ f2[n].email = None /\ f2[n].linked = None
                   /\ w # None
  BY <1>1 DEF IsMain, Row
<1>9. WellTyped(reg, own2, D2, f2)
  <2>1. \A v \in Users : own2[v] # None =>
           v \in reg /\ own2[v] \in reg /\ own2[own2[v]] = None
    BY <1>1, <1>7
  <2>2. \A j \in D2 : f2[j] \in Row /\ f2[j].home \in reg /\ f2[j].linked \in reg \cup {None}
    BY <1>1, <1>5, <1>8
  <2> QED BY <1>1, <2>1, <2>2 DEF WellTyped
<1>10. OwnedHasMainOnly(own2, D2, f2)
  <2> SUFFICES ASSUME NEW v \in Users, own2[v] # None
               PROVE  /\ \A j \in D2 : f2[j].home = v => f2[j].email = None /\ f2[j].linked = None
                      /\ \A j, k \in D2 : f2[j].home = v /\ f2[k].home = v => j = k
    BY DEF OwnedHasMainOnly
  <2>1. \A j \in D2 : f2[j].home = v => j \in D /\ f2[j] = f[j]
    BY <1>7, <1>8
  <2>2. /\ \A j \in D : f[j].home = v => f[j].email = None /\ f[j].linked = None
        /\ \A j, k \in D : f[j].home = v /\ f[k].home = v => j = k
    BY <1>7 DEF Household, OwnedHasMainOnly
  <2> QED BY <2>1, <2>2
<1>11. FirstIsMain(reg, own2, D2, f2)
  <2> SUFFICES ASSUME NEW v \in reg, own2[v] = None
               PROVE  \E j \in D2 : IsMain(f2[j], v) /\ \A k \in D2 : f2[k].home = v => j <= k
    BY DEF FirstIsMain
  <2>1. CASE v = w
    <3>1. \A j \in D2 : f2[j].home = w => IsMain(f2[j], w) /\ j \in Nat
      <4>1. \A j \in D : f[j].home = w => f[j].email = None /\ f[j].linked = None
        BY <1>1, <1>5, <2>1 DEF Household, OwnedHasMainOnly
      <4>2. ASSUME NEW j \in D \ {i}, f2[j].home = w PROVE IsMain(f2[j], w) /\ j \in Nat
        BY <1>1, <4>1, <4>2 DEF IsMain
      <4>3. ASSUME NEW j \in N PROVE IsMain(f2[j], w) /\ j \in Nat
        OBVIOUS
      <4> QED BY <4>2, <4>3
    <3>2. \A j, k \in D2 : j \notin N /\ k \notin N /\ f2[j].home = w /\ f2[k].home = w => j = k
      <4>1. \A j, k \in D : f[j].home = w /\ f[k].home = w => j = k
        BY <1>1, <1>5, <2>1 DEF Household, OwnedHasMainOnly
      <4> QED BY <4>1
    <3>3. PICK j \in D2 : f2[j].home = w
      BY <1>1, <2>1
    <3>4. CASE \E k \in D2 : f2[k].home = w /\ k < j
      <4>1. PICK k \in D2 : f2[k].home = w /\ k < j
        BY <3>4
      <4>2. \A l \in D2 : f2[l].home = w => l = k \/ l = j
        <5>1. j \in Nat /\ k \in Nat /\ j # k
          BY <3>1, <3>3, <4>1
        <5> QED BY <3>2, <3>3, <4>1, <5>1
      <4>3. \A l \in D2 : f2[l].home = w => k <= l
        BY <3>1, <3>3, <4>1, <4>2
      <4> QED BY <2>1, <3>1, <4>1, <4>3
    <3>5. CASE ~\E k \in D2 : f2[k].home = w /\ k < j
      <4>1. \A l \in D2 : f2[l].home = w => j <= l
        BY <3>1, <3>3, <3>5
      <4> QED BY <2>1, <3>1, <3>3, <4>1
    <3> QED BY <3>4, <3>5
  <2>2. CASE v # w
    <3>1. own[v] = None
      BY <1>1, <2>2
    <3>2. \A k \in D2 : f2[k].home = v => k \in D /\ f2[k] = f[k]
      BY <1>8, <2>2
    <3>3. CASE v = h
      BY <1>3, <1>4, <3>2, <3>3
    <3>4. CASE v # h
      <4>1. PICK j \in D : IsMain(f[j], v) /\ \A k \in D : f[k].home = v => j <= k
        BY <3>1 DEF Household, FirstIsMain
      <4>2. j # i
        BY <3>4, <4>1 DEF IsMain
      <4> QED BY <3>2, <4>1, <4>2
    <3> QED BY <3>3, <3>4
  <2> QED BY <2>1, <2>2
<1>12. OwnedHasRow(own2, D2, f2)
  <2> SUFFICES ASSUME NEW v \in Users, own2[v] # None
               PROVE  \E j \in D2 : f2[j].home = own2[v] /\ f2[j].linked = v /\ f2[j].email = v
    BY DEF OwnedHasRow
  <2>1. PICK j \in D : f[j].home = own2[v] /\ f[j].linked = v /\ f[j].email = v
    BY <1>7 DEF Household, OwnedHasRow
  <2>2. j # i
    BY <1>7, <2>1
  <2> QED BY <2>1, <2>2
<1>13. Linkage(own2, D2, f2)
  <2> SUFFICES ASSUME NEW j \in D2, f2[j].linked # None
               PROVE  /\ own2[f2[j].linked] = f2[j].home
                      /\ \A k \in D2 : f2[k].linked = f2[j].linked => j = k
    BY DEF Linkage
  <2>1. j \in D /\ j # i /\ f2[j] = f[j]
    BY <1>8
  <2>2. f[j].linked # w /\ f[j].linked \in Users
    BY <1>1, <1>6, <2>1
  <2>3. own[f[j].linked] = f[j].home /\ \A k \in D : f[k].linked = f[j].linked => j = k
    BY <2>1 DEF Household, Linkage
  <2>4. \A k \in D2 : f2[k].linked = f2[j].linked => j = k
    BY <1>8, <2>1, <2>3
  <2> QED BY <2>1, <2>2, <2>3, <2>4
<1>14. EmailsDiffer(D2, f2)
  <2> SUFFICES ASSUME NEW j \in D2, NEW k \in D2, f2[j].email # None, f2[j].email = f2[k].email
               PROVE  j = k
    BY DEF EmailsDiffer
  <2>1. j \in D /\ k \in D /\ f2[j] = f[j] /\ f2[k] = f[k]
    BY <1>8
  <2> QED BY <2>1 DEF Household, EmailsDiffer
<1>15. InvitedLater(reg, D2, f2)
  <2> SUFFICES ASSUME NEW p \in D2, NEW q \in D2, f2[p].email \in reg, f2[q].home = f2[p].email
               PROVE  \E k \in D2 : f2[k].home = f2[p].home /\ k < q
    BY DEF InvitedLater
  <2>1. p \in D /\ p # i /\ p \notin N /\ f2[p] = f[p]
    BY <1>1, <1>8
  <2>2. q \notin N
    BY <1>6, <1>8, <2>1
  <2>3. q \in D /\ f2[q] = f[q]
    BY <2>2
  <2>4. PICK k \in D : f[k].home = f[p].home /\ k < q
    BY <2>1, <2>3 DEF Household, InvitedLater
  <2>5. CASE k # i
    BY <2>1, <2>4, <2>5
  <2>6. CASE k = i
    <3>1. first <= i /\ first \in Nat /\ i \in Nat /\ q \in Nat
      BY <1>1, <1>3, <2>3
    <3>2. first < q
      BY <2>4, <2>6, <3>1
    <3>3. f[first].home = f[p].home
      BY <1>3, <2>4, <2>6 DEF IsMain
    <3> QED BY <1>4, <2>1, <3>2, <3>3
  <2> QED BY <2>5, <2>6
<1> QED BY <1>9, <1>10, <1>11, <1>12, <1>13, <1>14, <1>15 DEF Household

LEMMA RowRemoved ==
    ASSUME NEW reg, NEW own, NEW D, NEW f, Household(reg, own, D, f), NEW i \in D,
           ~IsMain(f[i], f[i].home) \/ \E j \in D : j < i /\ f[j].home = f[i].home,
           NEW own2 \in [Users -> Users \cup {None}],
           \A v \in Users : own2[v] = IF v = f[i].linked THEN None ELSE own[v],
           f[i].linked # None => \E j \in D : f[j].home = f[i].linked
    PROVE  Household(reg, own2, D \ {i}, f)
<1>1. f[i].linked # None => \E j \in (D \ {i}) \cup {} : f[j].home = f[i].linked
  <2>1. f[i].linked # None => f[i].home # f[i].linked
    BY HomeIsMain DEF Household, WellTyped, Linkage
  <2> QED BY <2>1
<1> DEFINE N == {}
<1>2. /\ N \in SUBSET Nat /\ \A m, n \in N : m = n
      /\ \A j \in D \ {i} : j \notin N /\ f[j] = f[j]
      /\ \A n \in N : f[n] \in Row /\ IsMain(f[n], f[i].linked)
  OBVIOUS
<1>3. f[i].linked # None => \E j \in (D \ {i}) \cup N : f[j].home = f[i].linked
  BY <1>1
<1> HIDE DEF N
<1>4. Household(reg, own2, (D \ {i}) \cup N, f)
  BY <1>2, <1>3, RowGone
<1>5. (D \ {i}) \cup N = D \ {i}
  BY DEF N
<1> QED BY <1>4, <1>5

LEMMA RowReplaced ==
    ASSUME NEW reg, NEW own, NEW D, NEW f, Household(reg, own, D, f), NEW i \in D,
           ~IsMain(f[i], f[i].home) \/ \E j \in D : j < i /\ f[j].home = f[i].home,
           NEW own2 \in [Users -> Users \cup {None}],
           \A v \in Users : own2[v] = IF v = f[i].linked THEN None ELSE own[v],
           NEW n \in Nat, n \notin D \ {i},
           NEW f2, \A j \in D \ {i} : f2[j] = f[j],
           f2[n] \in Row, IsMain(f2[n], f[i].linked)
    PROVE  Household(reg, own2, (D \ {i}) \cup {n}, f2)
<1> DEFINE N == {n}
<1>1. /\ N \in SUBSET Nat /\ \A k, m \in N : k = m
      /\ \A j \in D \ {i} : j \notin N /\ f2[j] = f[j]
      /\ \A m \in N : f2[m] \in Row /\ IsMain(f2[m], f[i].linked)
  OBVIOUS
<1>2. \E j \in (D \ {i}) \cup N : f2[j].home = f[i].linked
  BY DEF IsMain
<1> HIDE DEF N
<1>3. Household(reg, own2, (D \ {i}) \cup N, f2)
  BY <1>1, <1>2, RowGone
<1> QED BY <1>3 DEF N

-----------------------------------------------------------------------------
\* The rows after an insertion, an update and an insertion before a removal.
LEMMA Appended ==
    ASSUME NEW s \in Seq(Row), NEW r \in Row
    PROVE  /\ Append(s, r) \in Seq(Row) /\ Len(Append(s, r)) = Len(s) + 1
           /\ Append(s, r)[Len(s) + 1] = r
           /\ \A j \in DOMAIN s : j < Len(s) + 1 /\ Append(s, r)[j] = s[j]
           /\ DOMAIN Append(s, r) = DOMAIN s \cup {Len(s) + 1}
           /\ Len(s) + 1 \in Nat /\ Len(s) + 1 \notin DOMAIN s /\ DOMAIN s \in SUBSET Nat
BY AppendProperties, LenProperties

LEMMA Updated ==
    ASSUME NEW s \in Seq(Row), NEW i \in DOMAIN s, NEW r \in Row
    PROVE  /\ [s EXCEPT ![i] = r] \in Seq(Row) /\ Len([s EXCEPT ![i] = r]) = Len(s)
           /\ DOMAIN [s EXCEPT ![i] = r] = DOMAIN s
           /\ [s EXCEPT ![i] = r][i] = r
           /\ \A j \in DOMAIN s \ {i} : [s EXCEPT ![i] = r][j] = s[j]
BY ExceptSeq, LenProperties

LEMMA RemoveBeforeAppend ==
    ASSUME NEW s \in Seq(Row), NEW i \in DOMAIN s, NEW r \in Row
    PROVE  Append(RemoveAt(s, i), r) = RemoveAt(Append(s, r), i)
<1> DEFINE a == Append(RemoveAt(s, i), r)
           b == RemoveAt(Append(s, r), i)
<1>1. DOMAIN s = 1 .. Len(s) /\ Len(s) \in Nat
  OBVIOUS
<1>2. /\ RemoveAt(s, i) \in Seq(Row) /\ Len(RemoveAt(s, i)) = Len(s) - 1
      /\ \A k \in 1 .. Len(s) - 1 : RemoveAt(s, i)[k] = s[IF k < i THEN k ELSE k + 1]
  BY RemoveAtIs
<1>3. /\ a \in Seq(Row) /\ Len(a) = Len(s) /\ a[Len(s)] = r
      /\ \A k \in 1 .. Len(s) - 1 : a[k] = s[IF k < i THEN k ELSE k + 1]
  <2>1. /\ a \in Seq(Row) /\ Len(a) = Len(s) - 1 + 1 /\ a[Len(s) - 1 + 1] = r
        /\ \A k \in DOMAIN RemoveAt(s, i) : a[k] = RemoveAt(s, i)[k]
    BY <1>2, Appended
  <2>2. DOMAIN RemoveAt(s, i) = 1 .. Len(s) - 1
    BY <1>2
  <2>3. Len(s) - 1 + 1 = Len(s)
    BY <1>1
  <2> HIDE DEF a
  <2> QED BY <1>2, <2>1, <2>2, <2>3
<1>4. /\ Append(s, r) \in Seq(Row) /\ Len(Append(s, r)) = Len(s) + 1 /\ i \in DOMAIN Append(s, r)
      /\ \A k \in DOMAIN s : Append(s, r)[k] = s[k]
      /\ Append(s, r)[Len(s) + 1] = r
  BY Appended
<1>5. /\ b \in Seq(Row) /\ Len(b) = Len(s)
      /\ \A k \in 1 .. Len(s) : b[k] = Append(s, r)[IF k < i THEN k ELSE k + 1]
  <2>1. /\ b \in Seq(Row) /\ Len(b) = Len(Append(s, r)) - 1
        /\ \A k \in 1 .. Len(Append(s, r)) - 1 : b[k] = Append(s, r)[IF k < i THEN k ELSE k + 1]
    BY <1>4, RemoveAtIs
  <2>2. Len(Append(s, r)) - 1 = Len(s)
    BY <1>1, <1>4
  <2> HIDE DEF b
  <2> QED BY <2>1, <2>2
<1> HIDE DEF a, b
<1>6. ASSUME NEW k \in 1 .. Len(s) PROVE a[k] = b[k]
  <2>1. CASE k = Len(s)
    <3>1. b[k] = Append(s, r)[Len(s) + 1]
      BY <1>1, <1>5, <2>1
    <3> QED BY <1>3, <1>4, <2>1, <3>1
  <2>2. CASE k # Len(s)
    <3>1. k \in 1 .. Len(s) - 1
      <4>1. Len(s) \in Nat /\ k \in Nat /\ k >= 1 /\ k <= Len(s)
        BY <1>1
      <4> QED BY <2>2, <4>1
    <3> DEFINE l == IF k < i THEN k ELSE k + 1
    <3>2. l \in DOMAIN s
      BY <1>1, <3>1
    <3>3. a[k] = s[l]
      BY <1>3, <3>1
    <3>4. b[k] = Append(s, r)[l]
      BY <1>5
    <3> HIDE DEF l
    <3> QED BY <1>4, <3>2, <3>3, <3>4
  <2> QED BY <2>1, <2>2
<1> QED BY <1>3, <1>5, <1>6, SeqEqual DEF a, b

-----------------------------------------------------------------------------
\* The actions.

LEMMA InvariantSignUp ==
    ASSUME IInv, NEW u \in Users, SignUp(u) PROVE IInv'
<1> DEFINE n == Len(members) + 1
<1>1. /\ members \in Seq(Row) /\ Len(members) < MaxRows
      /\ Household(registered, owner, DOMAIN members, members)
      /\ u \notin registered /\ registered' = registered \cup {u} /\ owner' = owner
      /\ members' = Append(members, MainRow(u))
  BY DEF IInv, SignUp, Room
<1>2. MainRow(u) \in Row
  BY DEF MainRow, Row
<1>3. /\ members' \in Seq(Row) /\ Len(members') = n /\ members'[n] = MainRow(u)
      /\ \A j \in DOMAIN members : j < n /\ members'[j] = members[j]
      /\ DOMAIN members' = DOMAIN members \cup {n} /\ n \in Nat
  BY <1>1, <1>2, Appended
<1>4. Household(registered \cup {u}, owner, DOMAIN members \cup {n}, members')
  BY <1>1, <1>3, SignedUp
<1>5. Len(members') <= MaxRows
  BY <1>1, <1>3, LenProperties, HouseholdAssumption
<1> QED BY <1>1, <1>3, <1>4, <1>5 DEF IInv

LEMMA InvariantAddMember ==
    ASSUME IInv, NEW u \in Users, NEW email \in Users \cup {None}, NEW verified \in BOOLEAN,
           AddMember(u, email, verified)
    PROVE  IInv'
<1> DEFINE n == Len(members) + 1
           r == [MainRow(u) EXCEPT !.email = email, !.code = email # None, !.verified = verified]
<1>1. /\ members \in Seq(Row) /\ Len(members) < MaxRows
      /\ Household(registered, owner, DOMAIN members, members)
      /\ u \in registered /\ owner[u] = None /\ registered' = registered /\ owner' = owner
      /\ email # None => email \notin registered /\ \A i \in DOMAIN members : members[i].email # email
      /\ members' = Append(members, r)
  BY DEF IInv, AddMember, Room, IsHouseHold, Fresh
<1>2. r \in Row /\ r.home = u /\ r.linked = None /\ r.email = email
  BY DEF MainRow, Row
<1> HIDE DEF r
<1>3. /\ members' \in Seq(Row) /\ Len(members') = n /\ members'[n] = r
      /\ \A j \in DOMAIN members : j < n /\ members'[j] = members[j]
      /\ DOMAIN members' = DOMAIN members \cup {n} /\ n \in Nat
  BY <1>1, <1>2, Appended
<1>4. Household(registered, owner, DOMAIN members \cup {n}, members')
  <2>1. /\ members'[n] \in Row /\ members'[n].home = u /\ members'[n].linked = None
        /\ members'[n].email # None =>
              /\ members'[n].email \notin registered
              /\ \A i \in DOMAIN members : members[i].email # members'[n].email
    BY <1>1, <1>2, <1>3
  <2>2. /\ u \in registered /\ owner[u] = None /\ n \in Nat
        /\ \A i \in DOMAIN members : i < n /\ members'[i] = members[i]
        /\ Household(registered, owner, DOMAIN members, members)
    BY <1>1, <1>3
  <2> HIDE DEF n
  <2> QED BY <2>1, <2>2, MemberAdded
<1>5. Len(members') <= MaxRows
  BY <1>1, <1>3, LenProperties, HouseholdAssumption
<1> QED BY <1>1, <1>3, <1>4, <1>5 DEF IInv

LEMMA InvariantUpdateMember ==
    ASSUME NewAddresses, IInv, NEW u \in Users, NEW i \in DOMAIN members,
           NEW email \in Users \cup {None}, NEW verified \in BOOLEAN,
           UpdateMember(u, i, email, verified)
    PROVE  IInv'
<1> DEFINE r == [members[i] EXCEPT !.email = email, !.verified = verified]
           D == DOMAIN members
<1>1. /\ members \in Seq(Row) /\ Len(members) <= MaxRows
      /\ Household(registered, owner, D, members)
      /\ members[i].home = u
      /\ registered' = registered /\ owner' = owner
      /\ members' = [members EXCEPT ![i] = r]
  BY DEF IInv, UpdateMember
<1>2. \A j \in D : members[j] \in Row
  BY <1>1, ElementOfSeq
<1>3. /\ r \in Row /\ r.home = members[i].home /\ r.email = email
      /\ r.linked = members[i].linked
  BY <1>2 DEF Row
<1> HIDE DEF r
<1>4. /\ members' \in Seq(Row) /\ Len(members') = Len(members) /\ members'[i] = r
      /\ DOMAIN members' = D
      /\ \A j \in D \ {i} : members'[j] = members[j]
  BY <1>1, <1>3, Updated
<1>5. CASE email = members[i].email
  <2>1. \A j \in D : /\ members'[j] \in Row /\ members'[j].home = members[j].home
                     /\ members'[j].email = members[j].email
                     /\ members'[j].linked = members[j].linked
    BY <1>2, <1>3, <1>4, <1>5
  <2>2. Household(registered, owner, D, members')
    BY <1>1, <2>1, SameLinks
  <2> QED BY <1>1, <1>4, <2>2 DEF IInv
<1>6. CASE email # members[i].email
  <2>1. /\ email \in Users /\ members[i].linked = None
        /\ email \notin registered /\ \A j \in D : members[j].email # email
    BY <1>6 DEF UpdateMember, NewAddresses, Fresh
  <2>2. PICK first \in D : members[first].home = u /\ first < i
    <3>1. ~IsFirst(u, i)
      BY <1>6 DEF UpdateMember, NewAddresses
    <3> QED BY <1>1, <3>1, LenProperties DEF IsFirst, RowsOf
  <2>3. /\ members'[i] \in Row /\ members'[i].home = members[i].home
        /\ members'[i].email = email /\ members'[i].linked = None
    BY <1>3, <1>4, <2>1
  <2>4. Household(registered, owner, D, members')
    BY <1>1, <1>4, <2>1, <2>2, <2>3, EmailChanged
  <2> QED BY <1>1, <1>4, <2>4 DEF IInv
<1> QED BY <1>5, <1>6

LEMMA InvariantSendInvitationCode ==
    ASSUME IInv, NEW u \in Users, NEW i \in DOMAIN members, SendInvitationCode(u, i) PROVE IInv'
<1> DEFINE r == [members[i] EXCEPT !.code = TRUE]
<1>1. /\ members \in Seq(Row) /\ Len(members) <= MaxRows
      /\ Household(registered, owner, DOMAIN members, members)
      /\ registered' = registered /\ owner' = owner
      /\ members' = [members EXCEPT ![i] = r]
  BY DEF IInv, SendInvitationCode
<1>2. \A j \in DOMAIN members : members[j] \in Row
  BY <1>1, ElementOfSeq
<1>3. /\ r \in Row /\ r.home = members[i].home /\ r.email = members[i].email
      /\ r.linked = members[i].linked
  BY <1>2 DEF Row
<1> HIDE DEF r
<1>4. /\ members' \in Seq(Row) /\ Len(members') = Len(members) /\ members'[i] = r
      /\ DOMAIN members' = DOMAIN members
      /\ \A j \in DOMAIN members \ {i} : members'[j] = members[j]
  BY <1>1, <1>3, Updated
<1>5. \A j \in DOMAIN members :
         /\ members'[j] \in Row /\ members'[j].home = members[j].home
         /\ members'[j].email = members[j].email /\ members'[j].linked = members[j].linked
  BY <1>2, <1>3, <1>4
<1>6. Household(registered, owner, DOMAIN members, members')
  BY <1>1, <1>5, SameLinks
<1> QED BY <1>1, <1>4, <1>6 DEF IInv

LEMMA InvariantHousekeeperSignup ==
    ASSUME NewAddresses, IInv, NEW u \in Users, NEW i \in DOMAIN members,
           HousekeeperSignup(u, i)
    PROVE  IInv'
<1> DEFINE n == Len(members) + 1
           r == [members[i] EXCEPT !.linked = u]
           s == [members EXCEPT ![i] = r]
<1>1. /\ members \in Seq(Row) /\ Len(members) < MaxRows
      /\ Household(registered, owner, DOMAIN members, members)
      /\ u \notin registered /\ members[i].email = u
      /\ registered' = registered \cup {u} /\ owner' = [owner EXCEPT ![u] = members[i].home]
      /\ members' = Append(s, MainRow(u))
  BY DEF IInv, HousekeeperSignup, Room, NewAddresses
<1>2. MainRow(u) \in Row
  BY DEF MainRow, Row
<1>3. members[i] \in Row
  BY <1>1, ElementOfSeq
<1>4. r \in Row
  BY <1>3 DEF Row
<1>5. /\ s \in Seq(Row) /\ Len(s) = Len(members) /\ s[i] = r /\ DOMAIN s = DOMAIN members
      /\ \A j \in DOMAIN members \ {i} : s[j] = members[j]
  BY <1>1, <1>4, Updated
<1> HIDE DEF s, r
<1>6. /\ members' \in Seq(Row) /\ Len(members') = n /\ members'[n] = MainRow(u)
      /\ \A j \in DOMAIN members : j < n /\ members'[j] = s[j]
      /\ DOMAIN members' = DOMAIN members \cup {n} /\ n \in Nat
  BY <1>1, <1>2, <1>5, Appended
<1>7. members'[i] = r /\ \A j \in DOMAIN members \ {i} : members'[j] = members[j]
  BY <1>5, <1>6
<1>8. Household(registered \cup {u}, [owner EXCEPT ![u] = members[i].home],
                DOMAIN members \cup {n}, members')
  <2>1. /\ u \in Users \ registered /\ members[i].email = u /\ n \in Nat
        /\ \A j \in DOMAIN members : j < n
        /\ Household(registered, owner, DOMAIN members, members)
    BY <1>1, <1>6
  <2>2. /\ members'[n] = MainRow(u) /\ members'[i] = [members[i] EXCEPT !.linked = u]
        /\ \A j \in DOMAIN members \ {i} : members'[j] = members[j]
    BY <1>6, <1>7 DEF r
  <2> HIDE DEF n
  <2> QED BY <2>1, <2>2, HousekeeperSignedUp
<1>9. Len(members') <= MaxRows
  BY <1>1, <1>6, LenProperties, HouseholdAssumption
<1> QED BY <1>1, <1>6, <1>8, <1>9 DEF IInv

LEMMA InvariantMerge ==
    ASSUME IInv, NEW u \in Users, NEW i \in DOMAIN members, MergeTenantAccounts(u, i) PROVE IInv'
<1> DEFINE h == members[i].home
           D == DOMAIN members
<1>1. /\ members \in Seq(Row) /\ Len(members) <= MaxRows
      /\ Household(registered, owner, D, members)
      /\ u \in registered /\ members[i].email = u /\ members[i].email \in registered
      /\ registered' = registered /\ owner' = OwnersAfterMerge(u, h)
  BY DEF IInv, MergeTenantAccounts, Invited
<1>2. \A j \in D : members[j] \in Row
  BY <1>1, ElementOfSeq
<1>3. /\ owner \in [Users -> Users \cup {None}] /\ h \in Users /\ None \notin Users
      /\ \A v \in Users : owner[v] # None => owner[owner[v]] = None
  BY <1>1, <1>2, HouseholdAssumption DEF Household, WellTyped, Row
<1>4. /\ owner[h] = None /\ h # u
      /\ owner[u] # None => owner[u] = h /\ members[i].linked = u
  BY <1>1, Invitation
\* The housekeepers of u are those whom his rows describe.
<1>5. \A v \in Users : v \in Linked(RowsOf(u)) <=> owner[v] = u
  <2>1. ASSUME NEW v \in Users, v \in Linked(RowsOf(u)) PROVE owner[v] = u
    BY <1>1, <1>3, <2>1 DEF Linked, RowsOf, Household, Linkage
  <2>2. ASSUME NEW v \in Users, owner[v] = u PROVE v \in Linked(RowsOf(u))
    <3>1. PICK j \in D : members[j].home = u /\ members[j].linked = v
      BY <1>1, <1>3, <2>2 DEF Household, OwnedHasRow
    <3> QED BY <1>3, <3>1 DEF Linked, RowsOf
  <2> QED BY <2>1, <2>2
<1>6. /\ owner' \in [Users -> Users \cup {None}]
      /\ \A v \in Users : owner'[v] = IF v = u \/ owner[v] = u THEN h ELSE owner[v]
  BY <1>1, <1>3, <1>5 DEF OwnersAfterMerge
<1>7. CASE RowsOf(u) = {}
  <2> DEFINE r == [members[i] EXCEPT !.verified = TRUE, !.linked = u, !.code = FALSE]
  <2>1. members' = [members EXCEPT ![i] = r]
    BY <1>7 DEF MergeTenantAccounts
  <2>2. owner[u] = h /\ members[i].linked = u
    BY <1>1, <1>4, <1>7 DEF Household, FirstIsMain, IsMain, RowsOf
  <2>3. owner' = owner
    BY <1>3, <1>4, <1>6, <2>2
  <2>4. /\ r \in Row /\ r.home = members[i].home /\ r.email = members[i].email
        /\ r.linked = members[i].linked
    BY <1>2, <2>2 DEF Row
  <2> HIDE DEF r
  <2>5. /\ members' \in Seq(Row) /\ Len(members') = Len(members) /\ members'[i] = r
        /\ DOMAIN members' = D
        /\ \A j \in D \ {i} : members'[j] = members[j]
    BY <1>1, <2>1, <2>4, Updated
  <2>6. \A j \in D :
           /\ members'[j] \in Row /\ members'[j].home = members[j].home
           /\ members'[j].email = members[j].email /\ members'[j].linked = members[j].linked
    BY <1>2, <2>4, <2>5
  <2>7. Household(registered, owner, D, members')
    BY <1>1, <2>6, SameLinks
  <2> QED BY <1>1, <2>3, <2>5, <2>7 DEF IInv
<1>8. CASE RowsOf(u) # {}
  <2>1. PICK main \in {j \in RowsOf(u) : IsMain(members[j], u)} :
           members' = RemoveAt(Moved(u, h, main), i)
    <3>1. {j \in RowsOf(u) : IsMain(members[j], u)} # {}
      <4>1. CASE owner[u] = None
        BY <1>1, <4>1 DEF Household, FirstIsMain, RowsOf, IsMain
      <4>2. CASE owner[u] # None
        BY <1>1, <1>8, <4>2 DEF Household, OwnedHasMainOnly, RowsOf, IsMain
      <4> QED BY <4>1, <4>2
    <3> QED BY <1>8, <3>1 DEF MergeTenantAccounts
  <2> DEFINE f == Moved(u, h, main)
  <2>2. main \in D /\ IsMain(members[main], u)
    BY <2>1 DEF RowsOf
  <2>3. ASSUME NEW j \in D
        PROVE  /\ f[j] \in Row
               /\ f[j].home = IF members[j].home = u THEN h ELSE members[j].home
               /\ f[j].email = IF j = main THEN u ELSE members[j].email
               /\ f[j].linked = IF j = main THEN u ELSE members[j].linked
    <3>1. members[j] \in Row /\ h \in Users /\ u \in Users
      BY <1>2, <1>3
    <3>2. CASE members[j].home # u
      <4>1. f[j] = members[j] /\ j # main
        BY <2>2, <3>2 DEF Moved, RowsOf, IsMain
      <4> QED BY <3>1, <3>2, <4>1
    <3>3. CASE members[j].home = u /\ j = main
      <4>1. f[j] = [members[j] EXCEPT !.home = h, !.linked = u, !.email = u]
        BY <3>3 DEF Moved, RowsOf
      <4> QED BY <3>1, <3>3, <4>1 DEF Row
    <3>4. CASE members[j].home = u /\ j # main
      <4>1. f[j] = [members[j] EXCEPT !.home = h]
        BY <3>4 DEF Moved, RowsOf
      <4> QED BY <3>1, <3>4, <4>1 DEF Row
    <3> QED BY <3>2, <3>3, <3>4
  <2>4. DOMAIN f = D
    BY DEF Moved
  <2>5. f \in Seq(Row) /\ Len(f) = Len(members)
    <3>1. D = 1 .. Len(members) /\ Len(members) \in Nat
      BY <1>1
    <3>2. f = [j \in 1 .. Len(members) |-> f[j]]
      BY <3>1 DEF Moved
    <3> HIDE DEF f
    <3>3. f \in [1 .. Len(members) -> Row]
      BY <2>3, <3>1, <3>2
    <3>4. f \in Seq(Row)
      BY <3>1, <3>3, SeqDef
    <3> QED BY <3>1, <3>3, <3>4, LenProperties
  <2> HIDE DEF f
  <2>6. Household(registered, owner', D \ {i}, f)
    <3>1. \A j \in D \ {i} :
             /\ f[j] \in Row
             /\ f[j].home = IF members[j].home = u THEN h ELSE members[j].home
             /\ f[j].email = IF j = main THEN u ELSE members[j].email
             /\ f[j].linked = IF j = main THEN u ELSE members[j].linked
      BY <2>3
    <3> HIDE DEF h, D
    <3>2. h = members[i].home /\ i \in D
      BY DEF h, D
    <3> QED BY <1>1, <1>6, <2>2, <3>1, <3>2, Merged
  <2>7. Household(registered, owner', DOMAIN RemoveAt(f, i), RemoveAt(f, i))
    BY <2>4, <2>5, <2>6, Removed
  <2>8. members' = RemoveAt(f, i)
    BY <2>1 DEF f
  <2>9. members' \in Seq(Row) /\ Len(members') = Len(members) - 1
    BY <2>4, <2>5, <2>8, RemoveAtIs
  <2>10. Len(members') <= MaxRows
    BY <1>1, <2>9, LenProperties, HouseholdAssumption
  <2> QED BY <1>1, <2>7, <2>8, <2>9, <2>10 DEF IInv
<1> QED BY <1>7, <1>8

LEMMA InvariantRefuse ==
    ASSUME IInv, NEW u \in Users, NEW i \in DOMAIN members, Refuse(u, i) PROVE IInv'
<1> DEFINE h == members[i].home
           w == members[i].linked
           D == DOMAIN members
<1>1. /\ members \in Seq(Row) /\ Len(members) <= MaxRows
      /\ Household(registered, owner, D, members)
      /\ u \in registered /\ members[i].email = u /\ members[i].email \in registered
      /\ registered' = registered /\ owner' = [owner EXCEPT ![u] = None]
  BY DEF IInv, Refuse, Invited
<1>2. /\ owner \in [Users -> Users \cup {None}] /\ None \notin Users /\ D \in SUBSET Nat
      /\ \A j \in D : members[j] \in Row
  BY <1>1, HouseholdAssumption DEF Household, WellTyped
<1>3. /\ owner[u] # None => w = u
      /\ owner[u] = None => w = None
  BY <1>1, Invitation
<1>4. /\ owner' \in [Users -> Users \cup {None}]
      /\ \A v \in Users : owner'[v] = IF v = w THEN None ELSE owner[v]
  BY <1>1, <1>2, <1>3
<1>5. ~IsMain(members[i], h) \/ \E j \in D : j < i /\ members[j].home = h
  BY <1>1, <1>2 DEF IsMain
<1>6. CASE \E j \in D : IsMain(members[j], u)
  <2>1. members' = RemoveAt(members, i)
    BY <1>6 DEF Refuse
  <2>2. w # None => \E j \in D : members[j].home = w
    BY <1>1, <1>3, <1>6 DEF IsMain
  <2>3. Household(registered, owner', D \ {i}, members)
    BY <1>1, <1>4, <1>5, <2>2, RowRemoved
  <2>5. Household(registered, owner', DOMAIN members', members')
    BY <1>1, <2>1, <2>3, Removed
  <2>6. members' \in Seq(Row) /\ Len(members') = Len(members) - 1
    BY <1>1, <2>1, RemoveAtIs
  <2>7. Len(members') <= MaxRows
    BY <1>1, <2>6, LenProperties, HouseholdAssumption
  <2> QED BY <1>1, <2>5, <2>6, <2>7 DEF IInv
<1>7. CASE ~\E j \in D : IsMain(members[j], u)
  <2>1. members' = [members EXCEPT ![i] = MainRow(u)]
    BY <1>7 DEF Refuse
  <2>2. MainRow(u) \in Row /\ IsMain(MainRow(u), u)
    BY DEF MainRow, Row, IsMain
  <2>3. owner[u] # None
    BY <1>1, <1>7 DEF Household, FirstIsMain
  <2>4. w = u
    BY <1>3, <2>3
  <2>5. /\ members' \in Seq(Row) /\ Len(members') = Len(members) /\ members'[i] = MainRow(u)
        /\ DOMAIN members' = D
        /\ \A j \in D \ {i} : members'[j] = members[j]
    BY <1>1, <2>1, <2>2, Updated
  <2>6. Household(registered, owner', (D \ {i}) \cup {i}, members')
    <3> DEFINE n == i
               s == members'
    <3>1. /\ n \in Nat /\ n \notin D \ {i}
          /\ \A j \in D \ {i} : s[j] = members[j]
          /\ s[n] \in Row /\ IsMain(s[n], members[i].linked)
      BY <1>2, <2>2, <2>4, <2>5
    <3>2. Household(registered, owner, D, members)
      BY <1>1
    <3> HIDE DEF D, n, s
    <3>3. i \in D
      BY DEF D
    <3>4. Household(registered, owner', (D \ {i}) \cup {n}, s)
      BY <1>4, <1>5, <3>1, <3>2, <3>3, RowReplaced
    <3> QED BY <3>4 DEF n, s
  <2>7. (D \ {i}) \cup {i} = DOMAIN members'
    BY <2>5
  <2> QED BY <1>1, <2>5, <2>6, <2>7 DEF IInv
<1> QED BY <1>6, <1>7

LEMMA InvariantRemoveRow ==
    ASSUME IInv, NEW i \in DOMAIN members, RemoveRow(i),
           \/ ~IsMain(members[i], members[i].home)
           \/ \E j \in DOMAIN members : j < i /\ members[j].home = members[i].home
    PROVE  IInv'
<1> DEFINE h == members[i].home
           w == members[i].linked
           D == DOMAIN members
           rest == RemoveAt(members, i)
<1>1. /\ members \in Seq(Row) /\ Len(members) <= MaxRows
      /\ Household(registered, owner, D, members)
      /\ registered' = registered
      /\ owner' = IF w = None THEN owner ELSE [owner EXCEPT ![w] = None]
  BY DEF IInv, RemoveRow
<1>2. /\ owner \in [Users -> Users \cup {None}] /\ None \notin Users /\ D \in SUBSET Nat
      /\ \A j \in D : members[j] \in Row
      /\ w \in Users \cup {None}
  BY <1>1, HouseholdAssumption DEF Household, WellTyped
<1>3. /\ owner' \in [Users -> Users \cup {None}]
      /\ \A v \in Users : owner'[v] = IF v = w THEN None ELSE owner[v]
  BY <1>1, <1>2
<1>5. ~IsMain(members[i], h) \/ \E j \in D : j < i /\ members[j].home = h
  OBVIOUS
<1>6. /\ rest \in Seq(Row) /\ Len(rest) = Len(members) - 1
  BY <1>1, RemoveAtIs
<1>7. CASE w = None \/ \E j \in RowsOf(w) : members[j].linked = None /\ members[j].verified
  <2>1. members' = rest
    BY <1>7 DEF RemoveRow
  <2>2. w # None => \E j \in D : members[j].home = w
    BY <1>7 DEF RowsOf
  <2>3. Household(registered, owner', D \ {i}, members)
    BY <1>1, <1>3, <1>5, <2>2, RowRemoved
  <2>4. Household(registered, owner', DOMAIN members', members')
    BY <1>1, <2>1, <2>3, Removed
  <2>5. Len(members') <= MaxRows
    BY <1>1, <1>6, <2>1, LenProperties, HouseholdAssumption
  <2> QED BY <1>1, <1>6, <2>1, <2>4, <2>5 DEF IInv
<1>8. CASE ~(w = None \/ \E j \in RowsOf(w) : members[j].linked = None /\ members[j].verified)
  <2> DEFINE n == Len(members) + 1
             s == Append(members, MainRow(w))
  <2>1. w \in Users /\ members' = Append(rest, MainRow(w))
    BY <1>2, <1>8 DEF RemoveRow
  <2>2. MainRow(w) \in Row /\ IsMain(MainRow(w), w)
    BY <2>1 DEF MainRow, Row, IsMain
  <2>3. /\ s \in Seq(Row) /\ Len(s) = n /\ s[n] = MainRow(w)
        /\ \A j \in D : j < n /\ s[j] = members[j]
        /\ DOMAIN s = D \cup {n} /\ n \in Nat /\ n \notin D
    BY <1>1, <2>2, Appended
  <2>4. members' = RemoveAt(s, i)
    BY <1>1, <2>1, <2>2, RemoveBeforeAppend
  <2> HIDE DEF s, n, rest
  <2>5. Household(registered, owner', (D \ {i}) \cup {n}, s)
    <3>1. /\ n \in Nat /\ n \notin D \ {i}
          /\ \A j \in D \ {i} : s[j] = members[j]
          /\ s[n] \in Row /\ IsMain(s[n], members[i].linked)
      BY <2>2, <2>3
    <3>2. Household(registered, owner, D, members)
      BY <1>1
    <3> HIDE DEF D
    <3>3. i \in D
      BY DEF D
    <3> QED BY <1>3, <1>5, <3>1, <3>2, <3>3, RowReplaced
  <2>6. (D \ {i}) \cup {n} = DOMAIN s \ {i} /\ i \in DOMAIN s
    BY <2>3
  <2>7. Household(registered, owner', DOMAIN members', members')
    BY <2>3, <2>4, <2>5, <2>6, Removed
  <2>8. members' \in Seq(Row) /\ Len(members') = Len(members)
    <3>1. members' \in Seq(Row) /\ Len(members') = Len(s) - 1
      BY <2>3, <2>4, <2>6, RemoveAtIs
    <3> QED BY <1>1, <2>3, <3>1, LenProperties DEF n
  <2> QED BY <1>1, <2>7, <2>8 DEF IInv
<1> QED BY <1>7, <1>8

-----------------------------------------------------------------------------
LEMMA InvariantStarts == Init => IInv
<1> SUFFICES ASSUME Init PROVE IInv
  OBVIOUS
<1>1. members = <<>> /\ registered = {} /\ owner = [u \in Users |-> None]
  BY DEF Init
<1>2. members \in Seq(Row) /\ Len(members) = 0 /\ DOMAIN members = {}
  BY <1>1, EmptySeq
<1>3. Household(registered, owner, DOMAIN members, members)
  BY <1>1, <1>2
  DEF Household, WellTyped, OwnedHasMainOnly, FirstIsMain, OwnedHasRow, Linkage, EmailsDiffer,
      InvitedLater
<1> QED BY <1>2, <1>3, HouseholdAssumption DEF IInv

LEMMA InvariantStays ==
    ASSUME NewAddresses PROVE IInv /\ [Next]_vars => IInv'
<1> SUFFICES ASSUME IInv, [Next]_vars PROVE IInv'
  OBVIOUS
<1>1. ASSUME NEW u \in Users, LeaveHousehold(u) PROVE IInv'
  <2>1. PICK i \in DOMAIN members : members[i].linked = u /\ RemoveRow(i)
    BY <1>1 DEF LeaveHousehold
  <2>2. ~IsMain(members[i], members[i].home)
    BY <2>1, HouseholdAssumption DEF IsMain
  <2> QED BY <2>1, <2>2, InvariantRemoveRow
<1>2. ASSUME NEW u \in Users, NEW i \in DOMAIN members, RemoveMember(u, i) PROVE IInv'
  <2>1. DOMAIN members \in SUBSET Nat
    BY LenProperties DEF IInv
  <2>2. RemoveRow(i) /\ \E j \in DOMAIN members : j < i /\ members[j].home = members[i].home
    BY <1>2, <2>1 DEF RemoveMember, IsFirst, RowsOf
  <2> QED BY <2>2, InvariantRemoveRow
<1>3. CASE UNCHANGED vars
  BY <1>3 DEF IInv, vars
<1> QED
  BY <1>1, <1>2, <1>3, InvariantSignUp, InvariantAddMember, InvariantUpdateMember,
     InvariantSendInvitationCode, InvariantHousekeeperSignup, InvariantMerge, InvariantRefuse
  DEF Next

LEMMA InvariantHolds ==
    ASSUME NewAddresses PROVE Spec => []IInv
<1>1. IInv /\ [Next]_vars => IInv'
  BY InvariantStays
<1> QED BY <1>1, InvariantStarts, PTL DEF Spec

\* Provided that the addresses that are entered and who signs up with a code are
\* new (NewAddresses): after any sequence of invitations, mergers, refusals and
\* removals, between any number of prospects, a housekeeper belongs to a main
\* prospect who has no owner himself (mergeTenantAccounts moves the housekeepers of
\* whom it merges).  With "takenAddress" two prospects can invite each other.
THEOREM NoOwnerOfOwner ==
    ASSUME NewAddresses PROVE Spec => []OwnerIsMain
<1>1. IInv => OwnerIsMain
  BY DEF IInv, Household, WellTyped, OwnerIsMain
<1> QED BY <1>1, InvariantHolds, PTL

\* Under the same condition getMemberIdByOwnerId finds a row for every user: his
\* main row when he is on his own, else his row in the household of his owner.
\* With "mainAddress" the main row is not found any more.
THEOREM MemberIsFound ==
    ASSUME NewAddresses PROVE Spec => []MemberFound
<1>1. IInv => MemberFound
  <2> SUFFICES ASSUME IInv, NEW u \in registered
               PROVE  \E i \in DOMAIN members :
                         IF owner[u] = None THEN IsMain(members[i], u)
                         ELSE /\ members[i].home = owner[u] /\ members[i].linked = u
                              /\ members[i].email = u
    BY DEF MemberFound
  <2>1. CASE owner[u] = None
    BY <2>1 DEF IInv, Household, FirstIsMain
  <2>2. CASE owner[u] # None
    BY <2>2 DEF IInv, Household, WellTyped, OwnedHasRow
  <2> QED BY <2>1, <2>2
<1> QED BY <1>1, InvariantHolds, PTL

\* Under the same condition the row that describes a user is in the household of his
\* owner, and there is one.  With "codeLogin" the row of an invitation describes
\* somebody who has no owner.
THEOREM OneRowInOwnHousehold ==
    ASSUME NewAddresses PROVE Spec => []LinkedIsOwned
<1>1. IInv => LinkedIsOwned
  BY DEF IInv, Household, Linkage, LinkedIsOwned
<1> QED BY <1>1, InvariantHolds, PTL

-----------------------------------------------------------------------------
\* The types need no such condition.

\* Rows of registered users, as many as there may be.
Typed(reg, s) ==
    /\ s \in Seq(Row) /\ Len(s) <= MaxRows
    /\ \A i \in DOMAIN s : s[i].home \in reg /\ s[i].linked \in reg \cup {None}

LEMMA TypedMore ==
    ASSUME NEW reg, NEW s, Typed(reg, s), NEW u PROVE Typed(reg \cup {u}, s)
BY DEF Typed

LEMMA TypedRemove ==
    ASSUME NEW reg, NEW s, Typed(reg, s), NEW i \in DOMAIN s
    PROVE  Typed(reg, RemoveAt(s, i)) /\ Len(RemoveAt(s, i)) < MaxRows
<1>1. /\ s \in Seq(Row) /\ Len(s) <= MaxRows /\ DOMAIN s = 1 .. Len(s) /\ Len(s) \in Nat
      /\ i \in 1 .. Len(s)
  BY LenProperties DEF Typed
<1>2. /\ RemoveAt(s, i) \in Seq(Row) /\ Len(RemoveAt(s, i)) = Len(s) - 1
      /\ \A k \in 1 .. Len(s) - 1 : RemoveAt(s, i)[k] = s[IF k < i THEN k ELSE k + 1]
  BY <1>1, RemoveAtIs
<1>3. DOMAIN RemoveAt(s, i) = 1 .. Len(s) - 1
  BY <1>2, LenProperties
<1>4. \A k \in 1 .. Len(s) - 1 : (IF k < i THEN k ELSE k + 1) \in DOMAIN s
  BY <1>1
<1>5. \A k \in DOMAIN RemoveAt(s, i) : \E j \in DOMAIN s : RemoveAt(s, i)[k] = s[j]
  BY <1>2, <1>3, <1>4
<1>6. Len(RemoveAt(s, i)) < MaxRows
  BY <1>1, <1>2, HouseholdAssumption
<1> QED BY <1>2, <1>5, <1>6, HouseholdAssumption, LenProperties DEF Typed

LEMMA TypedAppend ==
    ASSUME NEW reg, NEW s, Typed(reg, s), Len(s) < MaxRows, NEW r \in Row,
           r.home \in reg, r.linked \in reg \cup {None}
    PROVE  Typed(reg, Append(s, r))
<1>1. /\ Append(s, r) \in Seq(Row) /\ Len(Append(s, r)) = Len(s) + 1
      /\ Append(s, r)[Len(s) + 1] = r
      /\ \A j \in DOMAIN s : Append(s, r)[j] = s[j]
      /\ DOMAIN Append(s, r) = DOMAIN s \cup {Len(s) + 1}
  BY Appended DEF Typed
<1>2. Len(s) + 1 <= MaxRows
  BY LenProperties, HouseholdAssumption DEF Typed
<1> QED BY <1>1, <1>2 DEF Typed

LEMMA TypedUpdate ==
    ASSUME NEW reg, NEW s, Typed(reg, s), NEW i \in DOMAIN s, NEW r \in Row,
           r.home \in reg, r.linked \in reg \cup {None}
    PROVE  Typed(reg, [s EXCEPT ![i] = r])
<1>1. /\ [s EXCEPT ![i] = r] \in Seq(Row) /\ Len([s EXCEPT ![i] = r]) = Len(s)
      /\ DOMAIN [s EXCEPT ![i] = r] = DOMAIN s
      /\ [s EXCEPT ![i] = r][i] = r
      /\ \A j \in DOMAIN s \ {i} : [s EXCEPT ![i] = r][j] = s[j]
  BY Updated DEF Typed
<1> QED BY <1>1 DEF Typed

LEMMA MainRowType ==
    ASSUME NEW u \in Users
    PROVE  MainRow(u) \in Row /\ MainRow(u).home = u /\ MainRow(u).linked = None
BY DEF MainRow, Row

\* An update, a merger and a removal, whoever is registered.
LEMMA TypedEdit ==
    ASSUME NEW reg, NEW s, Typed(reg, s), NEW i \in DOMAIN s,
           NEW email \in Users \cup {None}, NEW verified \in BOOLEAN
    PROVE  Typed(reg, [s EXCEPT ![i] = [s[i] EXCEPT !.email = email, !.verified = verified]])
<1> DEFINE r == [s[i] EXCEPT !.email = email, !.verified = verified]
<1>1. s[i] \in Row /\ s[i].home \in reg /\ s[i].linked \in reg \cup {None}
  BY ElementOfSeq DEF Typed
<1>2. r \in Row /\ r.home = s[i].home /\ r.linked = s[i].linked
  BY <1>1 DEF Row
<1> HIDE DEF r
<1>3. Typed(reg, [s EXCEPT ![i] = r])
  BY <1>1, <1>2, TypedUpdate
<1> QED BY <1>3 DEF r

LEMMA MergeTypes ==
    ASSUME TypeOK, NEW u \in Users, NEW i \in DOMAIN members, MergeTenantAccounts(u, i)
    PROVE  Typed(registered, members')
<1> DEFINE h == members[i].home
<1>1. /\ Typed(registered, members) /\ registered \subseteq Users /\ u \in registered
      /\ members[i].home \in registered
  BY DEF TypeOK, Typed, MergeTenantAccounts, Invited
<1>2. \A j \in DOMAIN members : members[j] \in Row /\ members[j].linked \in registered \cup {None}
  BY <1>1, ElementOfSeq DEF Typed
<1>3. CASE RowsOf(u) = {}
  <2> DEFINE r == [members[i] EXCEPT !.verified = TRUE, !.linked = u, !.code = FALSE]
  <2>1. members' = [members EXCEPT ![i] = r]
    BY <1>3 DEF MergeTenantAccounts
  <2>2. r \in Row /\ r.home = members[i].home /\ r.linked = u
    BY <1>1, <1>2 DEF Row
  <2> HIDE DEF r
  <2> QED BY <1>1, <2>1, <2>2, TypedUpdate
<1>4. CASE RowsOf(u) # {}
  <2>1. PICK main : members' = RemoveAt(Moved(u, h, main), i)
    BY <1>4 DEF MergeTenantAccounts
  <2> DEFINE f == Moved(u, h, main)
  <2>2. ASSUME NEW j \in DOMAIN members
        PROVE  f[j] \in Row /\ f[j].home \in registered /\ f[j].linked \in registered \cup {None}
    <3>1. /\ members[j] \in Row /\ h \in Users /\ u \in Users /\ h \in registered
          /\ members[j].home \in registered /\ members[j].linked \in registered \cup {None}
      BY <1>1, <1>2 DEF Typed
    <3>2. CASE j \notin RowsOf(u)
      <4>1. f[j] = members[j]
        BY <3>2 DEF Moved
      <4> QED BY <3>1, <4>1
    <3>3. CASE j \in RowsOf(u) /\ j = main
      <4>1. f[j] = [members[j] EXCEPT !.home = h, !.linked = u, !.email = u]
        BY <3>3 DEF Moved
      <4>2. f[j] \in Row /\ f[j].home = h /\ f[j].linked = u
        BY <3>1, <4>1 DEF Row
      <4> QED BY <1>1, <3>1, <4>2
    <3>4. CASE j \in RowsOf(u) /\ j # main
      <4>1. f[j] = [members[j] EXCEPT !.home = h]
        BY <3>4 DEF Moved
      <4>2. f[j] \in Row /\ f[j].home = h /\ f[j].linked = members[j].linked
        BY <3>1, <4>1 DEF Row
      <4> QED BY <3>1, <4>2
    <3> QED BY <3>2, <3>3, <3>4
  <2>3. DOMAIN members = 1 .. Len(members) /\ Len(members) \in Nat
    BY <1>1, LenProperties DEF Typed
  <2>4. f = [j \in 1 .. Len(members) |-> f[j]]
    BY <2>3 DEF Moved
  <2> HIDE DEF f
  <2>5. f \in [1 .. Len(members) -> Row]
    BY <2>2, <2>3, <2>4
  <2>6. f \in Seq(Row)
    BY <2>3, <2>5, SeqDef
  <2>7. Len(f) = Len(members) /\ DOMAIN f = DOMAIN members
    BY <2>3, <2>5, <2>6, LenProperties
  <2>8. Typed(registered, f)
    BY <1>1, <2>2, <2>6, <2>7 DEF Typed
  <2>9. Typed(registered, RemoveAt(f, i))
    BY <2>7, <2>8, TypedRemove
  <2> QED BY <2>1, <2>9 DEF f
<1> QED BY <1>3, <1>4

LEMMA RemoveRowTypes ==
    ASSUME TypeOK, NEW i \in DOMAIN members, RemoveRow(i) PROVE TypeOK'
<1> DEFINE v == members[i].linked
<1>1. /\ Typed(registered, members) /\ registered \subseteq Users /\ v \in registered \cup {None}
      /\ owner \in [Users -> Users \cup {None}] /\ None \notin Users
      /\ \A u \in Users : owner[u] # None => u \in registered
  BY HouseholdAssumption DEF TypeOK, Typed
<1>2. /\ registered' = registered
      /\ owner' = IF v = None THEN owner ELSE [owner EXCEPT ![v] = None]
      /\ \/ members' = RemoveAt(members, i)
         \/ v # None /\ members' = Append(RemoveAt(members, i), MainRow(v))
  BY DEF RemoveRow
<1>3. Typed(registered, RemoveAt(members, i)) /\ Len(RemoveAt(members, i)) < MaxRows
  BY <1>1, TypedRemove
<1>4. Typed(registered, members')
  <2>1. CASE v # None /\ members' = Append(RemoveAt(members, i), MainRow(v))
    <3>1. v \in registered /\ v \in Users
      BY <1>1, <2>1
    <3> HIDE DEF v
    <3>2. MainRow(v) \in Row /\ MainRow(v).home = v /\ MainRow(v).linked = None
      BY <3>1, MainRowType
    <3>3. Typed(registered, Append(RemoveAt(members, i), MainRow(v)))
      BY <1>3, <3>1, <3>2, TypedAppend
    <3> QED BY <2>1, <3>3
  <2> QED BY <1>2, <1>3, <2>1
<1>5. /\ owner' \in [Users -> Users \cup {None}]
      /\ \A u \in Users : owner'[u] # None => u \in registered
  BY <1>1, <1>2
<1> QED BY <1>1, <1>2, <1>4, <1>5 DEF TypeOK, Typed

LEMMA TypesStay == TypeOK /\ [Next]_vars => TypeOK'
<1> SUFFICES ASSUME TypeOK, [Next]_vars PROVE TypeOK'
  OBVIOUS
<1>1. /\ Typed(registered, members) /\ registered \subseteq Users
      /\ owner \in [Users -> Users \cup {None}] /\ None \notin Users
      /\ \A u \in Users : owner[u] # None => u \in registered
      /\ members \in Seq(Row) /\ \A i \in DOMAIN members : members[i] \in Row
  BY HouseholdAssumption, ElementOfSeq DEF TypeOK, Typed
<1>2. ASSUME Typed(registered', members'), registered' \subseteq Users,
             owner' \in [Users -> Users \cup {None}],
             \A u \in Users : owner'[u] # None => u \in registered'
      PROVE  TypeOK'
  BY <1>2 DEF TypeOK, Typed
<1>3. ASSUME NEW u \in Users, SignUp(u) PROVE TypeOK'
  <2>1. Typed(registered \cup {u}, members) /\ Len(members) < MaxRows
    BY <1>1, <1>3, TypedMore DEF SignUp, Room
  <2>2. Typed(registered \cup {u}, Append(members, MainRow(u)))
    BY <2>1, MainRowType, TypedAppend
  <2> QED BY <1>1, <1>2, <1>3, <2>2 DEF SignUp
<1>4. ASSUME NEW u \in Users, NEW email \in Users \cup {None}, NEW verified \in BOOLEAN,
             AddMember(u, email, verified)
      PROVE  TypeOK'
  <2> DEFINE r == [MainRow(u) EXCEPT !.email = email, !.code = email # None, !.verified = verified]
  <2>1. r \in Row /\ r.home = u /\ r.linked = None
    BY DEF MainRow, Row
  <2>2. u \in registered /\ Len(members) < MaxRows /\ members' = Append(members, r)
    BY <1>4 DEF AddMember, IsHouseHold, Room
  <2> HIDE DEF r
  <2>3. Typed(registered, members')
    BY <1>1, <2>1, <2>2, TypedAppend
  <2> QED BY <1>1, <1>2, <1>4, <2>3 DEF AddMember
<1>5. ASSUME NEW u \in Users, NEW i \in DOMAIN members, NEW email \in Users \cup {None},
             NEW verified \in BOOLEAN, UpdateMember(u, i, email, verified)
      PROVE  TypeOK'
  <2>1. members' = [members EXCEPT ![i] = [members[i] EXCEPT !.email = email, !.verified = verified]]
    BY <1>5 DEF UpdateMember
  <2>2. Typed(registered, members')
    BY <1>1, <2>1, TypedEdit
  <2> QED BY <1>1, <1>2, <1>5, <2>2 DEF UpdateMember
<1>6. ASSUME NEW u \in Users, NEW i \in DOMAIN members, SendInvitationCode(u, i) PROVE TypeOK'
  <2> DEFINE r == [members[i] EXCEPT !.code = TRUE]
  <2>1. r \in Row /\ r.home = members[i].home /\ r.linked = members[i].linked
    BY <1>1 DEF Row
  <2>2. members[i].home \in registered /\ members[i].linked \in registered \cup {None}
    BY DEF TypeOK
  <2>3. members' = [members EXCEPT ![i] = r]
    BY <1>6 DEF SendInvitationCode
  <2> HIDE DEF r
  <2>4. Typed(registered, members')
    BY <1>1, <2>1, <2>2, <2>3, TypedUpdate
  <2> QED BY <1>1, <1>2, <1>6, <2>4 DEF SendInvitationCode
<1>7. ASSUME NEW u \in Users, NEW i \in DOMAIN members, HousekeeperSignup(u, i) PROVE TypeOK'
  <2> DEFINE reg == registered \cup {u}
             r == [members[i] EXCEPT !.linked = u]
             s == [members EXCEPT ![i] = r]
  <2>1. Typed(reg, members)
    BY <1>1, TypedMore
  <2>2. r \in Row /\ r.home = members[i].home /\ r.linked = u /\ members[i].home \in registered
    BY <1>1 DEF Row, TypeOK
  <2>3. /\ registered' = reg
        /\ owner' = IF u \in registered THEN owner ELSE [owner EXCEPT ![u] = members[i].home]
        /\ IF u \in registered THEN members' = s
           ELSE Len(members) < MaxRows /\ members' = Append(s, MainRow(u))
    BY <1>7 DEF HousekeeperSignup, Room
  <2>4. /\ members[i].home \in Users
        /\ reg \subseteq Users /\ u \in reg /\ members[i].home \in reg
    BY <1>1, <2>2
  <2> HIDE DEF r
  <2>5. Typed(reg, s)
    BY <2>1, <2>2, <2>4, TypedUpdate
  <2>6. Len(s) = Len(members)
    BY <1>1, <2>2, Updated
  <2> HIDE DEF s, reg
  <2>7. Typed(reg, members')
    <3>1. CASE u \in registered
      BY <2>3, <2>5, <3>1
    <3>2. CASE u \notin registered
      BY <2>3, <2>4, <2>5, <2>6, <3>2, MainRowType, TypedAppend
    <3> QED BY <3>1, <3>2
  <2>8. /\ owner' \in [Users -> Users \cup {None}]
        /\ \A v \in Users : owner'[v] # None => v \in reg
    BY <1>1, <2>3, <2>4 DEF reg
  <2> QED BY <1>2, <2>3, <2>4, <2>7, <2>8
<1>8. ASSUME NEW u \in Users, NEW i \in DOMAIN members, MergeTenantAccounts(u, i) PROVE TypeOK'
  <2>1. Typed(registered, members')
    BY <1>8, MergeTypes
  <2>2. /\ registered' = registered /\ owner' = OwnersAfterMerge(u, members[i].home)
        /\ u \in registered /\ members[i].home \in Users
    BY <1>1, <1>8 DEF MergeTenantAccounts, Invited, TypeOK
  <2>3. Linked(RowsOf(u)) \subseteq registered
    BY DEF TypeOK, Linked, RowsOf
  <2>4. /\ owner' \in [Users -> Users \cup {None}]
        /\ \A v \in Users : owner'[v] # None => v \in registered
    BY <1>1, <2>2, <2>3 DEF OwnersAfterMerge
  <2> QED BY <1>1, <1>2, <2>1, <2>2, <2>4
<1>9. ASSUME NEW u \in Users, NEW i \in DOMAIN members, Refuse(u, i) PROVE TypeOK'
  <2>1. /\ u \in registered /\ registered' = registered /\ owner' = [owner EXCEPT ![u] = None]
        /\ \/ members' = RemoveAt(members, i)
           \/ members' = [members EXCEPT ![i] = MainRow(u)]
    BY <1>9 DEF Refuse, Invited
  <2>2. Typed(registered, RemoveAt(members, i))
    BY <1>1, TypedRemove
  <2>3. Typed(registered, [members EXCEPT ![i] = MainRow(u)])
    BY <1>1, <2>1, MainRowType, TypedUpdate
  <2> QED BY <1>1, <1>2, <2>1, <2>2, <2>3
<1>10. ASSUME NEW u \in Users, LeaveHousehold(u) PROVE TypeOK'
  BY <1>10, RemoveRowTypes DEF LeaveHousehold
<1>11. ASSUME NEW u \in Users, NEW i \in DOMAIN members, RemoveMember(u, i) PROVE TypeOK'
  BY <1>11, RemoveRowTypes DEF RemoveMember
<1>12. CASE UNCHANGED vars
  BY <1>12 DEF TypeOK, vars
<1> QED
  BY <1>3, <1>4, <1>5, <1>6, <1>7, <1>8, <1>9, <1>10, <1>11, <1>12 DEF Next

\* The type invariant of users and members, whatever addresses are entered.
THEOREM HouseholdTypes == Spec => []TypeOK
<1>1. Init => TypeOK
  <2> SUFFICES ASSUME Init PROVE TypeOK
    OBVIOUS
  <2>1. members = <<>> /\ registered = {} /\ owner = [u \in Users |-> None]
    BY DEF Init
  <2>2. members \in Seq(Row) /\ Len(members) = 0 /\ DOMAIN members = {}
    BY <2>1, EmptySeq
  <2> QED BY <2>1, <2>2, HouseholdAssumption DEF TypeOK
<1> QED BY <1>1, TypesStay, PTL DEF Spec
=============================================================================
