---------------------------- MODULE EditionProofs ----------------------------
(***************************************************************************)
(* What becomes of an edition.  What was collected is grouped: for any     *)
(* items and signals, what a group is about, and what it keeps             *)
(* (ItemGroups).  Its items are selected: for any candidates, topics,      *)
(* families, limits and budgets, which ones triage admits and what the     *)
(* shortlist offers (EditionSelection).  Then it is stored: for any dates, *)
(* items and number of days, what a run has stored outlives the run,       *)
(* because its row is created before it retrieves an item, and an item is  *)
(* kept no shorter than a row (EditionStore).                              *)
(***************************************************************************)
EXTENDS ItemGroups, EditionSelection, EditionStore, FiniteSetTheorems, SequenceTheorems, TLAPS

----------------------------------------------------------------------------
(* Numbers and recursion.                                                    *)

LEMMA Least ==
    ASSUME NEW S, S \subseteq Nat, S # {}
    PROVE  \E m \in S : \A k \in S : m <= k
<1> DEFINE R == {ss \in Nat \X Nat : ss[1] < ss[2]}
<1>1. IsWellFoundedOn(R, Nat)
    BY NatLessThanWellFounded, Zenon DEF OpToRel
<1> HIDE DEF R
<1>2. PICK m \in S : \A k \in S : <<k, m>> \notin R
    BY <1>1, WFMin, Zenon
<1>3. \A k \in S : ~(k < m)
    BY <1>2 DEF R
<1> QED
    BY <1>3

\* Induction up to n, for a set of numbers.
LEMMA Reaches ==
    ASSUME NEW n \in Nat, NEW P, 0 \in P, \A k \in 1 .. n : k - 1 \in P => k \in P
    PROVE  \A k \in 0 .. n : k \in P
<1> DEFINE Bad == {k \in Nat : k <= n /\ k \notin P}
<1> SUFFICES ASSUME Bad # {} PROVE FALSE
    OBVIOUS
<1>1. PICK k \in Bad : \A j \in Bad : k <= j
    BY Least
<1>2. k \in 1 .. n /\ k \notin P /\ k - 1 \in Nat /\ k - 1 <= n /\ ~(k <= k - 1)
    BY <1>1
<1>3. k - 1 \in P
    BY <1>1, <1>2
<1> QED
    BY <1>2, <1>3

\* A recursion over 0 .. n whose steps stay in S has its function.
IsIteration(f, S, first, n, step) ==
    /\ f \in [0 .. n -> S] /\ f[0] = first
    /\ \A k \in 1 .. n : f[k] = step[<<f[k - 1], k>>]
LEMMA Iterates ==
    ASSUME NEW S, NEW first \in S, NEW n \in Nat, NEW step \in [S \X (1 .. n) -> S]
    PROVE  \E f : IsIteration(f, S, first, n, step)
<1> DEFINE Upto(f, m) == /\ f \in [0 .. m -> S] /\ f[0] = first
                         /\ \A k \in 1 .. m : f[k] = step[<<f[k - 1], k>>]
           P == {m \in 0 .. n : \E f : Upto(f, m)}
<1>1. 0 \in P
    <2>1. Upto([k \in 0 .. 0 |-> first], 0)
        OBVIOUS
    <2> HIDE DEF Upto
    <2>2. \E f : Upto(f, 0)
        BY <2>1
    <2> QED
        BY <2>2
<1>2. ASSUME NEW m \in 1 .. n, m - 1 \in P PROVE m \in P
    <2>1. PICK f : Upto(f, m - 1)
        BY <1>2
    <2> DEFINE g == [k \in 0 .. m |-> IF k = m THEN step[<<f[m - 1], m>>] ELSE f[k]]
    <2>2. m - 1 \in 0 .. m - 1 /\ f[m - 1] \in S /\ step[<<f[m - 1], m>>] \in S
        BY <2>1
    <2>3. \A k \in 0 .. m - 1 : k \in 0 .. m /\ g[k] = f[k] /\ g[k] \in S
        BY <2>1
    <2>4. g \in [0 .. m -> S]
        <3>1. g[m] = step[<<f[m - 1], m>>]
            OBVIOUS
        <3>2. \A k \in 0 .. m : k \in 0 .. m - 1 \/ k = m
            OBVIOUS
        <3>3. \A k \in 0 .. m : g[k] \in S
            BY <2>2, <2>3, <3>1, <3>2
        <3>4. g = [k \in 0 .. m |-> g[k]]
            OBVIOUS
        <3> HIDE DEF g
        <3> QED
            BY <3>3, <3>4
    <2>5. g[0] = first
        BY <2>1, <2>3
    <2>6. ASSUME NEW k \in 1 .. m PROVE g[k] = step[<<g[k - 1], k>>]
        <3>1. g[k - 1] = f[k - 1]
            BY <2>3
        <3>2. CASE k = m
            <4>1. g[m] = step[<<f[m - 1], m>>]
                OBVIOUS
            <4> HIDE DEF g
            <4> QED
                BY <3>1, <3>2, <4>1
        <3>3. CASE k # m
            <4>1. k \in 1 .. m - 1 /\ g[k] = f[k]
                BY <2>3, <3>3
            <4> QED
                BY <2>1, <3>1, <4>1
        <3> QED
            BY <3>2, <3>3
    <2> HIDE DEF g
    <2>7. Upto(g, m)
        BY <2>4, <2>5, <2>6
    <2> QED
        BY <2>7
<1>3. n \in P
    <2> HIDE DEF P
    <2> QED
        BY <1>1, <1>2, Reaches
<1> QED
    BY <1>3 DEF IsIteration

----------------------------------------------------------------------------
(* Orders: before[i] is what comes before i in a finite set.                 *)

Ordering(S, before) ==
    /\ IsFiniteSet(S) /\ before \in [S -> SUBSET S]
    /\ \A i \in S : i \notin before[i]
    /\ \A i, j \in S : j \in before[i] => before[j] \subseteq before[i]
    /\ \A i, j \in S : i # j => i \in before[j] \/ j \in before[i]
Rankings(S, before) ==
    /\ \A i \in S : Cardinality(before[i]) + 1 \in 1 .. Cardinality(S)
    /\ \A i, j \in S : i \in before[j] => Cardinality(before[i]) < Cardinality(before[j])
    /\ \A i, j \in S : Cardinality(before[i]) = Cardinality(before[j]) => i = j
    /\ \A n \in 1 .. Cardinality(S) : \E i \in S : Cardinality(before[i]) + 1 = n

LEMMA RankIsPlace == ASSUME NEW S, NEW before, Ordering(S, before) PROVE Rankings(S, before)
<1> DEFINE N == Cardinality(S)
           T == 1 .. N
           f == [i \in S |-> Cardinality(before[i]) + 1]
<1>1. N \in Nat /\ IsFiniteSet(S)
    BY FS_CardinalityType DEF Ordering
<1>2. ASSUME NEW i \in S PROVE /\ IsFiniteSet(before[i]) /\ Cardinality(before[i]) \in Nat
                               /\ IsFiniteSet(before[i] \cup {i})
                               /\ Cardinality(before[i] \cup {i}) = Cardinality(before[i]) + 1
    <2>1. before[i] \subseteq S /\ i \notin before[i]
        BY DEF Ordering
    <2>2. IsFiniteSet(before[i])
        BY <1>1, <2>1, FS_Subset
    <2> QED
        BY <2>1, <2>2, FS_AddElement, FS_CardinalityType
<1>3. ASSUME NEW i \in S PROVE Cardinality(before[i]) + 1 \in T
    <2>1. before[i] \cup {i} \subseteq S
        BY DEF Ordering
    <2>2. Cardinality(before[i] \cup {i}) <= N
        BY <1>1, <2>1, FS_Subset
    <2>3. /\ Cardinality(before[i]) \in Nat
          /\ Cardinality(before[i] \cup {i}) = Cardinality(before[i]) + 1
        BY <1>2
    <2> DEFINE c == Cardinality(before[i])
    <2>4. c \in Nat /\ c + 1 <= N
        BY <2>2, <2>3
    <2> HIDE DEF c, N
    <2>5. c + 1 \in 1 .. N
        BY <1>1, <2>4
    <2> QED
        BY <2>5 DEF c
<1>4. ASSUME NEW i \in S, NEW j \in S, i \in before[j]
      PROVE  Cardinality(before[i]) < Cardinality(before[j])
    <2>1. before[i] \cup {i} \subseteq before[j]
        BY <1>4 DEF Ordering
    <2>2. Cardinality(before[i] \cup {i}) <= Cardinality(before[j])
        BY <1>2, <2>1, FS_Subset
    <2>3. /\ Cardinality(before[i]) \in Nat /\ Cardinality(before[j]) \in Nat
          /\ Cardinality(before[i] \cup {i}) = Cardinality(before[i]) + 1
        BY <1>2
    <2> QED
        BY <2>2, <2>3
<1>5. ASSUME NEW i \in S, NEW j \in S, Cardinality(before[i]) = Cardinality(before[j]), i # j
      PROVE  FALSE
    <2>1. i \in before[j] \/ j \in before[i]
        BY <1>5 DEF Ordering
    <2>2. Cardinality(before[i]) \in Nat /\ Cardinality(before[j]) \in Nat
        BY <1>2
    <2> QED
        BY <1>4, <1>5, <2>1, <2>2
<1>6. f \in Injection(S, T)
    <2>1. f \in [S -> T]
        BY <1>3
    <2>2. ASSUME NEW i \in S, NEW j \in S, f[i] = f[j] PROVE i = j
        <3>1. Cardinality(before[i]) \in Nat /\ Cardinality(before[j]) \in Nat
            BY <1>2
        <3>2. Cardinality(before[i]) + 1 = Cardinality(before[j]) + 1
            BY <2>2
        <3>3. Cardinality(before[i]) = Cardinality(before[j])
            BY <3>1, <3>2
        <3> QED
            BY <1>5, <3>3
    <2> HIDE DEF f, T
    <2> QED
        BY <2>1, <2>2 DEF Injection, IsInjective
<1>7. IsFiniteSet(T) /\ Cardinality(T) = N
    BY <1>1, FS_Interval
<1>8. f \in Surjection(S, T)
    <2> HIDE DEF f, T
    <2> QED
        BY <1>1, <1>6, <1>7, FS_Injection
<1>9. \A n \in T : \E i \in S : Cardinality(before[i]) + 1 = n
    BY <1>8 DEF Surjection
<1> QED
    BY <1>3, <1>4, <1>5, <1>9 DEF Rankings

SortedBy(S, before) ==
    [n \in 1 .. Cardinality(S) |-> CHOOSE i \in S : Cardinality(before[i]) = n - 1]
IsSorting(s, S, before) ==
    /\ s \in Seq(S) /\ Len(s) = Cardinality(S)
    /\ \A i \in S : \E n \in 1 .. Len(s) : s[n] = i
    /\ \A m, n \in 1 .. Len(s) : m < n => s[m] \in before[s[n]]

\* Sorting loses nothing and keeps the order.
LEMMA SortingIsAll ==
    ASSUME NEW S, NEW before, Ordering(S, before)
    PROVE  IsSorting(SortedBy(S, before), S, before)
<1> DEFINE N == Cardinality(S)
           s == SortedBy(S, before)
<1>0. N \in Nat /\ \A i \in S : Cardinality(before[i]) \in Nat
    BY FS_CardinalityType, FS_Subset DEF Ordering
<1>1. Rankings(S, before)
    BY RankIsPlace
<1>2. s = [n \in 1 .. N |-> CHOOSE i \in S : Cardinality(before[i]) = n - 1]
    BY DEF SortedBy
<1> HIDE DEF s, N
<1>3. \A n \in 1 .. N : \E i \in S : Cardinality(before[i]) = n - 1
    BY <1>0, <1>1 DEF Rankings, N
<1>4. \A n \in 1 .. N : s[n] \in S /\ Cardinality(before[s[n]]) = n - 1
    BY <1>2, <1>3
<1>5. s \in Seq(S) /\ Len(s) = N
    <2>1. s \in [1 .. N -> S]
        BY <1>2, <1>4
    <2> QED
        BY <1>0, <2>1
<1>6. ASSUME NEW i \in S PROVE \E n \in 1 .. N : s[n] = i
    <2>1. Cardinality(before[i]) + 1 \in 1 .. N
        BY <1>1 DEF Rankings, N
    <2>2. s[Cardinality(before[i]) + 1] \in S
          /\ Cardinality(before[s[Cardinality(before[i]) + 1]]) = Cardinality(before[i])
        BY <1>0, <1>4, <2>1
    <2>3. s[Cardinality(before[i]) + 1] = i
        BY <1>1, <2>2 DEF Rankings
    <2> QED
        BY <2>1, <2>3
<1>7. ASSUME NEW m \in 1 .. N, NEW n \in 1 .. N, m < n PROVE s[m] \in before[s[n]]
    <2>1. s[m] \in S /\ s[n] \in S /\ Cardinality(before[s[m]]) < Cardinality(before[s[n]])
        BY <1>0, <1>4, <1>7
    <2>2. s[m] # s[n] /\ s[n] \notin before[s[m]]
        BY <1>0, <1>1, <2>1 DEF Rankings
    <2> QED
        BY <2>1, <2>2 DEF Ordering
<1> QED
    BY <1>5, <1>6, <1>7 DEF IsSorting, N, s

----------------------------------------------------------------------------
(* The queue: it only grows, by candidates that can be selected.             *)

Extends(a, b) == Len(a) <= Len(b) /\ \A n \in 1 .. Len(a) : b[n] = a[n]

\* One place is given, or none.
GivesPlace(a, b, from, limit) ==
    \/ b = a
    \/ \E i \in from : CanSelect(a, i) /\ Len(a) < limit /\ b = Append(a, i)

\* What several places given one after the other come to.
Grows(a, b, from, limit) ==
    /\ Extends(a, b)
    /\ \A n \in 1 .. Len(b) : n > Len(a) => b[n] \in from
    /\ Len(a) >= limit => b = a
    /\ Len(a) <= Maximum => Len(b) <= Maximum

LEMMA CapsAreNumbers ==
    /\ Maximum \in Nat /\ MaximumPerFamily \in Nat /\ NearAllowance \in Nat
    /\ MinimumFit \in Nat /\ NearFit \in Nat /\ NearFit < MinimumFit
    /\ Len(Topics) \in Nat /\ Len(Topics) <= Maximum /\ Len(Topics) <= MaximumPerFamily
    /\ Len(Families) \in Nat
    /\ \A f \in ToSet(Families) : DomainMaximum[f] \in Nat /\ Len(Topics) <= DomainMaximum[f]
    BY TriageAssumption

LEMMA PlaceGrows ==
    ASSUME NEW U, NEW a \in Seq(U), NEW b, NEW from \in SUBSET U, NEW limit \in Nat,
           GivesPlace(a, b, from, limit)
    PROVE  b \in Seq(U) /\ Grows(a, b, from, limit)
<1>1. CASE b = a
    BY <1>1 DEF Grows, Extends
<1>2. CASE b # a
    <2>1. PICK i \in from : CanSelect(a, i) /\ Len(a) < limit /\ b = Append(a, i)
        BY <1>2 DEF GivesPlace
    <2>2. /\ b \in Seq(U) /\ Len(a) \in Nat /\ Len(b) = Len(a) + 1 /\ b[Len(a) + 1] = i
          /\ \A n \in 1 .. Len(a) : b[n] = a[n]
        BY <2>1
    <2>3. Len(a) < Maximum
        BY <2>1 DEF CanSelect
    <2>4. \A n \in 1 .. Len(b) : n > Len(a) => n = Len(a) + 1
        BY <2>2
    <2> QED
        BY <2>1, <2>2, <2>3, <2>4, CapsAreNumbers DEF Grows, Extends
<1> QED
    BY <1>1, <1>2

LEMMA GrowsSame ==
    ASSUME NEW U, NEW a \in Seq(U), NEW from, NEW limit
    PROVE  Grows(a, a, from, limit)
    BY DEF Grows, Extends

LEMMA GrowsOn ==
    ASSUME NEW U, NEW a \in Seq(U), NEW b \in Seq(U), NEW c \in Seq(U), NEW from, NEW limit \in Nat,
           Grows(a, b, from, limit), Grows(b, c, from, limit)
    PROVE  Grows(a, c, from, limit)
<1>1. Len(a) \in Nat /\ Len(b) \in Nat /\ Len(c) \in Nat
    OBVIOUS
<1>2. Extends(a, c)
    BY <1>1 DEF Grows, Extends
<1>3. \A n \in 1 .. Len(c) : n > Len(a) => c[n] \in from
    <2> TAKE n \in 1 .. Len(c)
    <2> HAVE n > Len(a)
    <2>1. CASE n <= Len(b)
        <3>1. n \in 1 .. Len(b) /\ c[n] = b[n]
            BY <1>1, <2>1 DEF Grows, Extends
        <3> QED
            BY <3>1 DEF Grows
    <2>2. CASE n > Len(b)
        BY <2>2 DEF Grows
    <2> QED
        BY <1>1, <2>1, <2>2
<1>4. Len(a) >= limit => c = a
    BY DEF Grows
<1>5. Len(a) <= Maximum => Len(c) <= Maximum
    BY DEF Grows
<1> QED
    BY <1>2, <1>3, <1>4, <1>5 DEF Grows

\* A full cap stays full, a covered topic covered, a member a member.
LEMMA ExtendsKeeps ==
    ASSUME NEW U, NEW a \in Seq(U), NEW b \in Seq(U), Extends(a, b)
    PROVE  /\ ToSet(a) \subseteq ToSet(b)
           /\ \A i \in U : i.family \in ToSet(Families) =>
                /\ FamilyFull(a, i) => FamilyFull(b, i)
                /\ DomainFull(a, i) => DomainFull(b, i)
           /\ \A t : TopicCovered(a, t) => TopicCovered(b, t)
<1>1. Len(a) \in Nat /\ Len(b) \in Nat /\ DOMAIN a = 1 .. Len(a) /\ DOMAIN b = 1 .. Len(b)
    OBVIOUS
<1>2. \A n \in DOMAIN a : n \in DOMAIN b /\ b[n] = a[n]
    BY <1>1 DEF Extends
<1>3. ToSet(a) \subseteq ToSet(b)
    BY <1>2 DEF ToSet, Lists!ToSet
<1>4. IsFiniteSet(DOMAIN b)
    BY <1>1, FS_Interval
<1>5. ASSUME NEW i \in U, i.family \in ToSet(Families)
      PROVE  /\ FamilyFull(a, i) => FamilyFull(b, i)
             /\ DomainFull(a, i) => DomainFull(b, i)
    <2> DEFINE Fa == {n \in DOMAIN a : a[n].family = i.family}
               Fb == {n \in DOMAIN b : b[n].family = i.family}
               Da == {n \in DOMAIN a : a[n].domain = i.domain}
               Db == {n \in DOMAIN b : b[n].domain = i.domain}
    <2>1. Fa \subseteq Fb /\ Da \subseteq Db /\ Fb \subseteq DOMAIN b /\ Db \subseteq DOMAIN b
        BY <1>2
    <2> HIDE DEF Fa, Fb, Da, Db
    <2>2. IsFiniteSet(Fb) /\ IsFiniteSet(Db) /\ IsFiniteSet(Fa) /\ IsFiniteSet(Da)
        BY <1>4, <2>1, FS_Subset
    <2>3. Cardinality(Fa) <= Cardinality(Fb) /\ Cardinality(Da) <= Cardinality(Db)
        BY <2>1, <2>2, FS_Subset
    <2>4. /\ Cardinality(Fa) \in Nat /\ Cardinality(Fb) \in Nat
          /\ Cardinality(Da) \in Nat /\ Cardinality(Db) \in Nat
        BY <2>2, FS_CardinalityType
    <2>5. MaximumPerFamily \in Nat /\ DomainMaximum[i.family] \in Nat
        BY <1>5, CapsAreNumbers
    <2>6. /\ FamilyFull(a, i) <=> Cardinality(Fa) >= MaximumPerFamily
          /\ FamilyFull(b, i) <=> Cardinality(Fb) >= MaximumPerFamily
          /\ DomainFull(a, i) <=> Cardinality(Da) >= DomainMaximum[i.family]
          /\ DomainFull(b, i) <=> Cardinality(Db) >= DomainMaximum[i.family]
        BY DEF FamilyFull, DomainFull, Fa, Fb, Da, Db
    <2> QED
        BY <2>3, <2>4, <2>5, <2>6
<1>6. \A t : TopicCovered(a, t) => TopicCovered(b, t)
    BY <1>3 DEF TopicCovered
<1> QED
    BY <1>3, <1>5, <1>6

\* A cap above the length of the queue is not full.
LEMMA ShortIsOpen ==
    ASSUME NEW U, NEW a \in Seq(U), NEW i, i.family \in ToSet(Families),
           Len(a) < Len(Topics), i \notin ToSet(a)
    PROVE  CanSelect(a, i)
<1> DEFINE F == {n \in DOMAIN a : a[n].family = i.family}
           D == {n \in DOMAIN a : a[n].domain = i.domain}
<1>1. Len(a) \in Nat /\ DOMAIN a = 1 .. Len(a) /\ F \subseteq DOMAIN a /\ D \subseteq DOMAIN a
    OBVIOUS
<1> HIDE DEF F, D
<1>2. IsFiniteSet(DOMAIN a) /\ Cardinality(DOMAIN a) = Len(a)
    <2> DEFINE L == Len(a)
    <2>1. L \in Nat /\ DOMAIN a = 1 .. L
        BY <1>1
    <2> HIDE DEF L
    <2>2. IsFiniteSet(1 .. L) /\ Cardinality(1 .. L) = L
        BY <2>1, FS_Interval
    <2> QED
        BY <2>1, <2>2 DEF L
<1>3. Cardinality(F) <= Len(a) /\ Cardinality(D) <= Len(a)
      /\ Cardinality(F) \in Nat /\ Cardinality(D) \in Nat
    BY <1>1, <1>2, FS_Subset, FS_CardinalityType
<1>4. /\ MaximumPerFamily \in Nat /\ DomainMaximum[i.family] \in Nat /\ Len(Topics) \in Nat
      /\ Len(Topics) <= MaximumPerFamily /\ Len(Topics) <= DomainMaximum[i.family]
      /\ Maximum \in Nat /\ Len(Topics) <= Maximum
    BY CapsAreNumbers
<1>5. ~FamilyFull(a, i) /\ ~DomainFull(a, i)
    BY <1>1, <1>3, <1>4 DEF FamilyFull, DomainFull, F, D
<1> QED
    BY <1>1, <1>4, <1>5 DEF CanSelect

----------------------------------------------------------------------------
(* The recursions of SelectDiversified, with their intermediate queues.      *)

IsTopicPlaces(g, start, candidates, limit, skip) ==
    g = [n \in 0 .. Len(Topics) |-> IF n = 0 THEN start ELSE AddTopic(g[n - 1], Topics[n], candidates, limit, skip)]
TopicPlaces(f, S, start, candidates, limit, skip, result) ==
    /\ f \in [0 .. Len(Topics) -> S] /\ f[0] = start /\ result = f[Len(Topics)]
    /\ \A n \in 1 .. Len(Topics) : f[n] = AddTopic(f[n - 1], Topics[n], candidates, limit, skip)

\* The places given to the topics.
LEMMA TopicPlacesIs ==
    ASSUME NEW S, NEW start \in S, NEW candidates, NEW limit, NEW skip,
           Len(Topics) \in Nat,
           \A x \in S, n \in 1 .. Len(Topics) : AddTopic(x, Topics[n], candidates, limit, skip) \in S
    PROVE  \E f : TopicPlaces(f, S, start, candidates, limit, skip, AddTopics(start, candidates, limit, skip))
<1> DEFINE N == Len(Topics)
           next(x, n) == AddTopic(x, Topics[n], candidates, limit, skip)
           step == [x \in S \X (1 .. N) |-> next(x[1], x[2])]
<1>0. N \in Nat /\ \A x \in S, n \in 1 .. N : next(x, n) \in S
    OBVIOUS
<1> HIDE DEF next
<1>1. step \in [S \X (1 .. N) -> S]
    BY <1>0
<1>2. PICK f : IsIteration(f, S, start, N, step)
    <2> HIDE DEF step, N
    <2> QED
        BY <1>0, <1>1, Iterates, Zenon
<1>3. \A n \in 1 .. N : f[n] = next(f[n - 1], n)
    <2> TAKE n \in 1 .. N
    <2> HIDE DEF step, N
    <2>0. f \in [0 .. N -> S] /\ f[n] = step[<<f[n - 1], n>>] /\ n - 1 \in 0 .. N
        BY <1>0, <1>2 DEF IsIteration
    <2>1. f[n - 1] \in S /\ f[n] = step[<<f[n - 1], n>>]
        BY <2>0
    <2> USE DEF step
    <2> QED
        BY <2>1
<1>4. IsTopicPlaces(f, start, candidates, limit, skip)
    <2>1. f = [n \in 0 .. N |-> f[n]] /\ f[0] = start
        BY <1>2 DEF IsIteration
    <2> HIDE DEF N
    <2>2. \A n \in 0 .. N : n = 0 \/ n \in 1 .. N
        BY <1>0
    <2>3. \A n \in 0 .. N : f[n] = IF n = 0 THEN start ELSE next(f[n - 1], n)
        BY <1>3, <2>1, <2>2
    <2> USE DEF N
    <2> QED
        BY <2>1, <2>3 DEF IsTopicPlaces, next
<1> DEFINE h == CHOOSE g : IsTopicPlaces(g, start, candidates, limit, skip)
<1>5. IsTopicPlaces(h, start, candidates, limit, skip)
    BY <1>4, Zenon
<1>6. AddTopics(start, candidates, limit, skip) = h[N]
    BY DEF AddTopics, IsTopicPlaces
<1> HIDE DEF h
<1>7. /\ h = [n \in 0 .. N |-> h[n]] /\ h[0] = start
      /\ \A n \in 1 .. N : h[n] = next(h[n - 1], n)
    <2>1. h = [n \in 0 .. N |-> IF n = 0 THEN start ELSE next(h[n - 1], n)]
        BY <1>5 DEF IsTopicPlaces, next
    <2> HIDE DEF N
    <2>2. 0 \in 0 .. N /\ \A n \in 1 .. N : n \in 0 .. N /\ n # 0
        BY <1>0
    <2>3. /\ h[0] = start
          /\ \A n \in 1 .. N : h[n] = next(h[n - 1], n)
        BY <2>1, <2>2
    <2>4. h = [n \in 0 .. N |-> h[n]]
        BY <2>1
    <2> QED
        BY <2>3, <2>4
<1> DEFINE P == {m \in 0 .. N : h[m] \in S}
<1>8. 0 \in P
    BY <1>0, <1>7
<1>9. ASSUME NEW n \in 1 .. N, n - 1 \in P PROVE n \in P
    <2>1. h[n - 1] \in S /\ n \in 0 .. N
        BY <1>0, <1>9
    <2>2. next(h[n - 1], n) \in S
        BY <1>0, <2>1
    <2> QED
        BY <1>7, <2>1, <2>2
<1>10. \A n \in 0 .. N : h[n] \in S
    <2> HIDE DEF P, N
    <2>1. \A n \in 0 .. N : n \in P
        BY <1>0, <1>8, <1>9, Reaches
    <2> QED
        BY <2>1 DEF P
<1>11. h \in [0 .. N -> S]
    BY <1>7, <1>10
<1> QED
    BY <1>6, <1>7, <1>11 DEF TopicPlaces, next

IsFamilyPlaces(g, start, candidates, limit) ==
    g = [n \in 0 .. Len(Families) |-> IF n = 0 THEN start ELSE AddFamily(g[n - 1], Families[n], candidates, limit)]
FamilyPlaces(f, S, start, candidates, limit, result) ==
    /\ f \in [0 .. Len(Families) -> S] /\ f[0] = start /\ result = f[Len(Families)]
    /\ \A n \in 1 .. Len(Families) : f[n] = AddFamily(f[n - 1], Families[n], candidates, limit)

\* The places given to the families.
LEMMA FamilyPlacesIs ==
    ASSUME NEW S, NEW start \in S, NEW candidates, NEW limit,
           Len(Families) \in Nat,
           \A x \in S, n \in 1 .. Len(Families) : AddFamily(x, Families[n], candidates, limit) \in S
    PROVE  \E f : FamilyPlaces(f, S, start, candidates, limit, AddFamilies(start, candidates, limit))
<1> DEFINE N == Len(Families)
           next(x, n) == AddFamily(x, Families[n], candidates, limit)
           step == [x \in S \X (1 .. N) |-> next(x[1], x[2])]
<1>0. N \in Nat /\ \A x \in S, n \in 1 .. N : next(x, n) \in S
    OBVIOUS
<1> HIDE DEF next
<1>1. step \in [S \X (1 .. N) -> S]
    BY <1>0
<1>2. PICK f : IsIteration(f, S, start, N, step)
    <2> HIDE DEF step, N
    <2> QED
        BY <1>0, <1>1, Iterates, Zenon
<1>3. \A n \in 1 .. N : f[n] = next(f[n - 1], n)
    <2> TAKE n \in 1 .. N
    <2> HIDE DEF step, N
    <2>0. f \in [0 .. N -> S] /\ f[n] = step[<<f[n - 1], n>>] /\ n - 1 \in 0 .. N
        BY <1>0, <1>2 DEF IsIteration
    <2>1. f[n - 1] \in S /\ f[n] = step[<<f[n - 1], n>>]
        BY <2>0
    <2> USE DEF step
    <2> QED
        BY <2>1
<1>4. IsFamilyPlaces(f, start, candidates, limit)
    <2>1. f = [n \in 0 .. N |-> f[n]] /\ f[0] = start
        BY <1>2 DEF IsIteration
    <2> HIDE DEF N
    <2>2. \A n \in 0 .. N : n = 0 \/ n \in 1 .. N
        BY <1>0
    <2>3. \A n \in 0 .. N : f[n] = IF n = 0 THEN start ELSE next(f[n - 1], n)
        BY <1>3, <2>1, <2>2
    <2> USE DEF N
    <2> QED
        BY <2>1, <2>3 DEF IsFamilyPlaces, next
<1> DEFINE h == CHOOSE g : IsFamilyPlaces(g, start, candidates, limit)
<1>5. IsFamilyPlaces(h, start, candidates, limit)
    BY <1>4, Zenon
<1>6. AddFamilies(start, candidates, limit) = h[N]
    BY DEF AddFamilies, IsFamilyPlaces
<1> HIDE DEF h
<1>7. /\ h = [n \in 0 .. N |-> h[n]] /\ h[0] = start
      /\ \A n \in 1 .. N : h[n] = next(h[n - 1], n)
    <2>1. h = [n \in 0 .. N |-> IF n = 0 THEN start ELSE next(h[n - 1], n)]
        BY <1>5 DEF IsFamilyPlaces, next
    <2> HIDE DEF N
    <2>2. 0 \in 0 .. N /\ \A n \in 1 .. N : n \in 0 .. N /\ n # 0
        BY <1>0
    <2>3. /\ h[0] = start
          /\ \A n \in 1 .. N : h[n] = next(h[n - 1], n)
        BY <2>1, <2>2
    <2>4. h = [n \in 0 .. N |-> h[n]]
        BY <2>1
    <2> QED
        BY <2>3, <2>4
<1> DEFINE P == {m \in 0 .. N : h[m] \in S}
<1>8. 0 \in P
    BY <1>0, <1>7
<1>9. ASSUME NEW n \in 1 .. N, n - 1 \in P PROVE n \in P
    <2>1. h[n - 1] \in S /\ n \in 0 .. N
        BY <1>0, <1>9
    <2>2. next(h[n - 1], n) \in S
        BY <1>0, <2>1
    <2> QED
        BY <1>7, <2>1, <2>2
<1>10. \A n \in 0 .. N : h[n] \in S
    <2> HIDE DEF P, N
    <2>1. \A n \in 0 .. N : n \in P
        BY <1>0, <1>8, <1>9, Reaches
    <2> QED
        BY <2>1 DEF P
<1>11. h \in [0 .. N -> S]
    BY <1>7, <1>10
<1> QED
    BY <1>6, <1>7, <1>11 DEF FamilyPlaces, next

IsRestPlaces(g, start, candidates, limit) ==
    g = [n \in 0 .. Len(candidates) |-> IF n = 0 THEN start ELSE AddNext(g[n - 1], candidates[n], limit)]
RestPlaces(f, S, start, candidates, limit, result) ==
    /\ f \in [0 .. Len(candidates) -> S] /\ f[0] = start /\ result = f[Len(candidates)]
    /\ \A n \in 1 .. Len(candidates) : f[n] = AddNext(f[n - 1], candidates[n], limit)

\* The places given to the rest.
LEMMA RestPlacesIs ==
    ASSUME NEW S, NEW start \in S, NEW candidates, NEW limit,
           Len(candidates) \in Nat,
           \A x \in S, n \in 1 .. Len(candidates) : AddNext(x, candidates[n], limit) \in S
    PROVE  \E f : RestPlaces(f, S, start, candidates, limit, AddRest(start, candidates, limit))
<1> DEFINE N == Len(candidates)
           next(x, n) == AddNext(x, candidates[n], limit)
           step == [x \in S \X (1 .. N) |-> next(x[1], x[2])]
<1>0. N \in Nat /\ \A x \in S, n \in 1 .. N : next(x, n) \in S
    OBVIOUS
<1> HIDE DEF next
<1>1. step \in [S \X (1 .. N) -> S]
    BY <1>0
<1>2. PICK f : IsIteration(f, S, start, N, step)
    <2> HIDE DEF step, N
    <2> QED
        BY <1>0, <1>1, Iterates, Zenon
<1>3. \A n \in 1 .. N : f[n] = next(f[n - 1], n)
    <2> TAKE n \in 1 .. N
    <2> HIDE DEF step, N
    <2>0. f \in [0 .. N -> S] /\ f[n] = step[<<f[n - 1], n>>] /\ n - 1 \in 0 .. N
        BY <1>0, <1>2 DEF IsIteration
    <2>1. f[n - 1] \in S /\ f[n] = step[<<f[n - 1], n>>]
        BY <2>0
    <2> USE DEF step
    <2> QED
        BY <2>1
<1>4. IsRestPlaces(f, start, candidates, limit)
    <2>1. f = [n \in 0 .. N |-> f[n]] /\ f[0] = start
        BY <1>2 DEF IsIteration
    <2> HIDE DEF N
    <2>2. \A n \in 0 .. N : n = 0 \/ n \in 1 .. N
        BY <1>0
    <2>3. \A n \in 0 .. N : f[n] = IF n = 0 THEN start ELSE next(f[n - 1], n)
        BY <1>3, <2>1, <2>2
    <2> USE DEF N
    <2> QED
        BY <2>1, <2>3 DEF IsRestPlaces, next
<1> DEFINE h == CHOOSE g : IsRestPlaces(g, start, candidates, limit)
<1>5. IsRestPlaces(h, start, candidates, limit)
    BY <1>4, Zenon
<1>6. AddRest(start, candidates, limit) = h[N]
    BY DEF AddRest, IsRestPlaces
<1> HIDE DEF h
<1>7. /\ h = [n \in 0 .. N |-> h[n]] /\ h[0] = start
      /\ \A n \in 1 .. N : h[n] = next(h[n - 1], n)
    <2>1. h = [n \in 0 .. N |-> IF n = 0 THEN start ELSE next(h[n - 1], n)]
        BY <1>5 DEF IsRestPlaces, next
    <2> HIDE DEF N
    <2>2. 0 \in 0 .. N /\ \A n \in 1 .. N : n \in 0 .. N /\ n # 0
        BY <1>0
    <2>3. /\ h[0] = start
          /\ \A n \in 1 .. N : h[n] = next(h[n - 1], n)
        BY <2>1, <2>2
    <2>4. h = [n \in 0 .. N |-> h[n]]
        BY <2>1
    <2> QED
        BY <2>3, <2>4
<1> DEFINE P == {m \in 0 .. N : h[m] \in S}
<1>8. 0 \in P
    BY <1>0, <1>7
<1>9. ASSUME NEW n \in 1 .. N, n - 1 \in P PROVE n \in P
    <2>1. h[n - 1] \in S /\ n \in 0 .. N
        BY <1>0, <1>9
    <2>2. next(h[n - 1], n) \in S
        BY <1>0, <2>1
    <2> QED
        BY <1>7, <2>1, <2>2
<1>10. \A n \in 0 .. N : h[n] \in S
    <2> HIDE DEF P, N
    <2>1. \A n \in 0 .. N : n \in P
        BY <1>0, <1>8, <1>9, Reaches
    <2> QED
        BY <2>1 DEF P
<1>11. h \in [0 .. N -> S]
    BY <1>7, <1>10
<1> QED
    BY <1>6, <1>7, <1>11 DEF RestPlaces, next

----------------------------------------------------------------------------
(* Each of them gives places.                                                *)

LEMMA FirstGivesPlace ==
    ASSUME NEW U, NEW a \in Seq(U), NEW from \in SUBSET U, NEW candidates \in Seq(from),
           NEW wanted, NEW limit \in Nat
    PROVE  /\ GivesPlace(a, AddFirst(a, candidates, wanted, limit), from, limit)
           /\ Len(a) < limit => \A n \in 1 .. Len(candidates) :
                candidates[n] \in wanted /\ CanSelect(a, candidates[n]) =>
                    \E i \in wanted : AddFirst(a, candidates, wanted, limit) = Append(a, i)
<1> DEFINE open == {n \in DOMAIN candidates : candidates[n] \in wanted /\ CanSelect(a, candidates[n])}
           first == CHOOSE n \in open : \A m \in open : n <= m
<1>1. AddFirst(a, candidates, wanted, limit) =
        IF open = {} \/ Len(a) >= limit THEN a ELSE Append(a, candidates[first])
    BY DEF AddFirst
<1>2. ASSUME open # {}
      PROVE  /\ candidates[first] \in from /\ candidates[first] \in wanted
             /\ CanSelect(a, candidates[first])
    <2>1. open \subseteq Nat
        OBVIOUS
    <2>2. \E n \in open : \A m \in open : n <= m
        <3> HIDE DEF open
        <3> QED
            BY <1>2, <2>1, Least
    <2>3. first \in open
        <3> HIDE DEF open
        <3> QED
            BY <2>2
    <2> HIDE DEF first
    <2> QED
        BY <2>3
<1>3. Len(a) \in Nat
    OBVIOUS
<1>4. \A n \in 1 .. Len(candidates) :
            candidates[n] \in wanted /\ CanSelect(a, candidates[n]) => n \in open
    OBVIOUS
<1> HIDE DEF open, first
<1>5. GivesPlace(a, AddFirst(a, candidates, wanted, limit), from, limit)
    BY <1>1, <1>2, <1>3 DEF GivesPlace
<1>6. Len(a) < limit => \A n \in 1 .. Len(candidates) :
                candidates[n] \in wanted /\ CanSelect(a, candidates[n]) =>
                    \E i \in wanted : AddFirst(a, candidates, wanted, limit) = Append(a, i)
    BY <1>1, <1>2, <1>3, <1>4
<1> QED
    BY <1>5, <1>6

LEMMA StepGivesPlace ==
    ASSUME NEW U, NEW a \in Seq(U), NEW from \in SUBSET U, NEW candidates \in Seq(from),
           NEW limit \in Nat
    PROVE  /\ \A t, skip : GivesPlace(a, AddTopic(a, t, candidates, limit, skip), from, limit)
           /\ \A f : GivesPlace(a, AddFamily(a, f, candidates, limit), from, limit)
           /\ \A n \in 1 .. Len(candidates) :
                GivesPlace(a, AddNext(a, candidates[n], limit), from, limit)
<1>1. ASSUME NEW t, NEW skip
      PROVE  GivesPlace(a, AddTopic(a, t, candidates, limit, skip), from, limit)
    <2> DEFINE wanted == {i \in ToSet(candidates) : t \in i.topics}
    <2>1. GivesPlace(a, AddFirst(a, candidates, wanted, limit), from, limit)
        BY FirstGivesPlace
    <2>2. AddTopic(a, t, candidates, limit, skip) \in {a, AddFirst(a, candidates, wanted, limit)}
        BY DEF AddTopic
    <2> QED
        BY <2>1, <2>2 DEF GivesPlace
<1>2. ASSUME NEW f PROVE GivesPlace(a, AddFamily(a, f, candidates, limit), from, limit)
    <2> DEFINE wanted == {i \in ToSet(candidates) : i.family = f}
    <2>1. GivesPlace(a, AddFirst(a, candidates, wanted, limit), from, limit)
        BY FirstGivesPlace
    <2>2. AddFamily(a, f, candidates, limit) \in {a, AddFirst(a, candidates, wanted, limit)}
        BY DEF AddFamily
    <2> QED
        BY <2>1, <2>2 DEF GivesPlace
<1>3. ASSUME NEW n \in 1 .. Len(candidates)
      PROVE  GivesPlace(a, AddNext(a, candidates[n], limit), from, limit)
    BY DEF GivesPlace, AddNext
<1> QED
    BY <1>1, <1>2, <1>3

LEMMA TopicPlacesGrow ==
    ASSUME NEW U, NEW start \in Seq(U), NEW from \in SUBSET U, NEW candidates \in Seq(from),
           NEW limit \in Nat, NEW skip
    PROVE  \E f : /\ TopicPlaces(f, Seq(U), start, candidates, limit, skip, AddTopics(start, candidates, limit, skip))
                 /\ \A n \in 0 .. Len(Topics) : Grows(start, f[n], from, limit)
<1> DEFINE N == Len(Topics)
<1>1. N \in Nat
    BY CapsAreNumbers
<1>2. ASSUME NEW x \in Seq(U), NEW n \in 1 .. N
      PROVE  AddTopic(x, Topics[n], candidates, limit, skip) \in Seq(U) /\ Grows(x, AddTopic(x, Topics[n], candidates, limit, skip), from, limit)
    <2>1. GivesPlace(x, AddTopic(x, Topics[n], candidates, limit, skip), from, limit)
        BY StepGivesPlace
    <2> HIDE DEF N
    <2> QED
        BY <2>1, PlaceGrows
<1>3. PICK f : TopicPlaces(f, Seq(U), start, candidates, limit, skip, AddTopics(start, candidates, limit, skip))
    BY <1>1, <1>2, TopicPlacesIs
<1> DEFINE P == {n \in 0 .. N : Grows(start, f[n], from, limit)}
<1>4. 0 \in P
    BY <1>1, <1>3, GrowsSame DEF TopicPlaces
<1>5. ASSUME NEW n \in 1 .. N, n - 1 \in P PROVE n \in P
    <2>1. n - 1 \in 0 .. N /\ n \in 0 .. N
        BY <1>1
    <2>2. f[n - 1] \in Seq(U) /\ f[n] \in Seq(U) /\ f[n] = AddTopic(f[n - 1], Topics[n], candidates, limit, skip)
        BY <1>3, <2>1 DEF TopicPlaces
    <2>3. Grows(f[n - 1], f[n], from, limit)
        BY <1>2, <2>2
    <2>4. Grows(start, f[n - 1], from, limit)
        BY <1>5
    <2>5. Grows(start, f[n], from, limit)
        BY <2>2, <2>3, <2>4, GrowsOn
    <2> QED
        BY <2>1, <2>5
<1>6. \A n \in 0 .. N : n \in P
    <2> HIDE DEF P, N
    <2> QED
        BY <1>1, <1>4, <1>5, Reaches
<1> QED
    BY <1>3, <1>6

LEMMA FamilyPlacesGrow ==
    ASSUME NEW U, NEW start \in Seq(U), NEW from \in SUBSET U, NEW candidates \in Seq(from),
           NEW limit \in Nat
    PROVE  \E f : /\ FamilyPlaces(f, Seq(U), start, candidates, limit, AddFamilies(start, candidates, limit))
                 /\ \A n \in 0 .. Len(Families) : Grows(start, f[n], from, limit)
<1> DEFINE N == Len(Families)
<1>1. N \in Nat
    BY CapsAreNumbers
<1>2. ASSUME NEW x \in Seq(U), NEW n \in 1 .. N
      PROVE  AddFamily(x, Families[n], candidates, limit) \in Seq(U) /\ Grows(x, AddFamily(x, Families[n], candidates, limit), from, limit)
    <2>1. GivesPlace(x, AddFamily(x, Families[n], candidates, limit), from, limit)
        BY StepGivesPlace
    <2> HIDE DEF N
    <2> QED
        BY <2>1, PlaceGrows
<1>3. PICK f : FamilyPlaces(f, Seq(U), start, candidates, limit, AddFamilies(start, candidates, limit))
    BY <1>1, <1>2, FamilyPlacesIs
<1> DEFINE P == {n \in 0 .. N : Grows(start, f[n], from, limit)}
<1>4. 0 \in P
    BY <1>1, <1>3, GrowsSame DEF FamilyPlaces
<1>5. ASSUME NEW n \in 1 .. N, n - 1 \in P PROVE n \in P
    <2>1. n - 1 \in 0 .. N /\ n \in 0 .. N
        BY <1>1
    <2>2. f[n - 1] \in Seq(U) /\ f[n] \in Seq(U) /\ f[n] = AddFamily(f[n - 1], Families[n], candidates, limit)
        BY <1>3, <2>1 DEF FamilyPlaces
    <2>3. Grows(f[n - 1], f[n], from, limit)
        BY <1>2, <2>2
    <2>4. Grows(start, f[n - 1], from, limit)
        BY <1>5
    <2>5. Grows(start, f[n], from, limit)
        BY <2>2, <2>3, <2>4, GrowsOn
    <2> QED
        BY <2>1, <2>5
<1>6. \A n \in 0 .. N : n \in P
    <2> HIDE DEF P, N
    <2> QED
        BY <1>1, <1>4, <1>5, Reaches
<1> QED
    BY <1>3, <1>6

LEMMA RestPlacesGrow ==
    ASSUME NEW U, NEW start \in Seq(U), NEW from \in SUBSET U, NEW candidates \in Seq(from),
           NEW limit \in Nat
    PROVE  \E f : /\ RestPlaces(f, Seq(U), start, candidates, limit, AddRest(start, candidates, limit))
                 /\ \A n \in 0 .. Len(candidates) : Grows(start, f[n], from, limit)
<1> DEFINE N == Len(candidates)
<1>1. N \in Nat
    BY CapsAreNumbers
<1>2. ASSUME NEW x \in Seq(U), NEW n \in 1 .. N
      PROVE  AddNext(x, candidates[n], limit) \in Seq(U) /\ Grows(x, AddNext(x, candidates[n], limit), from, limit)
    <2>1. GivesPlace(x, AddNext(x, candidates[n], limit), from, limit)
        BY StepGivesPlace
    <2> HIDE DEF N
    <2> QED
        BY <2>1, PlaceGrows
<1>3. PICK f : RestPlaces(f, Seq(U), start, candidates, limit, AddRest(start, candidates, limit))
    BY <1>1, <1>2, RestPlacesIs
<1> DEFINE P == {n \in 0 .. N : Grows(start, f[n], from, limit)}
<1>4. 0 \in P
    BY <1>1, <1>3, GrowsSame DEF RestPlaces
<1>5. ASSUME NEW n \in 1 .. N, n - 1 \in P PROVE n \in P
    <2>1. n - 1 \in 0 .. N /\ n \in 0 .. N
        BY <1>1
    <2>2. f[n - 1] \in Seq(U) /\ f[n] \in Seq(U) /\ f[n] = AddNext(f[n - 1], candidates[n], limit)
        BY <1>3, <2>1 DEF RestPlaces
    <2>3. Grows(f[n - 1], f[n], from, limit)
        BY <1>2, <2>2
    <2>4. Grows(start, f[n - 1], from, limit)
        BY <1>5
    <2>5. Grows(start, f[n], from, limit)
        BY <2>2, <2>3, <2>4, GrowsOn
    <2> QED
        BY <2>1, <2>5
<1>6. \A n \in 0 .. N : n \in P
    <2> HIDE DEF P, N
    <2> QED
        BY <1>1, <1>4, <1>5, Reaches
<1> QED
    BY <1>3, <1>6

----------------------------------------------------------------------------
(* What has been tried: a candidate without a place found a limit or a cap.  *)

Tried(b, i, limit) ==
    \/ i \in ToSet(b) \/ Len(b) >= limit \/ Len(b) >= Maximum
    \/ FamilyFull(b, i) \/ DomainFull(b, i)

LEMMA TriedStays ==
    ASSUME NEW U, NEW a \in Seq(U), NEW b \in Seq(U), NEW i \in U, i.family \in ToSet(Families),
           NEW limit \in Nat, Extends(a, b), Tried(a, i, limit)
    PROVE  Tried(b, i, limit)
<1>1. Len(a) \in Nat /\ Len(b) \in Nat /\ Len(a) <= Len(b) /\ Maximum \in Nat
    BY CapsAreNumbers DEF Extends
<1>2. /\ ToSet(a) \subseteq ToSet(b)
      /\ FamilyFull(a, i) => FamilyFull(b, i)
      /\ DomainFull(a, i) => DomainFull(b, i)
    BY ExtendsKeeps
<1> QED
    BY <1>1, <1>2 DEF Tried

LEMMA NextIsTried ==
    ASSUME NEW U, NEW a \in Seq(U), NEW i \in U, NEW limit \in Nat
    PROVE  Tried(AddNext(a, i, limit), i, limit)
<1>1. Len(a) \in Nat /\ Maximum \in Nat
    BY CapsAreNumbers
<1>2. CASE Len(a) < limit /\ CanSelect(a, i)
    <2>1. AddNext(a, i, limit) = Append(a, i)
        BY <1>2 DEF AddNext
    <2>2. Len(a) + 1 \in DOMAIN Append(a, i) /\ Append(a, i)[Len(a) + 1] = i
        BY <1>1
    <2>3. i \in ToSet(Append(a, i))
        BY <2>2 DEF ToSet, Lists!ToSet
    <2> QED
        BY <2>1, <2>3 DEF Tried
<1>3. CASE ~(Len(a) < limit /\ CanSelect(a, i))
    <2>1. AddNext(a, i, limit) = a
        BY <1>3 DEF AddNext
    <2> QED
        BY <1>1, <1>3, <2>1 DEF Tried, CanSelect
<1> QED
    BY <1>2, <1>3

LEMMA RestIsTried ==
    ASSUME NEW U, NEW start \in Seq(U), NEW from \in SUBSET U, NEW candidates \in Seq(from),
           NEW limit \in Nat, \A i \in from : i.family \in ToSet(Families)
    PROVE  \A n \in 1 .. Len(candidates) : Tried(AddRest(start, candidates, limit), candidates[n], limit)
<1> DEFINE N == Len(candidates)
<1>1. N \in Nat /\ \A n \in 1 .. N : candidates[n] \in from
    OBVIOUS
<1>2. PICK f : RestPlaces(f, Seq(U), start, candidates, limit, AddRest(start, candidates, limit))
    BY RestPlacesGrow
<1> DEFINE P == {n \in 0 .. N : \A m \in 1 .. n : Tried(f[n], candidates[m], limit)}
<1>3. 0 \in P
    BY <1>1
<1>4. ASSUME NEW n \in 1 .. N, n - 1 \in P PROVE n \in P
    <2>1. n - 1 \in 0 .. N /\ n \in 0 .. N
        BY <1>1
    <2>2. /\ f[n - 1] \in Seq(U) /\ f[n] \in Seq(U)
          /\ f[n] = AddNext(f[n - 1], candidates[n], limit)
        BY <1>2, <2>1 DEF RestPlaces
    <2>3. Extends(f[n - 1], f[n])
        <3>1. GivesPlace(f[n - 1], f[n], from, limit)
            BY <2>2, StepGivesPlace
        <3> QED
            BY <2>2, <3>1, PlaceGrows DEF Grows
    <2>4. Tried(f[n], candidates[n], limit)
        BY <1>1, <2>2, NextIsTried
    <2>5. ASSUME NEW m \in 1 .. n - 1 PROVE Tried(f[n], candidates[m], limit)
        <3>1. m \in 1 .. N
            BY <1>1
        <3>2. Tried(f[n - 1], candidates[m], limit) /\ candidates[m] \in from
            BY <1>1, <1>4, <3>1
        <3> QED
            BY <2>2, <2>3, <3>2, TriedStays
    <2>6. \A m \in 1 .. n : m \in 1 .. n - 1 \/ m = n
        OBVIOUS
    <2> QED
        BY <2>1, <2>4, <2>5, <2>6
<1>5. \A n \in 0 .. N : n \in P
    <2> HIDE DEF P, N
    <2> QED
        BY <1>1, <1>3, <1>4, Reaches
<1>6. N \in 0 .. N /\ AddRest(start, candidates, limit) = f[N]
    BY <1>1, <1>2 DEF RestPlaces
<1> HIDE DEF N
<1>7. \A m \in 1 .. N : Tried(f[N], candidates[m], limit)
    BY <1>5, <1>6
<1> QED
    BY <1>6, <1>7 DEF N

\* The n-th topic finds a queue shorter than n: no cap is full.
LEMMA TopicsAreCovered ==
    ASSUME NEW from, NEW candidates \in Seq(from), \A i \in from : i.family \in ToSet(Families),
           NEW n \in 1 .. Len(Topics), NEW m \in 1 .. Len(candidates),
           Topics[n] \in candidates[m].topics
    PROVE  TopicCovered(AddTopics(<<>>, candidates, Maximum, FALSE), Topics[n])
<1> DEFINE N == Len(Topics)
           S == Seq(from)
           About(k) == \E j \in 1 .. Len(candidates) : Topics[k] \in candidates[j].topics
<1>1. N \in Nat /\ Maximum \in Nat /\ N <= Maximum /\ <<>> \in S
      /\ \A j \in 1 .. Len(candidates) : candidates[j] \in from
    BY CapsAreNumbers
<1>2. PICK f : TopicPlaces(f, S, <<>>, candidates, Maximum, FALSE,
                           AddTopics(<<>>, candidates, Maximum, FALSE))
    BY <1>1, TopicPlacesGrow
<1> DEFINE P == {k \in 0 .. N : /\ Len(f[k]) <= k
                                /\ \A l \in 1 .. k : About(l) => TopicCovered(f[k], Topics[l])}
<1>3. 0 \in P
    BY <1>1, <1>2 DEF TopicPlaces
<1>4. ASSUME NEW k \in 1 .. N, k - 1 \in P PROVE k \in P
    <2> DEFINE a == f[k - 1]
               b == f[k]
               wanted == {i \in ToSet(candidates) : Topics[k] \in i.topics}
    <2>1. k - 1 \in 0 .. N /\ k \in 0 .. N
        BY <1>1
    <2>2. a \in S /\ b \in S /\ b = AddTopic(a, Topics[k], candidates, Maximum, FALSE)
        BY <1>2, <2>1 DEF TopicPlaces
    <2>3. GivesPlace(a, b, from, Maximum)
        BY <1>1, <2>2, StepGivesPlace
    <2>4. Len(a) \in Nat /\ Len(a) <= k - 1
        BY <1>4, <2>2
    <2>5. Len(b) <= k
        <3>1. \A i : Len(Append(a, i)) = Len(a) + 1
            BY <2>2
        <3> QED
            BY <2>3, <2>4, <3>1 DEF GivesPlace
    <2>6. Extends(a, b)
        <3> HIDE DEF a, b
        <3>1. a \in Seq(from) /\ from \in SUBSET from
            BY <2>2
        <3>2. Grows(a, b, from, Maximum)
            BY <1>1, <2>3, <3>1, PlaceGrows
        <3> QED
            BY <3>2 DEF Grows
    <2>7. ASSUME NEW l \in 1 .. k - 1, About(l) PROVE TopicCovered(b, Topics[l])
        <3>1. TopicCovered(a, Topics[l])
            BY <1>4, <2>7
        <3> QED
            BY <2>2, <2>6, <3>1, ExtendsKeeps
    <2>8. ASSUME About(k) PROVE TopicCovered(b, Topics[k])
        <3>1. PICK j \in 1 .. Len(candidates) : Topics[k] \in candidates[j].topics
            BY <2>8
        <3>2. candidates[j] \in ToSet(candidates) /\ candidates[j] \in wanted
            BY <3>1 DEF ToSet, Lists!ToSet
        <3>3. CASE candidates[j] \in ToSet(a)
            <4>1. ToSet(a) \subseteq ToSet(b)
                BY <2>2, <2>6, ExtendsKeeps
            <4> QED
                BY <3>1, <3>3, <4>1 DEF TopicCovered
        <3>4. CASE candidates[j] \notin ToSet(a)
            <4>1. Len(a) < N /\ Len(a) < Maximum
                BY <1>1, <2>4
            <4>2. CanSelect(a, candidates[j])
                BY <1>1, <2>2, <3>4, <4>1, ShortIsOpen
            <4>3. \E i \in wanted : AddFirst(a, candidates, wanted, Maximum) = Append(a, i)
                <5> HIDE DEF wanted, a
                <5> QED
                    BY <1>1, <2>2, <3>2, <4>1, <4>2, FirstGivesPlace DEF S
            <4>4. b = AddFirst(a, candidates, wanted, Maximum)
                BY <2>2 DEF AddTopic
            <4>5. PICK i \in wanted : b = Append(a, i)
                BY <4>3, <4>4
            <4>6. Len(a) + 1 \in DOMAIN Append(a, i) /\ Append(a, i)[Len(a) + 1] = i
                BY <2>2, <2>4
            <4>7. i \in ToSet(b) /\ Topics[k] \in i.topics
                BY <4>5, <4>6 DEF ToSet, Lists!ToSet
            <4> QED
                BY <4>7 DEF TopicCovered
        <3> QED
            BY <3>3, <3>4
    <2>9. \A l \in 1 .. k : l \in 1 .. k - 1 \/ l = k
        OBVIOUS
    <2> HIDE DEF a, b, About
    <2>10. \A l \in 1 .. k : About(l) => TopicCovered(b, Topics[l])
        BY <2>7, <2>8, <2>9
    <2> QED
        BY <2>1, <2>5, <2>10 DEF b
<1>5. \A k \in 0 .. N : k \in P
    <2> HIDE DEF P, N
    <2> QED
        BY <1>1, <1>3, <1>4, Reaches
<1>6. N \in 0 .. N /\ AddTopics(<<>>, candidates, Maximum, FALSE) = f[N]
    <2>1. AddTopics(<<>>, candidates, Maximum, FALSE) = f[N]
        BY <1>2 DEF TopicPlaces
    <2>2. N \in Nat
        BY <1>1
    <2> HIDE DEF N
    <2>3. N \in 0 .. N
        BY <2>2
    <2> QED
        BY <2>1, <2>3
<1>7. About(n)
    OBVIOUS
<1> HIDE DEF N, About
<1>8. \A l \in 1 .. N : About(l) => TopicCovered(f[N], Topics[l])
    BY <1>5, <1>6
<1> QED
    BY <1>6, <1>7, <1>8 DEF N

----------------------------------------------------------------------------
(* Triage.                                                                   *)

FitterThan(items) == [i \in items |-> {j \in items : Fitter(j, i)}]

LEMMA FitOrders ==
    ASSUME NEW items, IsPool(items)
    PROVE  Ordering(items, FitterThan(items))
<1>1. \A i \in items : i.id \in Nat /\ i.fit \in Nat
    BY DEF IsPool
<1>2. IsFiniteSet(items) /\ FitterThan(items) \in [items -> SUBSET items]
    BY DEF IsPool, FitterThan
<1>3. \A i \in items : i \notin FitterThan(items)[i]
    BY <1>1 DEF FitterThan, Fitter
<1>4. ASSUME NEW i \in items, NEW j \in items, j \in FitterThan(items)[i]
      PROVE  FitterThan(items)[j] \subseteq FitterThan(items)[i]
    <2>1. Fitter(j, i)
        BY <1>4 DEF FitterThan
    <2>2. \A k \in items : Fitter(k, j) => Fitter(k, i)
        BY <1>1, <2>1 DEF Fitter
    <2> QED
        BY <2>2 DEF FitterThan
<1>5. ASSUME NEW i \in items, NEW j \in items, i # j
      PROVE  i \in FitterThan(items)[j] \/ j \in FitterThan(items)[i]
    <2>1. i.id # j.id
        BY <1>5 DEF IsPool
    <2>2. Fitter(i, j) \/ Fitter(j, i)
        BY <1>1, <2>1 DEF Fitter
    <2> QED
        BY <2>2 DEF FitterThan
<1> QED
    BY <1>2, <1>3, <1>4, <1>5 DEF Ordering

LEMMA FittestFirst ==
    ASSUME NEW items, IsPool(items)
    PROVE  /\ Sorted(items, Fitter) \in Seq(items)
           /\ \A i \in items : \E n \in 1 .. Len(Sorted(items, Fitter)) : Sorted(items, Fitter)[n] = i
<1> DEFINE b == FitterThan(items)
<1>1. IsSorting(SortedBy(items, b), items, b)
    BY FitOrders, SortingIsAll
<1>2. \A i \in items : b[i] = {j \in items : Fitter(j, i)}
    BY DEF FitterThan
<1>3. Sorted(items, Fitter) = SortedBy(items, b)
    <2> HIDE DEF b
    <2> DEFINE p(n) == CHOOSE i \in items : Cardinality({j \in items : Fitter(j, i)}) = n - 1
               q(n) == CHOOSE i \in items : Cardinality(b[i]) = n - 1
    <2>1. \A n : p(n) = q(n)
        BY <1>2
    <2>2. Sorted(items, Fitter) = [n \in 1 .. Cardinality(items) |-> p(n)]
        BY DEF Sorted
    <2>3. SortedBy(items, b) = [n \in 1 .. Cardinality(items) |-> q(n)]
        BY DEF SortedBy
    <2> HIDE DEF p, q
    <2> QED
        BY <2>1, <2>2, <2>3
<1> QED
    BY <1>1, <1>3 DEF IsSorting

LEMMA PoolPart == ASSUME NEW items, IsPool(items), NEW part \in SUBSET items PROVE IsPool(part)
    BY FS_Subset DEF IsPool

LEMMA DiversifiedGrows ==
    ASSUME NEW U, NEW a \in Seq(U), NEW items \in SUBSET U, IsPool(items), NEW limit \in Nat, NEW skip
    PROVE  /\ SelectDiversified(a, items, limit, skip) \in Seq(U)
           /\ Grows(a, SelectDiversified(a, items, limit, skip), items, limit)
           /\ \A i \in items : Tried(SelectDiversified(a, items, limit, skip), i, limit)
<1> DEFINE candidates == Sorted(items, Fitter)
           b == AddTopics(a, candidates, limit, skip)
           c == AddFamilies(b, candidates, limit)
           d == AddRest(c, candidates, limit)
<1>1. /\ candidates \in Seq(items) /\ \A i \in items : i.family \in ToSet(Families)
      /\ \A i \in items : \E n \in 1 .. Len(candidates) : candidates[n] = i
    BY FittestFirst DEF IsPool
<1>2. SelectDiversified(a, items, limit, skip) = d
    BY DEF SelectDiversified
<1> HIDE DEF candidates
<1>3. b \in Seq(U) /\ Grows(a, b, items, limit)
    <2>1. PICK f : /\ TopicPlaces(f, Seq(U), a, candidates, limit, skip, b)
                   /\ \A n \in 0 .. Len(Topics) : Grows(a, f[n], items, limit)
        BY <1>1, TopicPlacesGrow
    <2>2. Len(Topics) \in 0 .. Len(Topics)
        BY CapsAreNumbers
    <2> QED
        BY <2>1, <2>2 DEF TopicPlaces
<1> HIDE DEF b
<1>4. c \in Seq(U) /\ Grows(b, c, items, limit)
    <2>1. PICK f : /\ FamilyPlaces(f, Seq(U), b, candidates, limit, c)
                   /\ \A n \in 0 .. Len(Families) : Grows(b, f[n], items, limit)
        BY <1>1, <1>3, FamilyPlacesGrow
    <2>2. Len(Families) \in 0 .. Len(Families)
        BY CapsAreNumbers
    <2> QED
        BY <2>1, <2>2 DEF FamilyPlaces
<1> HIDE DEF c
<1>5. d \in Seq(U) /\ Grows(c, d, items, limit)
    <2>1. PICK f : /\ RestPlaces(f, Seq(U), c, candidates, limit, d)
                   /\ \A n \in 0 .. Len(candidates) : Grows(c, f[n], items, limit)
        BY <1>1, <1>4, RestPlacesGrow
    <2>2. Len(candidates) \in 0 .. Len(candidates)
        BY <1>1
    <2> QED
        BY <2>1, <2>2 DEF RestPlaces
<1>6. \A n \in 1 .. Len(candidates) : Tried(d, candidates[n], limit)
    BY <1>1, <1>4, RestIsTried
<1>7. \A i \in items : Tried(d, i, limit)
    BY <1>1, <1>6
<1> HIDE DEF d
<1>8. Grows(a, c, items, limit)
    BY <1>3, <1>4, GrowsOn
<1>9. Grows(a, d, items, limit)
    BY <1>4, <1>5, <1>8, GrowsOn
<1> QED
    BY <1>2, <1>5, <1>7, <1>9

FairQueue(items, q) ==
    /\ \A t \in ToSet(Topics), i \in items : IsNormal(i) /\ t \in i.topics => TopicCovered(q, t)
    /\ \A i \in items \ ToSet(q) :
          IsNormal(i) => FamilyFull(q, i) \/ DomainFull(q, i) \/ Len(q) = Maximum
    /\ \A i \in items \ ToSet(q), j \in ToSet(q) :
          IsNear(i) /\ i.core /\ IsNear(j) /\ ~j.core => FamilyFull(q, i) \/ DomainFull(q, i)

LEMMA NormalQueueIsFair ==
    ASSUME NEW items, IsPool(items)
    PROVE  LET normals == {i \in items : IsNormal(i)}
               q == NormalQueue(items)
           IN  /\ q \in Seq(items) /\ Len(q) <= Maximum /\ ToSet(q) \subseteq normals
               /\ \A i \in normals : Tried(q, i, Maximum)
               /\ \A t \in ToSet(Topics), i \in normals : t \in i.topics => TopicCovered(q, t)
<1> DEFINE normals == {i \in items : IsNormal(i)}
           q == NormalQueue(items)
           candidates == Sorted(normals, Fitter)
           b == AddTopics(<<>>, candidates, Maximum, FALSE)
           c == AddFamilies(b, candidates, Maximum)
           d == AddRest(c, candidates, Maximum)
<1>1. normals \in SUBSET items /\ IsPool(normals) /\ <<>> \in Seq(items) /\ Maximum \in Nat
    BY PoolPart, CapsAreNumbers
<1>2. q = SelectDiversified(<<>>, normals, Maximum, FALSE) /\ q = d
    BY DEF NormalQueue, SelectDiversified
<1>3. /\ q \in Seq(items) /\ Grows(<<>>, q, normals, Maximum)
      /\ \A i \in normals : Tried(q, i, Maximum)
    <2> HIDE DEF normals, q
    <2> QED
        BY <1>1, <1>2, DiversifiedGrows
<1>4. Len(q) <= Maximum /\ ToSet(q) \subseteq normals
    <2>1. Len(q) \in Nat /\ DOMAIN q = 1 .. Len(q) /\ Len(<<>>) = 0
        BY <1>3
    <2>2. Len(q) <= Maximum /\ \A n \in 1 .. Len(q) : q[n] \in normals
        <3> HIDE DEF normals, q
        <3> QED
            BY <1>1, <1>3, <2>1 DEF Grows
    <2> QED
        BY <2>1, <2>2 DEF ToSet, Lists!ToSet
<1>5. /\ candidates \in Seq(normals) /\ \A i \in normals : i.family \in ToSet(Families)
      /\ \A i \in normals : \E n \in 1 .. Len(candidates) : candidates[n] = i
    <2> HIDE DEF normals
    <2> QED
        BY <1>1, FittestFirst DEF IsPool
<1> HIDE DEF candidates, normals
<1>6. \A t \in ToSet(Topics), i \in normals : t \in i.topics => TopicCovered(b, t)
    <2> TAKE t \in ToSet(Topics), i \in normals
    <2> HAVE t \in i.topics
    <2>1. PICK n \in 1 .. Len(Topics) : Topics[n] = t
        BY TriageAssumption DEF ToSet, Lists!ToSet
    <2>2. PICK m \in 1 .. Len(candidates) : candidates[m] = i
        BY <1>5
    <2> QED
        BY <1>5, <2>1, <2>2, TopicsAreCovered
<1>7. b \in Seq(items)
    <2>1. PICK f : TopicPlaces(f, Seq(items), <<>>, candidates, Maximum, FALSE, b)
        BY <1>1, <1>5, TopicPlacesGrow
    <2>2. Len(Topics) \in 0 .. Len(Topics)
        BY CapsAreNumbers
    <2> QED
        BY <2>1, <2>2 DEF TopicPlaces
<1> HIDE DEF b
<1>8. c \in Seq(items) /\ Extends(b, c)
    <2>1. PICK f : /\ FamilyPlaces(f, Seq(items), b, candidates, Maximum, c)
                   /\ \A n \in 0 .. Len(Families) : Grows(b, f[n], normals, Maximum)
        BY <1>1, <1>5, <1>7, FamilyPlacesGrow
    <2>2. Len(Families) \in 0 .. Len(Families)
        BY CapsAreNumbers
    <2> QED
        BY <2>1, <2>2 DEF FamilyPlaces, Grows
<1> HIDE DEF c
<1>9. d \in Seq(items) /\ Extends(c, d)
    <2>1. PICK f : /\ RestPlaces(f, Seq(items), c, candidates, Maximum, d)
                   /\ \A n \in 0 .. Len(candidates) : Grows(c, f[n], normals, Maximum)
        BY <1>1, <1>5, <1>8, RestPlacesGrow
    <2>2. Len(candidates) \in 0 .. Len(candidates)
        BY <1>5
    <2> QED
        BY <2>1, <2>2 DEF RestPlaces, Grows
<1> HIDE DEF d
<1>10. \A t : TopicCovered(b, t) => TopicCovered(d, t)
    BY <1>7, <1>8, <1>9, ExtendsKeeps
<1>11. \A t \in ToSet(Topics), i \in normals : t \in i.topics => TopicCovered(q, t)
    BY <1>2, <1>6, <1>10
<1> HIDE DEF q
<1> QED
    BY <1>3, <1>4, <1>11 DEF normals, q

\* The near matches: core ones are tried before an adjacent one has a place.
LEMMA NearQueueIsFair ==
    ASSUME NEW items, IsPool(items), NEW a \in Seq(items), NEW limit \in Nat,
           \A i \in ToSet(a) : ~IsNear(i), limit <= Maximum
    PROVE  LET near == {i \in items : IsNear(i)}
               b == SelectDiversified(a, {i \in near : i.core}, limit, TRUE)
               c == SelectDiversified(b, {i \in near : ~i.core}, limit, TRUE)
           IN  /\ c \in Seq(items) /\ Extends(a, c) /\ (Len(a) <= Maximum => Len(c) <= Maximum)
               /\ \A i \in near \ ToSet(c), j \in ToSet(c) :
                     i.core /\ IsNear(j) /\ ~j.core => FamilyFull(c, i) \/ DomainFull(c, i)
<1> DEFINE near == {i \in items : IsNear(i)}
           core == {i \in near : i.core}
           rest == {i \in near : ~i.core}
           b == SelectDiversified(a, core, limit, TRUE)
           c == SelectDiversified(b, rest, limit, TRUE)
<1>1. core \in SUBSET items /\ rest \in SUBSET items /\ IsPool(core) /\ IsPool(rest)
    <2>1. core \in SUBSET items /\ rest \in SUBSET items
        OBVIOUS
    <2> HIDE DEF core, rest
    <2> QED
        BY <2>1, PoolPart
<1>2. b \in Seq(items) /\ Grows(a, b, core, limit) /\ \A i \in core : Tried(b, i, limit)
    <2> HIDE DEF core
    <2> QED
        BY <1>1, DiversifiedGrows
<1>3. c \in Seq(items) /\ Grows(b, c, rest, limit)
    <2> HIDE DEF rest, b
    <2> QED
        BY <1>1, <1>2, DiversifiedGrows
<1>4. /\ \A i \in items : i \in near <=> IsNear(i)
      /\ \A i \in core : i \in near /\ i.core
      /\ \A i \in near : i.core => i \in core
    OBVIOUS
<1>5. /\ Len(a) \in Nat /\ Len(b) \in Nat /\ Len(c) \in Nat /\ Maximum \in Nat
      /\ DOMAIN a = 1 .. Len(a) /\ DOMAIN b = 1 .. Len(b) /\ DOMAIN c = 1 .. Len(c)
    <2> HIDE DEF b, c
    <2> QED
        BY <1>2, <1>3, CapsAreNumbers
<1> HIDE DEF near, core, rest, b, c
<1>6. Extends(a, c) /\ Extends(b, c) /\ (Len(a) <= Maximum => Len(c) <= Maximum)
    BY <1>2, <1>3, <1>5 DEF Grows, Extends
<1>7. ASSUME NEW i \in near \ ToSet(c), NEW j \in ToSet(c), i.core, IsNear(j), ~j.core
      PROVE  FamilyFull(c, i) \/ DomainFull(c, i)
    <2>1. PICK n \in 1 .. Len(c) : c[n] = j
        BY <1>5 DEF ToSet, Lists!ToSet
    <2>2. n > Len(b)
        <3> SUFFICES ASSUME n <= Len(b) PROVE FALSE
            BY <1>5
        <3>1. n \in 1 .. Len(b) /\ b[n] = j
            BY <1>3, <1>5, <2>1 DEF Grows, Extends
        <3>2. CASE n <= Len(a)
            <4>1. n \in 1 .. Len(a) /\ a[n] = j
                BY <1>2, <1>5, <3>1, <3>2 DEF Grows, Extends
            <4>2. j \in ToSet(a)
                BY <1>5, <4>1 DEF ToSet, Lists!ToSet
            <4> QED
                BY <1>7, <4>2
        <3>3. CASE n > Len(a)
            <4>1. j \in core
                BY <1>2, <3>1, <3>3 DEF Grows
            <4> QED
                BY <1>4, <1>7, <4>1
        <3> QED
            BY <1>5, <3>2, <3>3
    <2>3. Len(b) < limit
        <3> SUFFICES ASSUME Len(b) >= limit PROVE FALSE
            BY <1>5
        <3>1. c = b
            BY <1>3 DEF Grows
        <3> QED
            BY <1>5, <2>1, <2>2, <3>1
    <2>4. i \in core /\ i \in items /\ i.family \in ToSet(Families)
        BY <1>1, <1>4, <1>7 DEF IsPool
    <2>5. Tried(b, i, limit) /\ i \notin ToSet(b)
        BY <1>2, <1>3, <1>6, <1>7, <2>4, ExtendsKeeps
    <2>6. FamilyFull(b, i) \/ DomainFull(b, i)
        BY <1>5, <2>3, <2>5 DEF Tried
    <2> QED
        BY <1>2, <1>3, <1>6, <2>4, <2>6, ExtendsKeeps
<1> QED
    BY <1>3, <1>6, <1>7 DEF near, core, rest, b, c

LEMMA TriageOfPoolIsFair ==
    ASSUME NEW items, IsPool(items)
    PROVE  Triage(items) \in Seq(items) /\ FairQueue(items, Triage(items))
<1> DEFINE normals == {i \in items : IsNormal(i)}
           near == {i \in items : IsNear(i)}
           a == NormalQueue(items)
           limit == NearLimit(a)
           b == SelectDiversified(a, {i \in near : i.core}, limit, TRUE)
           c == SelectDiversified(b, {i \in near : ~i.core}, limit, TRUE)
           q == Triage(items)
<1>1. q = IF limit = Len(a) THEN a ELSE c
    BY DEF Triage
<1>2. /\ a \in Seq(items) /\ Len(a) <= Maximum /\ ToSet(a) \subseteq normals
      /\ \A i \in normals : Tried(a, i, Maximum)
      /\ \A t \in ToSet(Topics), i \in normals : t \in i.topics => TopicCovered(a, t)
    BY NormalQueueIsFair
<1>3. /\ Maximum \in Nat /\ NearAllowance \in Nat /\ MinimumFit \in Nat
      /\ \A i \in items : i.fit \in Nat /\ i.family \in ToSet(Families)
    <2>1. \A i \in items : i.fit \in 0 .. 100 /\ i.family \in ToSet(Families)
        BY DEF IsPool
    <2>2. \A i \in items : i.fit \in Nat
        BY <2>1
    <2> QED
        BY <2>1, <2>2, CapsAreNumbers
<1>4. \A i \in items : IsNormal(i) => ~IsNear(i)
    BY <1>3 DEF IsNormal, IsNear
<1>5. \A i \in ToSet(a) : ~IsNear(i)
    BY <1>2, <1>4
<1> HIDE DEF a
<1>6. limit \in Nat /\ Len(a) \in Nat /\ limit <= Maximum
    BY <1>2, <1>3 DEF NearLimit, Larger, Smaller
<1> HIDE DEF limit
<1>7. /\ c \in Seq(items) /\ Extends(a, c) /\ Len(c) <= Maximum
      /\ \A i \in near \ ToSet(c), j \in ToSet(c) :
            i.core /\ IsNear(j) /\ ~j.core => FamilyFull(c, i) \/ DomainFull(c, i)
    BY <1>2, <1>5, <1>6, NearQueueIsFair
<1> HIDE DEF b, c, q
<1>8. /\ q \in Seq(items) /\ Extends(a, q) /\ Len(q) <= Maximum
      /\ \A i \in near \ ToSet(q), j \in ToSet(q) :
            i.core /\ IsNear(j) /\ ~j.core => FamilyFull(q, i) \/ DomainFull(q, i)
    <2>1. CASE limit = Len(a)
        <3>1. q = a /\ Extends(a, a)
            BY <1>1, <2>1 DEF Extends
        <3> QED
            BY <1>2, <1>5, <3>1
    <2>2. CASE limit # Len(a)
        BY <1>1, <1>7, <2>2
    <2> QED
        BY <2>1, <2>2
<1>9. Len(q) \in Nat
    BY <1>8
<1>10. \A t \in ToSet(Topics), i \in items : IsNormal(i) /\ t \in i.topics => TopicCovered(q, t)
    BY <1>2, <1>8, ExtendsKeeps
<1>11. ASSUME NEW i \in items \ ToSet(q), IsNormal(i)
       PROVE  FamilyFull(q, i) \/ DomainFull(q, i) \/ Len(q) = Maximum
    <2>1. Tried(a, i, Maximum)
        BY <1>2, <1>11
    <2>2. Tried(q, i, Maximum)
        BY <1>2, <1>3, <1>8, <2>1, TriedStays
    <2> QED
        BY <1>3, <1>8, <1>9, <1>11, <2>2 DEF Tried
<1>12. ASSUME NEW i \in items \ ToSet(q), NEW j \in ToSet(q), IsNear(i), i.core, IsNear(j), ~j.core
       PROVE  FamilyFull(q, i) \/ DomainFull(q, i)
    BY <1>8, <1>12
<1> QED
    BY <1>8, <1>10, <1>11, <1>12 DEF FairQueue, q

\* The research items are a pool until they are triaged.
TriageInv ==
    /\ at \in {"discovered", "normalized", "triaged"} => IsPool(research)
    /\ at = "triaged" => queue = Triage(research)

LEMMA TriageInvStep == TriageInv /\ [SelectionNext]_selectionVars => TriageInv'
<1> SUFFICES ASSUME TriageInv, [SelectionNext]_selectionVars PROVE TriageInv'
    OBVIOUS
<1>1. CASE NormalizeItems
    <2>1. IsPool(research) /\ research' = BoundPool(research) /\ at' = "normalized"
        BY <1>1 DEF NormalizeItems, TriageInv
    <2>2. BoundPool(research) \subseteq research
        BY DEF BoundPool, Top
    <2>3. IsPool(research')
        BY <2>1, <2>2, PoolPart
    <2> QED
        BY <2>1, <2>3 DEF TriageInv
<1>2. CASE Prefilter
    BY <1>2 DEF Prefilter, TriageInv
<1>3. CASE \/ Score \/ Shortlist
           \/ \E scored \in SUBSET ToSet(queue) : Assess(scored)
           \/ \E valid \in SUBSET ToSet(listed) : Compose(valid)
    BY <1>3 DEF Score, Shortlist, Assess, Compose, TriageInv
<1>4. CASE UNCHANGED selectionVars
    BY <1>4 DEF selectionVars, TriageInv
<1> QED
    BY <1>1, <1>2, <1>3, <1>4 DEF SelectionNext

(* TriageIsFair: for any pool, any topics and families and any limits that   *)
(* leave every topic a place, triageResearch represents every topic that has *)
(* a normal candidate, leaves a normal candidate out only behind a full cap, *)
(* and prefers a core near match to an adjacent one.                         *)
THEOREM SelectionTriageIsFair == SelectionSpec => []TriageIsFair
<1>1. SelectionInit => TriageInv
    BY DEF SelectionInit, IsDay, TriageInv
<1>2. TriageInv => TriageIsFair
    <2> SUFFICES ASSUME TriageInv, at = "triaged" PROVE TriageIsFair
        BY DEF TriageIsFair
    <2>1. FairQueue(research, queue)
        BY TriageOfPoolIsFair DEF TriageInv
    <2> QED
        BY <2>1 DEF TriageIsFair, FairQueue
<1> QED
    BY <1>1, <1>2, TriageInvStep, PTL DEF SelectionSpec

----------------------------------------------------------------------------
(* The ranking of the shortlist.                                             *)

Ranked(S) ==
    /\ IsFiniteSet(S)
    /\ \A i \in S : i.id \in Nat /\ i.score \in Int
    /\ \A i, j \in S : i.id = j.id => i = j
BetterThan(S) == [i \in S |-> {j \in S : Better(j, i)}]

LEMMA RankedPart == ASSUME NEW S, Ranked(S), NEW T \in SUBSET S PROVE Ranked(T)
    BY FS_Subset DEF Ranked

LEMMA BetterOrders == ASSUME NEW S, Ranked(S) PROVE Ordering(S, BetterThan(S))
<1>1. \A i \in S : i.id \in Nat /\ i.score \in Int
    BY DEF Ranked
<1>2. IsFiniteSet(S) /\ BetterThan(S) \in [S -> SUBSET S]
    BY DEF Ranked, BetterThan
<1>3. \A i \in S : i \notin BetterThan(S)[i]
    BY <1>1 DEF BetterThan, Better
<1>4. ASSUME NEW i \in S, NEW j \in S, j \in BetterThan(S)[i]
      PROVE  BetterThan(S)[j] \subseteq BetterThan(S)[i]
    <2>1. Better(j, i)
        BY <1>4 DEF BetterThan
    <2>2. \A k \in S : Better(k, j) => Better(k, i)
        BY <1>1, <2>1 DEF Better
    <2> QED
        BY <2>2 DEF BetterThan
<1>5. ASSUME NEW i \in S, NEW j \in S, i # j
      PROVE  i \in BetterThan(S)[j] \/ j \in BetterThan(S)[i]
    <2>1. i.id # j.id
        BY <1>5 DEF Ranked
    <2>2. Better(i, j) \/ Better(j, i)
        BY <1>1, <2>1 DEF Better
    <2> QED
        BY <2>2 DEF BetterThan
<1> QED
    BY <1>2, <1>3, <1>4, <1>5 DEF Ordering

OnceEach(s) == \A m, n \in 1 .. Len(s) : s[m] = s[n] => m = n

LEMMA BestFirst ==
    ASSUME NEW S, Ranked(S)
    PROVE  /\ Sorted(S, Better) \in Seq(S) /\ Len(Sorted(S, Better)) = Cardinality(S)
           /\ ToSet(Sorted(S, Better)) = S /\ OnceEach(Sorted(S, Better))
<1> DEFINE b == BetterThan(S)
           s == Sorted(S, Better)
<1>1. IsSorting(SortedBy(S, b), S, b) /\ Ordering(S, b)
    BY BetterOrders, SortingIsAll
<1>2. \A i \in S : b[i] = {j \in S : Better(j, i)}
    BY DEF BetterThan
<1>3. s = SortedBy(S, b)
    <2> HIDE DEF b
    <2> DEFINE p(n) == CHOOSE i \in S : Cardinality({j \in S : Better(j, i)}) = n - 1
               q(n) == CHOOSE i \in S : Cardinality(b[i]) = n - 1
    <2>1. \A n : p(n) = q(n)
        BY <1>2
    <2>2. s = [n \in 1 .. Cardinality(S) |-> p(n)]
        BY DEF Sorted
    <2>3. SortedBy(S, b) = [n \in 1 .. Cardinality(S) |-> q(n)]
        BY DEF SortedBy
    <2> HIDE DEF p, q, s
    <2> QED
        BY <2>1, <2>2, <2>3
<1> HIDE DEF s, b
<1>4. /\ s \in Seq(S) /\ Len(s) = Cardinality(S)
      /\ \A i \in S : \E n \in 1 .. Len(s) : s[n] = i
      /\ \A m, n \in 1 .. Len(s) : m < n => s[m] \in b[s[n]]
    BY <1>1, <1>3 DEF IsSorting
<1>5. ToSet(s) = S
    BY <1>4 DEF ToSet, Lists!ToSet
<1>6. OnceEach(s)
    <2> SUFFICES ASSUME NEW m \in 1 .. Len(s), NEW n \in 1 .. Len(s), s[m] = s[n], m # n
                 PROVE  FALSE
        BY DEF OnceEach
    <2>1. m < n \/ n < m
        OBVIOUS
    <2>2. s[m] \in b[s[m]] /\ s[m] \in S
        BY <1>4, <2>1
    <2> QED
        BY <1>1, <2>2 DEF Ordering
<1> QED
    BY <1>4, <1>5, <1>6 DEF s

LEMMA TopSize ==
    ASSUME NEW S, Ranked(S), NEW n \in Nat
    PROVE  /\ Top(S, n, Better) \subseteq S /\ IsFiniteSet(Top(S, n, Better))
           /\ Cardinality(Top(S, n, Better)) = Smaller(n, Cardinality(S))
<1> DEFINE b == BetterThan(S)
           N == Cardinality(S)
           K == Smaller(n, N)
           place(i) == Cardinality(b[i]) + 1
           T == Top(S, n, Better)
<1>1. Ordering(S, b) /\ Rankings(S, b) /\ IsFiniteSet(S)
    BY BetterOrders, RankIsPlace DEF Ranked
<1>2. \A i \in S : b[i] = {j \in S : Better(j, i)}
    BY DEF BetterThan
<1>3. T = {i \in S : Cardinality(b[i]) < n}
    <2> HIDE DEF b
    <2> QED
        BY <1>2 DEF Top
<1>4. T \subseteq S /\ IsFiniteSet(T)
    <2>1. T \subseteq S
        BY <1>3
    <2> HIDE DEF T
    <2> QED
        BY <1>1, <2>1, FS_Subset
<1>5. N \in Nat /\ K \in Nat /\ K <= N /\ K <= n /\ (K = N \/ K = n)
    <2>1. N \in Nat
        BY <1>1, FS_CardinalityType
    <2> HIDE DEF N
    <2> QED
        BY <2>1 DEF Smaller
<1>6. \A i \in S : Cardinality(b[i]) \in Nat /\ place(i) \in 1 .. N
    <2>1. \A i \in S : b[i] \subseteq S
        BY <1>2
    <2> HIDE DEF b
    <2>2. \A i \in S : Cardinality(b[i]) \in Nat
        BY <1>1, <2>1, FS_Subset, FS_CardinalityType
    <2> QED
        BY <1>1, <2>2 DEF Rankings
<1> HIDE DEF b, N, K, T
<1>7. \A i \in T : place(i) \in 1 .. K
    <2> TAKE i \in T
    <2>1. i \in S /\ Cardinality(b[i]) < n
        BY <1>3
    <2>2. Cardinality(b[i]) \in Nat /\ place(i) \in 1 .. N
        BY <1>6, <2>1
    <2> DEFINE c == Cardinality(b[i])
    <2> HIDE DEF c
    <2>3. c \in Nat /\ c < n /\ c + 1 \in 1 .. N
        BY <2>1, <2>2 DEF c
    <2>4. c + 1 \in 1 .. K
        BY <1>5, <2>3
    <2> QED
        BY <2>4 DEF c
<1>8. \A k \in 1 .. K : \E i \in T : place(i) = k
    <2> TAKE k \in 1 .. K
    <2>1. k \in 1 .. N /\ k <= n
        BY <1>5
    <2>2. PICK i \in S : place(i) = k
        BY <1>1, <2>1 DEF Rankings, N
    <2>3. Cardinality(b[i]) \in Nat
        BY <1>6
    <2>4. Cardinality(b[i]) < n
        BY <2>1, <2>2, <2>3
    <2> QED
        BY <1>3, <2>2, <2>4
<1>9. \A i, j \in T : place(i) = place(j) => i = j
    <2> TAKE i, j \in T
    <2>1. Cardinality(b[i]) \in Nat /\ Cardinality(b[j]) \in Nat /\ i \in S /\ j \in S
        BY <1>4, <1>6
    <2> QED
        BY <1>1, <2>1 DEF Rankings
<1> DEFINE f == [i \in T |-> place(i)]
<1> HIDE DEF place
<1>10. f \in Bijection(T, 1 .. K)
    <2>1. f \in [T -> 1 .. K]
        BY <1>7
    <2>2. \A i, j \in T : f[i] = f[j] => i = j
        BY <1>9
    <2>3. \A k \in 1 .. K : \E i \in T : f[i] = k
        BY <1>8
    <2> HIDE DEF f
    <2> QED
        BY <2>1, <2>2, <2>3 DEF Bijection, Injection, Surjection, IsInjective
<1>11. Cardinality(1 .. K) = Cardinality(T)
    <2> HIDE DEF f
    <2> QED
        BY <1>4, <1>10, FS_Bijection DEF ExistsBijection
<1>12. Cardinality(1 .. K) = K
    BY <1>5, FS_Interval
<1> QED
    BY <1>4, <1>11, <1>12 DEF T, K, N

LEMMA DiverseSize ==
    ASSUME NEW S, Ranked(S), NEW n \in Nat
    PROVE  /\ DiverseResearch(S, n) \subseteq S
           /\ Cardinality(DiverseResearch(S, n)) = Smaller(n, Cardinality(S))
<1> DEFINE best(t) == Top({i \in S : i.topic = t}, 1, Better)
           U == UNION {best(t) : t \in ToSet(Topics)}
           first == Top(U, n, Better)
           rest == Top(S \ first, n - Cardinality(first), Better)
<1>1. DiverseResearch(S, n) = first \cup rest
    BY DEF DiverseResearch
<1>2. U \subseteq S
    BY DEF Top
<1> HIDE DEF U
<1>3. IsFiniteSet(S) /\ Ranked(U) /\ Cardinality(U) <= Cardinality(S)
    BY <1>2, RankedPart, FS_Subset DEF Ranked
<1>4. /\ first \subseteq U /\ IsFiniteSet(first)
      /\ Cardinality(first) = Smaller(n, Cardinality(U))
    BY <1>3, TopSize
<1> HIDE DEF first
<1>5. Cardinality(U) \in Nat /\ Cardinality(S) \in Nat /\ Cardinality(first) \in Nat
    BY <1>3, <1>4, FS_CardinalityType DEF Ranked
<1>6. Ranked(S \ first) /\ Cardinality(S \ first) = Cardinality(S) - Cardinality(first)
    <2>1. S \ first \in SUBSET S /\ S \cap first = first
        BY <1>2, <1>4
    <2> QED
        BY <1>3, <2>1, RankedPart, FS_Difference
<1> DEFINE c == Cardinality(first)
           s == Cardinality(S)
           u == Cardinality(U)
<1>7. c \in Nat /\ s \in Nat /\ u \in Nat /\ u <= s /\ c = Smaller(n, u)
    BY <1>3, <1>4, <1>5
<1>8. n - c \in Nat /\ s - c \in Nat
    <2> HIDE DEF c, s, u
    <2> QED
        BY <1>7 DEF Smaller
<1>9. /\ rest \subseteq S \ first /\ IsFiniteSet(rest)
      /\ Cardinality(rest) = Smaller(n - c, s - c)
    BY <1>6, <1>8, TopSize
<1> HIDE DEF rest
<1>10. Cardinality(first \cup rest) = c + Cardinality(rest)
    <2>1. first \cap rest = {} /\ Cardinality({}) = 0
        BY <1>9, FS_EmptySet
    <2>2. Cardinality(first \cup rest) = Cardinality(first) + Cardinality(rest) - Cardinality(first \cap rest)
        BY <1>4, <1>9, FS_Union
    <2>3. Cardinality(rest) \in Nat /\ c \in Nat
        BY <1>7, <1>9, FS_CardinalityType
    <2>4. Cardinality(first \cap rest) = 0
        BY <2>1
    <2> HIDE DEF c
    <2>5. Cardinality(first \cup rest) = c + Cardinality(rest) - 0
        BY <2>2, <2>4 DEF c
    <2> QED
        BY <2>3, <2>5
<1>11. c + Smaller(n - c, s - c) = Smaller(n, s)
    <2> HIDE DEF c, s, u
    <2> QED
        BY <1>7, <1>8 DEF Smaller
<1> QED
    BY <1>1, <1>2, <1>4, <1>9, <1>10, <1>11

----------------------------------------------------------------------------
(* The morning list.                                                         *)

IsAdmissions(g, items) ==
    g = [n \in 0 .. Len(items) |-> IF n = 0 THEN <<>> ELSE Admit(g[n - 1], items[n])]
Admissions(f, S, items, result) ==
    /\ f \in [0 .. Len(items) -> S] /\ f[0] = <<>> /\ result = f[Len(items)]
    /\ \A n \in 1 .. Len(items) : f[n] = Admit(f[n - 1], items[n])

\* The entries admitted one after the other.
LEMMA AdmissionsIs ==
    ASSUME NEW S, <<>> \in S, NEW items,
           Len(items) \in Nat,
           \A x \in S, n \in 1 .. Len(items) : Admit(x, items[n]) \in S
    PROVE  \E f : Admissions(f, S, items, AdmitAll(items))
<1> DEFINE N == Len(items)
           next(x, n) == Admit(x, items[n])
           step == [x \in S \X (1 .. N) |-> next(x[1], x[2])]
<1>0. N \in Nat /\ \A x \in S, n \in 1 .. N : next(x, n) \in S
    OBVIOUS
<1> HIDE DEF next
<1>1. step \in [S \X (1 .. N) -> S]
    BY <1>0
<1>2. PICK f : IsIteration(f, S, <<>>, N, step)
    <2> HIDE DEF step, N
    <2> QED
        BY <1>0, <1>1, Iterates, Zenon
<1>3. \A n \in 1 .. N : f[n] = next(f[n - 1], n)
    <2> TAKE n \in 1 .. N
    <2> HIDE DEF step, N
    <2>0. f \in [0 .. N -> S] /\ f[n] = step[<<f[n - 1], n>>] /\ n - 1 \in 0 .. N
        BY <1>0, <1>2 DEF IsIteration
    <2>1. f[n - 1] \in S /\ f[n] = step[<<f[n - 1], n>>]
        BY <2>0
    <2> USE DEF step
    <2> QED
        BY <2>1
<1>4. IsAdmissions(f, items)
    <2>1. f = [n \in 0 .. N |-> f[n]] /\ f[0] = <<>>
        BY <1>2 DEF IsIteration
    <2> HIDE DEF N
    <2>2. \A n \in 0 .. N : n = 0 \/ n \in 1 .. N
        BY <1>0
    <2>3. \A n \in 0 .. N : f[n] = IF n = 0 THEN <<>> ELSE next(f[n - 1], n)
        BY <1>3, <2>1, <2>2
    <2> USE DEF N
    <2> QED
        BY <2>1, <2>3 DEF IsAdmissions, next
<1> DEFINE h == CHOOSE g : IsAdmissions(g, items)
<1>5. IsAdmissions(h, items)
    BY <1>4, Zenon
<1>6. AdmitAll(items) = h[N]
    BY DEF AdmitAll, IsAdmissions
<1> HIDE DEF h
<1>7. /\ h = [n \in 0 .. N |-> h[n]] /\ h[0] = <<>>
      /\ \A n \in 1 .. N : h[n] = next(h[n - 1], n)
    <2>1. h = [n \in 0 .. N |-> IF n = 0 THEN <<>> ELSE next(h[n - 1], n)]
        BY <1>5 DEF IsAdmissions, next
    <2> HIDE DEF N
    <2>2. 0 \in 0 .. N /\ \A n \in 1 .. N : n \in 0 .. N /\ n # 0
        BY <1>0
    <2>3. /\ h[0] = <<>>
          /\ \A n \in 1 .. N : h[n] = next(h[n - 1], n)
        BY <2>1, <2>2
    <2>4. h = [n \in 0 .. N |-> h[n]]
        BY <2>1
    <2> QED
        BY <2>3, <2>4
<1> DEFINE P == {m \in 0 .. N : h[m] \in S}
<1>8. 0 \in P
    BY <1>0, <1>7
<1>9. ASSUME NEW n \in 1 .. N, n - 1 \in P PROVE n \in P
    <2>1. h[n - 1] \in S /\ n \in 0 .. N
        BY <1>0, <1>9
    <2>2. next(h[n - 1], n) \in S
        BY <1>0, <2>1
    <2> QED
        BY <1>7, <2>1, <2>2
<1>10. \A n \in 0 .. N : h[n] \in S
    <2> HIDE DEF P, N
    <2>1. \A n \in 0 .. N : n \in P
        BY <1>0, <1>8, <1>9, Reaches
    <2> QED
        BY <2>1 DEF P
<1>11. h \in [0 .. N -> S]
    BY <1>7, <1>10
<1> QED
    BY <1>6, <1>7, <1>11 DEF Admissions, next

LEMMA AdmitExtends ==
    ASSUME NEW U, NEW a \in Seq(U), NEW i \in U
    PROVE  Admit(a, i) \in Seq(U) /\ Extends(a, Admit(a, i))
<1>1. CASE Admit(a, i) = a
    BY <1>1 DEF Extends
<1>2. CASE Admit(a, i) = Append(a, i)
    BY <1>2 DEF Extends
<1> QED
    BY <1>1, <1>2 DEF Admit

\* The first entries are admitted as they come, and all while there is a place.
LEMMA AdmitsAll ==
    ASSUME NEW U, NEW items \in Seq(U), Morning \in Nat, NEW k \in 0 .. Len(items), k <= Morning,
           \A m, n \in 1 .. k : items[m] = items[n] => m = n
    PROVE  /\ AdmitAll(items) \in Seq(U) /\ k <= Len(AdmitAll(items))
           /\ \A n \in 1 .. k : AdmitAll(items)[n] = items[n]
           /\ Len(AdmitAll(items)) >= Morning \/ ToSet(items) \subseteq ToSet(AdmitAll(items))
<1> DEFINE N == Len(items)
           S == Seq(U)
<1>1. N \in Nat /\ <<>> \in S /\ (\A n \in 1 .. N : items[n] \in U) /\ k \in Nat /\ k <= N
    OBVIOUS
<1>2. \A x \in S, n \in 1 .. N : Admit(x, items[n]) \in S
    BY <1>1, AdmitExtends
<1>3. PICK f : Admissions(f, S, items, AdmitAll(items))
    BY <1>1, <1>2, AdmissionsIs
<1> HIDE DEF N
<1>4. /\ \A n \in 0 .. N : f[n] \in S
      /\ f[0] = <<>> /\ AdmitAll(items) = f[N]
      /\ \A n \in 1 .. N : f[n] = Admit(f[n - 1], items[n])
    BY <1>3 DEF Admissions, N
<1>5. ASSUME NEW n \in 1 .. N
      PROVE  /\ n - 1 \in 0 .. N /\ n \in 0 .. N /\ f[n - 1] \in S /\ f[n] \in S
             /\ f[n] = Admit(f[n - 1], items[n]) /\ Extends(f[n - 1], f[n])
    <2>1. n - 1 \in 0 .. N /\ n \in 0 .. N
        BY <1>1
    <2>2. f[n - 1] \in S /\ f[n] \in S /\ items[n] \in U /\ f[n] = Admit(f[n - 1], items[n])
        BY <1>1, <1>4, <2>1
    <2>3. Extends(f[n - 1], Admit(f[n - 1], items[n]))
        BY <2>2, AdmitExtends
    <2> QED
        BY <2>1, <2>2, <2>3
<1> DEFINE Begins(n) == Len(f[n]) = n /\ \A m \in 1 .. n : f[n][m] = items[m]
           P == {n \in 0 .. k : Begins(n)}
<1>6. \A n \in 0 .. k : n \in P
    <2>1. 0 \in P
        BY <1>1, <1>4
    <2>2. ASSUME NEW n \in 1 .. k, n - 1 \in P PROVE n \in P
        <3> DEFINE a == f[n - 1]
        <3>1. n \in 1 .. N /\ n \in 0 .. k
            BY <1>1
        <3>2. a \in S /\ Len(a) = n - 1 /\ \A m \in 1 .. n - 1 : a[m] = items[m]
            BY <1>5, <2>2, <3>1
        <3>3. f[n] = Admit(a, items[n])
            BY <1>5, <3>1
        <3> HIDE DEF a
        <3>4. items[n] \notin ToSet(a)
            <4> SUFFICES ASSUME items[n] \in ToSet(a) PROVE FALSE
                OBVIOUS
            <4>1. PICK m \in 1 .. n - 1 : a[m] = items[n]
                BY <3>2 DEF ToSet, Lists!ToSet
            <4>2. m \in 1 .. k /\ items[m] = items[n] /\ m # n
                BY <1>1, <3>2, <4>1
            <4> QED
                BY <4>2
        <3>5. Len(a) < Morning
            BY <1>1, <3>2
        <3>6. f[n] = Append(a, items[n])
            BY <3>3, <3>4, <3>5 DEF Admit
        <3>7. Len(f[n]) = n /\ \A m \in 1 .. n : f[n][m] = items[m]
            BY <3>2, <3>6
        <3> QED
            BY <3>1, <3>7
    <2> HIDE DEF P
    <2> QED
        BY <1>1, <2>1, <2>2, Reaches
<1>7. Begins(k)
    <2>1. k \in 0 .. k
        BY <1>1
    <2> QED
        BY <1>6, <2>1
<1> HIDE DEF Begins, P
<1> DEFINE Q == {n \in 0 .. N : n >= k => Extends(f[k], f[n])}
<1>8. \A n \in 0 .. N : n \in Q
    <2>0. k \in 0 .. N /\ f[k] \in S
        BY <1>1, <1>4
    <2>1. 0 \in Q
        <3>1. 0 >= k => k = 0
            BY <1>1
        <3>2. Extends(f[k], f[k])
            BY <2>0 DEF Extends
        <3> QED
            BY <1>1, <3>1, <3>2
    <2>2. ASSUME NEW n \in 1 .. N, n - 1 \in Q PROVE n \in Q
        <3> SUFFICES ASSUME n >= k PROVE Extends(f[k], f[n])
            BY <1>5
        <3>1. CASE n = k
            BY <2>0, <3>1 DEF Extends
        <3>2. CASE n # k
            <4>1. Extends(f[k], f[n - 1]) /\ Extends(f[n - 1], f[n])
                BY <1>1, <1>5, <2>2, <3>2
            <4>2. Len(f[k]) \in Nat /\ Len(f[n - 1]) \in Nat /\ Len(f[n]) \in Nat
                BY <1>5, <2>0
            <4> QED
                BY <4>1, <4>2 DEF Extends
        <3> QED
            BY <3>1, <3>2
    <2> HIDE DEF Q
    <2> QED
        BY <1>1, <2>1, <2>2, Reaches
<1>9. Extends(f[k], f[N]) /\ f[k] \in S /\ f[N] \in S
    <2>1. N \in 0 .. N /\ N >= k /\ k \in 0 .. N
        BY <1>1
    <2> QED
        BY <1>4, <1>8, <2>1
<1> HIDE DEF Q
<1>10. k <= Len(f[N]) /\ \A n \in 1 .. k : f[N][n] = items[n]
    BY <1>7, <1>9 DEF Begins, Extends
<1> DEFINE R == {n \in 0 .. N : Len(f[n]) >= Morning \/ \A m \in 1 .. n : items[m] \in ToSet(f[n])}
<1>11. \A n \in 0 .. N : n \in R
    <2>1. 0 \in R
        BY <1>1
    <2>2. ASSUME NEW n \in 1 .. N, n - 1 \in R PROVE n \in R
        <3> DEFINE a == f[n - 1]
        <3>1. a \in S /\ f[n] = Admit(a, items[n]) /\ Extends(a, f[n]) /\ n \in 0 .. N
              /\ f[n] \in S
            BY <1>5
        <3>2. ToSet(a) \subseteq ToSet(f[n])
            <4> HIDE DEF a
            <4>0. /\ DOMAIN a = 1 .. Len(a) /\ DOMAIN f[n] = 1 .. Len(f[n])
                  /\ Len(a) \in Nat /\ Len(f[n]) \in Nat
                BY <3>1
            <4>1. \A m \in DOMAIN a : m \in DOMAIN f[n] /\ f[n][m] = a[m]
                BY <3>1, <4>0 DEF Extends
            <4> QED
                BY <4>1 DEF ToSet, Lists!ToSet
        <3>3. Len(a) \in Nat /\ Len(f[n]) \in Nat /\ Len(a) <= Len(f[n])
            BY <3>1 DEF Extends
        <3>4. Len(a) >= Morning \/ \A m \in 1 .. n - 1 : items[m] \in ToSet(a)
            BY <2>2
        <3> HIDE DEF a
        <3>5. Len(a) >= Morning \/ items[n] \in ToSet(f[n])
            <4> SUFFICES ASSUME Len(a) < Morning, items[n] \notin ToSet(a)
                         PROVE  items[n] \in ToSet(f[n])
                BY <3>2, <3>3
            <4>1. f[n] = Append(a, items[n])
                BY <3>1, <3>3 DEF Admit
            <4>2. Len(a) + 1 \in DOMAIN f[n] /\ f[n][Len(a) + 1] = items[n]
                BY <3>1, <3>3, <4>1
            <4> QED
                BY <4>2 DEF ToSet, Lists!ToSet
        <3>6. \A m \in 1 .. n : m \in 1 .. n - 1 \/ m = n
            OBVIOUS
        <3>7. Len(f[n]) >= Morning \/ \A m \in 1 .. n : items[m] \in ToSet(f[n])
            BY <3>2, <3>3, <3>4, <3>5, <3>6
        <3> QED
            BY <3>1, <3>7
    <2> HIDE DEF R
    <2> QED
        BY <1>1, <2>1, <2>2, Reaches
<1>12. Len(f[N]) >= Morning \/ ToSet(items) \subseteq ToSet(f[N])
    <2>1. N \in 0 .. N
        BY <1>1
    <2>2. Len(f[N]) >= Morning \/ \A m \in 1 .. N : items[m] \in ToSet(f[N])
        BY <1>11, <2>1
    <2>3. DOMAIN items = 1 .. N
        BY DEF N
    <2> HIDE DEF R
    <2>4. (\A m \in 1 .. N : items[m] \in ToSet(f[N])) => ToSet(items) \subseteq ToSet(f[N])
        <3> DEFINE X == ToSet(f[N])
        <3> HIDE DEF X
        <3>1. (\A m \in 1 .. N : items[m] \in X) => ToSet(items) \subseteq X
            BY <2>3 DEF ToSet, Lists!ToSet
        <3> QED
            BY <3>1 DEF X
    <2> QED
        BY <2>2, <2>4
<1> QED
    BY <1>4, <1>9, <1>10, <1>12

\* A list is no shorter than the set of its members, and as long if it has no repetition.
LEMMA MembersCounted ==
    ASSUME NEW U, NEW s \in Seq(U)
    PROVE  /\ IsFiniteSet(ToSet(s)) /\ Cardinality(ToSet(s)) <= Len(s)
           /\ OnceEach(s) => Cardinality(ToSet(s)) = Len(s)
<1> DEFINE L == Len(s)
           T == ToSet(s)
<1>1. L \in Nat /\ DOMAIN s = 1 .. L /\ s \in [1 .. L -> U]
    OBVIOUS
<1>2. s \in Surjection(1 .. L, T)
    <2>1. T = {s[n] : n \in 1 .. L}
        BY <1>1 DEF ToSet, Lists!ToSet
    <2> HIDE DEF T, L
    <2>2. s \in [1 .. L -> T]
        BY <1>1, <2>1
    <2> QED
        BY <2>1, <2>2 DEF Surjection
<1>3. OnceEach(s) => s \in Injection(1 .. L, T)
    <2> HIDE DEF T
    <2> QED
        BY <1>2 DEF OnceEach, Injection, Surjection, IsInjective
<1> HIDE DEF L, T
<1>4. IsFiniteSet(1 .. L) /\ Cardinality(1 .. L) = L
    BY <1>1, FS_Interval
<1>5. /\ IsFiniteSet(T) /\ Cardinality(T) <= Cardinality(1 .. L)
      /\ Cardinality(T) = Cardinality(1 .. L) <=> s \in Injection(1 .. L, T)
    BY <1>2, <1>4, FS_Surjection
<1> QED
    BY <1>3, <1>4, <1>5 DEF L, T

\* The featured papers: as many as there are places or papers, each once.
FeaturedPapers(papers, s) ==
    /\ s \in Seq(papers) /\ Len(s) = Smaller(Featured, Cardinality(papers)) /\ OnceEach(s)

LEMMA BudgetsAreNumbers ==
    /\ Featured \in 0 .. Maxima["featured"] /\ Morning \in Nat /\ RadarBudget \in Nat
    /\ FewestEntries \in Nat /\ MostEntries \in Nat /\ Maxima["featured"] \in Nat
<1>1. ASSUME NEW k \in DOMAIN Maxima PROVE Preferred(k) \in 0 .. Maxima[k] /\ Maxima[k] \in Nat
    BY SelectionAssumption DEF Preferred
<1>2. /\ Preferred("featured") \in 0 .. Maxima["featured"] /\ Maxima["featured"] \in Nat
      /\ Preferred("morning") \in Nat /\ Preferred("radar") \in Nat
    <2>1. "featured" \in DOMAIN Maxima /\ "morning" \in DOMAIN Maxima /\ "radar" \in DOMAIN Maxima
        BY SelectionAssumption
    <2> QED
        BY <1>1, <2>1
<1>3. RadarBudget \in Nat
    BY <1>2 DEF RadarBudget, Smaller
<1>4. FewestEntries \in Nat /\ MostEntries \in Nat
    BY SelectionAssumption
<1> QED
    BY <1>2, <1>3, <1>4 DEF Featured, Morning

LEMMA FeaturedFacts ==
    ASSUME NEW papers, Ranked(papers)
    PROVE  FeaturedPapers(papers, FeaturedResearch(papers))
<1> DEFINE inner == {i \in papers : i.core}
           outer == {i \in papers : ~i.core}
           core == DiverseResearch(inner, Featured)
           rest == DiverseResearch(outer, Featured - Cardinality(core))
           s == Sorted(core, Better)
           t == Sorted(rest, Better)
           F == Featured
<1>1. FeaturedResearch(papers) = s \o t
    BY DEF FeaturedResearch
<1>2. /\ inner \in SUBSET papers /\ outer \in SUBSET papers
      /\ inner \cap outer = {} /\ inner \cup outer = papers
    OBVIOUS
<1> HIDE DEF inner, outer
<1>3. Ranked(inner) /\ Ranked(outer) /\ IsFiniteSet(inner) /\ IsFiniteSet(outer)
    BY <1>2, RankedPart DEF Ranked
<1>4. F \in Nat
    BY BudgetsAreNumbers
<1>5. core \subseteq inner /\ Cardinality(core) = Smaller(F, Cardinality(inner))
    BY <1>3, <1>4, DiverseSize
<1> HIDE DEF core
<1>6. Cardinality(inner) \in Nat /\ Cardinality(outer) \in Nat /\ Cardinality(core) \in Nat
    <2>1. IsFiniteSet(core)
        BY <1>3, <1>5, FS_Subset
    <2> QED
        BY <1>3, <2>1, FS_CardinalityType
<1> DEFINE n == Cardinality(inner)
           m == Cardinality(outer)
           c == Cardinality(core)
<1>7. n \in Nat /\ m \in Nat /\ c \in Nat /\ c = Smaller(F, n)
    BY <1>5, <1>6
<1>8. F - c \in Nat
    <2> HIDE DEF n, m, c, F
    <2> QED
        BY <1>4, <1>7 DEF Smaller
<1>9. rest \subseteq outer /\ Cardinality(rest) = Smaller(F - c, m)
    BY <1>3, <1>8, DiverseSize
<1> HIDE DEF rest
<1>10. Ranked(core) /\ Ranked(rest)
    BY <1>3, <1>5, <1>9, RankedPart
<1>11. /\ s \in Seq(core) /\ Len(s) = c /\ ToSet(s) = core /\ OnceEach(s)
       /\ t \in Seq(rest) /\ Len(t) = Cardinality(rest) /\ ToSet(t) = rest /\ OnceEach(t)
    BY <1>10, BestFirst
<1> HIDE DEF s, t
<1>12. s \in Seq(papers) /\ t \in Seq(papers)
    BY <1>2, <1>5, <1>9, <1>11
<1>13. Cardinality(papers) = n + m
    <2>1. Cardinality(inner \cup outer) = Cardinality(inner) + Cardinality(outer) - Cardinality(inner \cap outer)
        BY <1>3, FS_Union
    <2>2. Cardinality(inner \cap outer) = 0
        BY <1>2, FS_EmptySet
    <2>3. Cardinality(papers) = n + m - 0
        BY <1>2, <2>1, <2>2
    <2> QED
        BY <1>7, <2>3
<1>14. c + Smaller(F - c, m) = Smaller(F, n + m)
    <2> HIDE DEF n, m, c, F
    <2> QED
        BY <1>4, <1>7 DEF Smaller
<1>15. Len(s \o t) = Len(s) + Len(t)
    BY <1>12
<1>16. OnceEach(s \o t)
    <2> DEFINE w == s \o t
    <2>1. /\ Len(s) \in Nat /\ Len(t) \in Nat /\ Len(w) = Len(s) + Len(t)
          /\ \A k \in 1 .. Len(s) : w[k] = s[k] /\ s[k] \in core
          /\ \A k \in 1 .. Len(t) : w[Len(s) + k] = t[k] /\ t[k] \in rest
        BY <1>11, <1>12
    <2> HIDE DEF w
    <2>2. core \cap rest = {}
        BY <1>2, <1>5, <1>9
    <2>3. \A k \in 1 .. Len(w) :
             \/ k \in 1 .. Len(s) /\ w[k] = s[k] /\ w[k] \in core
             \/ k - Len(s) \in 1 .. Len(t) /\ w[k] = t[k - Len(s)] /\ w[k] \in rest
        <3> TAKE k \in 1 .. Len(w)
        <3>1. CASE k <= Len(s)
            BY <2>1, <3>1
        <3>2. CASE k > Len(s)
            <4>1. k - Len(s) \in 1 .. Len(t) /\ Len(s) + (k - Len(s)) = k
                BY <2>1, <3>2
            <4> QED
                BY <2>1, <4>1
        <3> QED
            BY <2>1, <3>1, <3>2
    <2> SUFFICES ASSUME NEW k \in 1 .. Len(w), NEW l \in 1 .. Len(w), w[k] = w[l] PROVE k = l
        BY DEF OnceEach, w
    <2> QED
        BY <1>11, <2>1, <2>2, <2>3 DEF OnceEach
<1> QED
    BY <1>1, <1>9, <1>11, <1>12, <1>13, <1>14, <1>15, <1>16 DEF FeaturedPapers

(* The items of a day have their sections and are ranked.                    *)
Sections ==
    /\ \A i \in research : i.section = "research"
    /\ \A d \in news : d.section \in Nonlocal \cup Local \cup {"forecast"}
RankedDay == Ranked(research \cup news) /\ Sections
Papers == {i \in research : i.paper /\ Passes(i)}

IsJoin(c, a, b, U) ==
    /\ c \in Seq(U) /\ Len(a) \in Nat /\ Len(b) \in Nat /\ Len(c) = Len(a) + Len(b)
    /\ \A n \in 1 .. Len(a) : c[n] = a[n]
    /\ \A n \in 1 .. Len(b) : c[Len(a) + n] = b[n]
LEMMA Concatenated == ASSUME NEW U, NEW a \in Seq(U), NEW b \in Seq(U) PROVE IsJoin(a \o b, a, b, U)
    BY DEF IsJoin

LEMMA BestOne ==
    ASSUME NEW S, Ranked(S), S # {}
    PROVE  LET best == Sorted(Top(S, 1, Better), Better) IN best \in Seq(S) /\ Len(best) = 1
<1> DEFINE T == Top(S, 1, Better)
<1>1. T \subseteq S /\ Cardinality(T) = Smaller(1, Cardinality(S))
    BY TopSize
<1>2. Cardinality(S) \in Nat /\ Cardinality(S) # 0
    BY FS_CardinalityType, FS_EmptySet DEF Ranked
<1> HIDE DEF T
<1>3. Cardinality(T) = 1
    BY <1>1, <1>2 DEF Smaller
<1>4. Sorted(T, Better) \in Seq(T) /\ Len(Sorted(T, Better)) = Cardinality(T)
    BY <1>1, RankedPart, BestFirst
<1>5. Sorted(T, Better) \in Seq(S)
    BY <1>1, <1>4
<1> QED
    BY <1>3, <1>4, <1>5 DEF T

LEMMA NewsFacts ==
    ASSUME RankedDay
    PROVE  /\ LimitedNews \subseteq news /\ LimitedNonlocal \subseteq LimitedNews
           /\ LimitedLocal \subseteq LimitedNews
           /\ \A d \in LimitedNonlocal : d.section \in Nonlocal
           /\ \A d \in LimitedLocal : d.section \in Local
           /\ Ranked(LimitedNews) /\ Ranked(LimitedNonlocal) /\ Ranked(LimitedLocal)
           /\ IsFiniteSet(LimitedNews) /\ Cardinality(LimitedNews) \in Nat
<1>1. \A s : Limited(s) \subseteq Section(s)
    BY DEF Limited, Top
<1>2. LimitedLocal \subseteq Section("dmv") \cup Section("baltimore")
    BY DEF LimitedLocal, Top
<1>3. \A s : \A d \in Section(s) : d \in news /\ d.section = s
    BY DEF Section
<1>4. \A d \in LimitedNonlocal : d \in news /\ d.section \in Nonlocal
    BY <1>1, <1>3 DEF LimitedNonlocal
<1>5. \A d \in LimitedLocal : d \in news /\ d.section \in Local
    BY <1>2, <1>3 DEF Local
<1>6. LimitedNews \subseteq news
    BY <1>1, <1>3, <1>4, <1>5 DEF LimitedNews
<1>7. LimitedNonlocal \subseteq LimitedNews /\ LimitedLocal \subseteq LimitedNews
    BY DEF LimitedNews
<1>8. Ranked(LimitedNews) /\ Ranked(LimitedNonlocal) /\ Ranked(LimitedLocal)
    BY <1>6, <1>7, RankedPart DEF RankedDay
<1>9. IsFiniteSet(LimitedNews) /\ Cardinality(LimitedNews) \in Nat
    BY <1>8, FS_CardinalityType DEF Ranked
<1> QED
    BY <1>4, <1>5, <1>6, <1>7, <1>8, <1>9

(* What ResearchFirst makes of a good day.                                   *)
GoodMorning(featured, morning) ==
    LET k == Len(featured)
    IN  /\ morning \in Seq(research \cup news) /\ Len(morning) \in Nat
        /\ Len(morning) >= FewestEntries /\ k \in Nat /\ k + 2 <= Len(morning)
        /\ morning[1].section = "research"
        /\ morning[k + 1].section \in Nonlocal /\ morning[k + 2].section \in Local

LEMMA MorningFacts ==
    ASSUME RankedDay, GoodDay, NEW featured, FeaturedPapers(Papers, featured)
    PROVE  GoodMorning(featured, ResearchFirst(featured)) /\ 0 < Len(featured)
<1> DEFINE U == research \cup news
           k == Len(featured)
           paper == SubSeq(featured, 1, Smaller(Len(featured), Smaller(Featured, Morning)))
           best == Sorted(Top(LimitedNonlocal, 1, Better), Better)
           near == Sorted(Top(LimitedLocal, 1, Better), Better)
           all == Sorted(ToSet(featured) \cup LimitedNews, Better)
           items == featured \o best \o near \o all
           morning == AdmitAll(items)
<1>1. /\ Papers \subseteq research /\ Papers # {} /\ IsFiniteSet(Papers)
      /\ Cardinality(Papers) \in Nat /\ Cardinality(Papers) > 0
    <2>1. Papers \subseteq research /\ Papers # {}
        BY DEF Papers, GoodDay
    <2>2. IsFiniteSet(Papers)
        BY <2>1, FS_Subset DEF RankedDay, Ranked
    <2>3. Cardinality(Papers) \in Nat /\ Cardinality(Papers) # 0
        BY <2>1, <2>2, FS_CardinalityType, FS_EmptySet
    <2> QED
        BY <2>1, <2>2, <2>3
<1>2. /\ LimitedNonlocal # {} /\ LimitedLocal # {} /\ Featured > 0
      /\ Morning >= Larger(Featured + 2, FewestEntries)
      /\ Smaller(Featured, Cardinality(Papers)) + Cardinality(LimitedNews) >= FewestEntries
    BY DEF GoodDay, Papers
<1>3. /\ Featured \in Nat /\ Morning \in Nat /\ FewestEntries \in Nat
      /\ Morning >= Featured + 2 /\ Morning >= FewestEntries
    BY <1>2, BudgetsAreNumbers DEF Larger
<1>4. /\ featured \in Seq(Papers) /\ k = Smaller(Featured, Cardinality(Papers)) /\ OnceEach(featured)
      /\ featured \in Seq(U) /\ k \in Nat /\ 0 < k /\ k <= Featured
    BY <1>1, <1>2, <1>3 DEF FeaturedPapers, Smaller
<1>5. /\ \A n \in 1 .. k : featured[n] \in research /\ featured[n].section = "research"
      /\ ToSet(featured) \subseteq research /\ IsFiniteSet(ToSet(featured))
      /\ Cardinality(ToSet(featured)) = k
    <2>1. \A n \in 1 .. k : featured[n] \in research
        BY <1>1, <1>4
    <2>2. ToSet(featured) \subseteq research
        BY <2>1, <1>4 DEF ToSet, Lists!ToSet
    <2>3. IsFiniteSet(ToSet(featured)) /\ Cardinality(ToSet(featured)) = k
        BY <1>4, MembersCounted
    <2> QED
        BY <2>1, <2>2, <2>3 DEF RankedDay, Sections
<1>6. best \in Seq(LimitedNonlocal) /\ Len(best) = 1 /\ near \in Seq(LimitedLocal) /\ Len(near) = 1
    BY <1>2, NewsFacts, BestOne
<1>7. ResearchFirst(featured) = morning
    <2>1. paper = featured
        <3>1. Smaller(Len(featured), Smaller(Featured, Morning)) = Len(featured)
            BY <1>3, <1>4 DEF Smaller
        <3>2. SubSeq(featured, 1, Len(featured)) = featured
            BY <1>4
        <3> QED
            BY <3>1, <3>2
    <2>2. ResearchFirst(featured) = AdmitAll(paper \o best \o near \o all)
        BY DEF ResearchFirst
    <2> HIDE DEF paper, best, near, all
    <2> QED
        BY <2>1, <2>2
<1>8. Ranked(ToSet(featured) \cup LimitedNews)
    BY <1>5, NewsFacts, RankedPart DEF RankedDay
<1>9. all \in Seq(ToSet(featured) \cup LimitedNews) /\ ToSet(all) = ToSet(featured) \cup LimitedNews
    BY <1>8, BestFirst
<1> HIDE DEF best, near, all
<1>10. best \in Seq(U) /\ near \in Seq(U) /\ all \in Seq(U)
    <2>1. LimitedNonlocal \subseteq U /\ LimitedLocal \subseteq U
          /\ ToSet(featured) \cup LimitedNews \subseteq U
        BY <1>5, NewsFacts
    <2> HIDE DEF U
    <2> QED
        BY <1>6, <1>9, <2>1
<1>11. /\ items \in Seq(U) /\ Len(items) \in Nat /\ Len(items) = k + 2 + Len(all)
       /\ \A n \in 1 .. k : items[n] = featured[n]
       /\ items[k + 1] \in LimitedNonlocal /\ items[k + 2] \in LimitedLocal
       /\ \A n \in 1 .. Len(all) : items[k + 2 + n] = all[n]
    <2> HIDE DEF U
    <2> DEFINE a == featured \o best
               b == a \o near
    <2>0. Len(featured) = k /\ Len(best) = 1 /\ Len(near) = 1 /\ 1 \in 1 .. 1
        BY <1>6
    <2>1. /\ a \in Seq(U) /\ Len(a) = k + 1 /\ a[k + 1] = best[1]
          /\ \A n \in 1 .. k : a[n] = featured[n]
        <3>1. IsJoin(a, featured, best, U)
            BY <1>4, <1>10, Concatenated
        <3> HIDE DEF a
        <3> QED
            BY <1>4, <2>0, <3>1 DEF IsJoin
    <2> HIDE DEF a
    <2>2. /\ b \in Seq(U) /\ Len(b) = k + 1 + 1 /\ b[k + 1 + 1] = near[1]
          /\ \A n \in 1 .. k + 1 : b[n] = a[n]
        <3>1. IsJoin(b, a, near, U)
            BY <1>10, <2>1, Concatenated
        <3> HIDE DEF b
        <3> QED
            BY <1>4, <2>0, <2>1, <3>1 DEF IsJoin
    <2>3. items = b \o all
        BY DEF a, b
    <2> HIDE DEF b, items
    <2>20. k + 1 + 1 = k + 2
        BY <1>4
    <2>4. /\ items \in Seq(U) /\ Len(items) = k + 2 + Len(all) /\ Len(all) \in Nat
          /\ \A n \in 1 .. k + 2 : items[n] = b[n]
          /\ \A n \in 1 .. Len(all) : items[k + 2 + n] = all[n]
        <3>1. b \in Seq(U) /\ all \in Seq(U) /\ Len(b) = k + 2
            BY <1>10, <2>2, <2>20
        <3>2. IsJoin(items, b, all, U)
            BY <2>3, <3>1, Concatenated
        <3> QED
            BY <3>1, <3>2 DEF IsJoin
    <2>5. best[1] \in LimitedNonlocal /\ near[1] \in LimitedLocal
        BY <1>6
    <2> HIDE DEF items
    <2>6. \A n \in 1 .. k : n \in 1 .. k + 1 /\ n \in 1 .. k + 2
        BY <1>4
    <2>7. k + 1 \in 1 .. k + 1 /\ k + 1 \in 1 .. k + 2 /\ k + 2 \in 1 .. k + 2
        BY <1>4
    <2>8. \A n \in 1 .. k : items[n] = featured[n]
        BY <2>1, <2>2, <2>4, <2>6
    <2>9. items[k + 1] = best[1] /\ items[k + 2] = near[1]
        BY <2>1, <2>2, <2>4, <2>7, <2>20
    <2>10. Len(items) \in Nat
        BY <1>4, <2>4
    <2> QED
        BY <2>4, <2>5, <2>8, <2>9, <2>10
<1> HIDE DEF items
<1>12. /\ \A n \in 1 .. k : items[n].section = "research"
       /\ items[k + 1].section \in Nonlocal /\ items[k + 2].section \in Local
    BY <1>5, <1>11, NewsFacts
<1>13. \A m, n \in 1 .. k + 2 : items[m] = items[n] => m = n
    <2> TAKE m, n \in 1 .. k + 2
    <2> HAVE items[m] = items[n]
    <2>1. \A l \in 1 .. k + 2 : l \in 1 .. k \/ l = k + 1 \/ l = k + 2
        BY <1>4
    <2>2. items[m].section = items[n].section
        OBVIOUS
    <2>3. CASE m \in 1 .. k
        <3>1. n \in 1 .. k
            BY <1>12, <2>1, <2>2, <2>3 DEF Nonlocal, Local
        <3> QED
            BY <1>4, <1>11, <2>3, <3>1 DEF OnceEach
    <2>4. CASE m = k + 1
        BY <1>12, <2>1, <2>2, <2>4 DEF Nonlocal, Local
    <2>5. CASE m = k + 2
        BY <1>12, <2>1, <2>2, <2>5 DEF Nonlocal, Local
    <2> QED
        BY <2>1, <2>3, <2>4, <2>5
<1>14. k + 2 \in 0 .. Len(items) /\ k + 2 <= Morning
    BY <1>3, <1>4, <1>9, <1>10, <1>11
<1>15. /\ morning \in Seq(U) /\ k + 2 <= Len(morning)
       /\ \A n \in 1 .. k + 2 : morning[n] = items[n]
       /\ Len(morning) >= Morning \/ ToSet(items) \subseteq ToSet(morning)
    <2> DEFINE K == k + 2
    <2>1. /\ K \in 0 .. Len(items) /\ K <= Morning
          /\ \A m, n \in 1 .. K : items[m] = items[n] => m = n
        BY <1>13, <1>14
    <2> HIDE DEF K, U
    <2>2. /\ morning \in Seq(U) /\ K <= Len(morning)
          /\ \A n \in 1 .. K : morning[n] = items[n]
          /\ Len(morning) >= Morning \/ ToSet(items) \subseteq ToSet(morning)
        BY <1>3, <1>11, <2>1, AdmitsAll
    <2> QED
        BY <2>2 DEF K
<1> HIDE DEF morning
<1>16. Len(morning) \in Nat
    BY <1>15
<1>17. Len(morning) >= FewestEntries
    <2>1. CASE Len(morning) >= Morning
        BY <1>3, <1>16, <2>1
    <2>2. CASE ToSet(items) \subseteq ToSet(morning)
        <3> DEFINE A == ToSet(featured)
                   B == LimitedNews
                   M == ToSet(morning)
        <3>1. A \cup B \subseteq ToSet(items)
            <4>1. A \cup B \subseteq ToSet(all)
                BY <1>9
            <4>2. \A n \in 1 .. Len(all) : k + 2 + n \in 1 .. Len(items) /\ items[k + 2 + n] = all[n]
                BY <1>4, <1>10, <1>11
            <4>3. DOMAIN items = 1 .. Len(items) /\ DOMAIN all = 1 .. Len(all)
                BY <1>10, <1>11
            <4>4. ToSet(all) \subseteq ToSet(items)
                BY <4>2, <4>3 DEF ToSet, Lists!ToSet
            <4> QED
                BY <4>1, <4>4
        <3>2. A \cap B = {}
            BY <1>5, NewsFacts DEF RankedDay, Sections, Nonlocal, Local
        <3>3. IsFiniteSet(A) /\ Cardinality(A) = k /\ IsFiniteSet(B) /\ Cardinality(B) \in Nat
            BY <1>5, NewsFacts
        <3>4. IsFiniteSet(M) /\ Cardinality(M) <= Len(morning)
            BY <1>15, MembersCounted
        <3> HIDE DEF A, B, M
        <3>5. Cardinality(A \cup B) = Cardinality(A) + Cardinality(B) - Cardinality(A \cap B)
            BY <3>3, FS_Union
        <3>6. Cardinality(A \cap B) = 0
            BY <3>2, FS_EmptySet
        <3>7. Cardinality(A \cup B) <= Cardinality(M)
            BY <2>2, <3>1, <3>4, FS_Subset DEF M
        <3>8. Cardinality(M) \in Nat /\ Cardinality(A \cup B) \in Nat
            BY <3>3, <3>4, FS_CardinalityType, FS_Union
        <3>9. k + Cardinality(B) >= FewestEntries
            BY <1>2, <1>4 DEF B
        <3> DEFINE x == Cardinality(A \cup B)
                   y == Cardinality(M)
                   z == Cardinality(B)
        <3>10. /\ x = k + z - 0 /\ x <= y /\ y <= Len(morning) /\ k + z >= FewestEntries
               /\ x \in Nat /\ y \in Nat /\ z \in Nat
            BY <3>3, <3>4, <3>5, <3>6, <3>7, <3>8, <3>9
        <3> HIDE DEF x, y, z
        <3> QED
            BY <1>3, <1>4, <1>16, <3>10
    <2> QED
        BY <1>15, <2>1, <2>2
<1>18. /\ morning[1].section = "research"
       /\ morning[k + 1].section \in Nonlocal /\ morning[k + 2].section \in Local
    <2>1. 1 \in 1 .. k /\ 1 \in 1 .. k + 2 /\ k + 1 \in 1 .. k + 2 /\ k + 2 \in 1 .. k + 2
        BY <1>4
    <2> QED
        BY <1>12, <1>15, <2>1
<1>19. GoodMorning(featured, morning)
    BY <1>4, <1>15, <1>16, <1>17, <1>18 DEF GoodMorning
<1> QED
    BY <1>4, <1>7, <1>19

\* The entries of the shortlist begin with the morning list.
BeginsWith(entries, morning) ==
    /\ Len(entries) \in Nat /\ Len(morning) <= Len(entries) /\ entries \in Seq(ToSet(entries))
    /\ \A n \in 1 .. Len(morning) : entries[n].section = morning[n].section

LEMMA RadarFits ==
    ASSUME Ranked(research), NEW rest \in SUBSET research, NEW m \in Nat
    PROVE  Smaller(Smaller(RadarBudget, Larger(0, Morning - m)),
                   Len(Sorted(DiverseResearch(rest, RadarBudget), Better))) \in Nat
<1> DEFINE D == DiverseResearch(rest, RadarBudget)
           radar == Sorted(D, Better)
<1>1. D \subseteq rest
    BY RankedPart, BudgetsAreNumbers, DiverseSize
<1> HIDE DEF D
<1>2. Ranked(D)
    BY <1>1, RankedPart
<1>3. radar \in Seq(D)
    BY <1>2, BestFirst
<1> HIDE DEF radar
<1>4. Len(radar) \in Nat
    BY <1>3
<1> DEFINE l == Len(radar)
<1>5. l \in Nat /\ RadarBudget \in Nat /\ Morning \in Nat
    BY <1>4, BudgetsAreNumbers
<1> HIDE DEF l
<1>6. Smaller(Smaller(RadarBudget, Larger(0, Morning - m)), l) \in Nat
    BY <1>5 DEF Smaller, Larger
<1> QED
    BY <1>6 DEF l, radar, D

LEMMA ShortlistBegins ==
    ASSUME RankedDay, ResearchFirst(FeaturedResearch(Papers)) \in Seq(research \cup news)
    PROVE  BeginsWith(Shortlisted(research), ResearchFirst(FeaturedResearch(Papers)))
<1> DEFINE passing == {i \in research : Passes(i)}
           chosen == {i \in passing : i.paper}
           featured == FeaturedResearch(chosen)
           morning == ResearchFirst(featured)
           rest == passing \ ToSet(featured)
           radar == Sorted(DiverseResearch(rest, RadarBudget), Better)
           x == Smaller(Smaller(RadarBudget, Larger(0, Morning - Len(morning))), Len(radar))
           first == [n \in 1 .. Len(morning) |-> [item |-> morning[n].id, section |-> morning[n].section]]
           second == [n \in 1 .. x |-> [item |-> radar[n].id, section |-> "research_radar"]]
           entries == first \o second
<1>1. chosen = Papers
    BY DEF Papers
<1>2. Shortlisted(research) = entries
    BY DEF Shortlisted
<1>3. Len(morning) \in Nat
    <2> HIDE DEF chosen
    <2> QED
        BY <1>1
<1>4. rest \in SUBSET research /\ Ranked(research)
    BY RankedPart DEF RankedDay
<1> HIDE DEF rest, morning
<1>5. x \in Nat
    BY <1>3, <1>4, RadarFits
<1> HIDE DEF radar, x
<1> DEFINE V == {first[n] : n \in 1 .. Len(morning)} \cup {second[n] : n \in 1 .. x}
<1>6. first \in Seq(V) /\ Len(first) = Len(morning) /\ second \in Seq(V) /\ Len(second) = x
    BY <1>3, <1>5
<1>7. \A n \in 1 .. Len(morning) : first[n].section = morning[n].section
    OBVIOUS
<1> HIDE DEF first, second, V
<1>8. IsJoin(entries, first, second, V)
    BY <1>6, Concatenated
<1> HIDE DEF entries
<1>9. DOMAIN entries = 1 .. Len(entries) /\ Len(entries) \in Nat /\ entries \in [1 .. Len(entries) -> V]
    BY <1>8 DEF IsJoin
<1>10. entries \in Seq(ToSet(entries))
    <2> DEFINE T == ToSet(entries)
               L == Len(entries)
    <2>1. entries \in [1 .. L -> T] /\ L \in Nat
        <3>1. \A n \in 1 .. L : entries[n] \in T
            BY <1>9 DEF ToSet, Lists!ToSet
        <3> HIDE DEF T
        <3> QED
            BY <1>9, <3>1
    <2> HIDE DEF T, L
    <2>2. entries \in Seq(T)
        BY <2>1
    <2> QED
        BY <2>2 DEF T
<1>11. BeginsWith(entries, morning)
    BY <1>3, <1>5, <1>6, <1>7, <1>8, <1>9, <1>10 DEF IsJoin, BeginsWith
<1> QED
    BY <1>1, <1>2, <1>11 DEF morning

(* A good day makes a complete edition. *)
LEMMA GoodStatus == ASSUME RankedDay, GoodDay PROVE Status(Shortlisted(research)) = "published"
<1> DEFINE featured == FeaturedResearch(Papers)
           morning == ResearchFirst(featured)
           k == Len(featured)
           entries == Shortlisted(research)
           L == Smaller(Len(entries), MostEntries)
           shown == SubSeq(entries, 1, L)
<1>1. Ranked(Papers)
    BY RankedPart DEF RankedDay, Papers
<1>2. FeaturedPapers(Papers, featured)
    BY <1>1, FeaturedFacts
<1> HIDE DEF featured
<1>3. GoodMorning(featured, morning) /\ 0 < k
    BY <1>2, MorningFacts
<1>4. BeginsWith(entries, morning)
    BY <1>3, ShortlistBegins DEF GoodMorning, featured
<1> HIDE DEF morning, entries
<1>5. /\ k \in Nat /\ FewestEntries \in Nat /\ MostEntries \in Nat
      /\ FewestEntries <= MostEntries /\ k + 2 <= MostEntries
      /\ Len(morning) \in Nat /\ k + 2 <= Len(morning) /\ FewestEntries <= Len(morning)
      /\ Len(entries) \in Nat /\ Len(morning) <= Len(entries)
    <2>1. k \in Nat /\ k <= Featured
        <3>1. IsFiniteSet(Papers) /\ Cardinality(Papers) \in Nat
            BY <1>1, FS_CardinalityType DEF Ranked
        <3> QED
            BY <1>2, <3>1, BudgetsAreNumbers DEF FeaturedPapers, Smaller
    <2>2. k + 2 <= MostEntries
        BY <2>1, BudgetsAreNumbers, SelectionAssumption
    <2> QED
        BY <1>3, <1>4, <2>1, <2>2, BudgetsAreNumbers, SelectionAssumption DEF GoodMorning, BeginsWith
<1>6. L \in Nat /\ L <= Len(entries) /\ FewestEntries <= L /\ k + 2 <= L
    BY <1>5 DEF Smaller
<1> HIDE DEF L
<1>7. shown \in Seq(ToSet(entries)) /\ Len(shown) = L /\ \A n \in 1 .. L : shown[n] = entries[n]
    <2> DEFINE V == ToSet(entries)
    <2>1. entries \in Seq(V)
        BY <1>4 DEF BeginsWith
    <2> HIDE DEF V
    <2>2. shown \in Seq(V) /\ Len(shown) = L /\ \A n \in 1 .. L : shown[n] = entries[n]
        BY <1>5, <1>6, <2>1
    <2> QED
        BY <2>2 DEF V
<1> HIDE DEF shown
<1> DEFINE sections == {e.section : e \in ToSet(shown)}
<1>8. \A n \in 1 .. k + 2 : morning[n].section \in sections
    <2> TAKE n \in 1 .. k + 2
    <2>1. n \in 1 .. L /\ n \in 1 .. Len(morning) /\ DOMAIN shown = 1 .. L
        BY <1>5, <1>6, <1>7
    <2>2. shown[n] \in ToSet(shown)
        BY <2>1 DEF ToSet, Lists!ToSet
    <2>3. shown[n].section = morning[n].section
        BY <1>4, <1>7, <2>1 DEF BeginsWith
    <2> QED
        BY <2>2, <2>3
<1>9. /\ "research" \in sections
      /\ \E s \in sections : s \in Nonlocal
      /\ \E s \in sections : s \in Local
    <2>1. 1 \in 1 .. k + 2 /\ k + 1 \in 1 .. k + 2 /\ k + 2 \in 1 .. k + 2
        BY <1>3, <1>5
    <2> HIDE DEF sections
    <2> QED
        BY <1>3, <1>8, <2>1 DEF GoodMorning
<1>10. Missing(shown) = {}
    <2>1. /\ "research" \in sections
          /\ ~(sections \subseteq {"research", "research_radar"} \cup Local)
          /\ sections \cap Local # {}
        <3> HIDE DEF sections
        <3> QED
            BY <1>9 DEF Nonlocal, Local
    <2> QED
        BY <2>1 DEF Missing
<1>11. Status(entries) = "published"
    BY <1>6, <1>7, <1>10 DEF Status, shown, L
<1> QED
    BY <1>11 DEF entries

\* The items are a day's until they are scored, and then ranked.
DayInv ==
    /\ at \in {"discovered", "normalized", "triaged", "assessed"} => IsDay
    /\ at = "triaged" => queue \in Seq(research)
    /\ at \in {"scored", "shortlisted", "composed"} => RankedDay
    /\ at = "composed" => status = Status(listed)

LEMMA PartOfDay ==
    ASSUME IsDay, research' \subseteq research, news' = news
    PROVE  IsDay'
<1>1. IsPool(research')
    BY PoolPart DEF IsDay
<1>2. /\ \A i \in research' \cup news' : i \in research \cup news
      /\ \A i \in research' : i \in research
    OBVIOUS
<1> QED
    BY <1>1, <1>2 DEF IsDay

LEMMA ScoresAreNumbers ==
    ASSUME IsDay
    PROVE  /\ \A i \in research : ResearchScore(i) \in Int
           /\ \A d \in news : NewsScore(d) \in Int
<1>1. ASSUME NEW i \in research PROVE ResearchScore(i) \in Int
    <2>1. i.fit \in 0 .. 100
        BY DEF IsDay, IsPool
    <2>2. /\ i.quality \in Nat /\ i.novelty \in Nat /\ i.institutions \in Nat
          /\ i.context \in Nat /\ i.citations \in Nat \cup {-1}
        BY DEF IsDay
    <2>3. Attention(i) \in Int
        BY <2>2 DEF Attention, Larger, Smaller, Capped
    <2>4. Capped(50 + 15 * i.institutions) \in Int
        BY <2>2 DEF Smaller, Capped
    <2> DEFINE c == Capped(50 + 15 * i.institutions)
               a == Attention(i)
    <2>5. /\ i.fit \in Int /\ i.quality \in Int /\ i.novelty \in Int /\ c \in Int /\ a \in Int
          /\ ResearchScore(i) = 3 * (35 * i.fit + 30 * i.quality + 15 * c + 10 * i.novelty + 10 * a)
        BY <2>1, <2>2, <2>3, <2>4 DEF ResearchScore
    <2> HIDE DEF a, c
    <2> QED
        BY <2>5
<1>2. ASSUME NEW d \in news PROVE NewsScore(d) \in Int
    <2>1. d.relevance \in Nat /\ d.quality \in Nat /\ d.recency \in Nat /\ d.sources \in Nat
        BY DEF IsDay
    <2>2. Importance(d.section) \in Int /\ Geography(d.section) \in Int
        BY DEF Importance, Geography
    <2>3. Smaller(300, 100 * d.sources) \in Int
        BY <2>1 DEF Smaller
    <2> QED
        BY <2>1, <2>2, <2>3 DEF NewsScore
<1> QED
    BY <1>1, <1>2

LEMMA ImageIsFinite ==
    ASSUME NEW S, IsFiniteSet(S), NEW f, f = [i \in S |-> f[i]]
    PROVE  IsFiniteSet({f[i] : i \in S})
<1> DEFINE T == {f[i] : i \in S}
<1>1. f \in Surjection(S, T)
    BY DEF Surjection
<1> HIDE DEF T
<1>2. IsFiniteSet(T)
    BY <1>1, FS_Surjection
<1> QED
    BY <1>2 DEF T

LEMMA ScoreRanks == IsDay /\ Score => RankedDay'
<1> SUFFICES ASSUME IsDay, Score PROVE RankedDay'
    OBVIOUS
<1> DEFINE r(i) == [i EXCEPT !.score = ResearchScore(i)]
           d(i) == [i EXCEPT !.score = NewsScore(i)]
<1>1. research' = {r(i) : i \in research} /\ news' = {d(i) : i \in news}
    BY DEF Score
<1>2. \A i \in research \cup news : "id" \in DOMAIN i /\ "section" \in DOMAIN i /\ "score" \in DOMAIN i
    BY DEF IsDay
<1>3. \A i \in research :
         /\ r(i).id = i.id /\ i.id \in Nat /\ r(i).section = "research" /\ r(i).score \in Int
    <2>1. \A i \in research : r(i).id = i.id /\ r(i).section = i.section /\ r(i).score = ResearchScore(i)
        BY <1>2
    <2>2. \A i \in research : i.id \in Nat /\ i.section = "research"
        BY DEF IsDay, IsPool
    <2> HIDE DEF r
    <2> QED
        BY <2>1, <2>2, ScoresAreNumbers
<1>4. \A i \in news :
         /\ d(i).id = i.id /\ i.id \in Nat /\ d(i).section \in Nonlocal \cup Local \cup {"forecast"}
         /\ d(i).score \in Int
    <2>1. \A i \in news : d(i).id = i.id /\ d(i).section = i.section /\ d(i).score = NewsScore(i)
        BY <1>2
    <2>2. \A i \in news : i.id \in Nat /\ i.section \in Nonlocal \cup Local \cup {"forecast"}
        BY DEF IsDay
    <2> HIDE DEF d
    <2> QED
        BY <2>1, <2>2, ScoresAreNumbers
<1>5. \A i, j \in research \cup news : i.id = j.id => i = j
    BY DEF IsDay
<1>6. \A i \in research, j \in news : i.id # j.id
    <2>1. \A i \in research : i.section = "research"
        BY DEF IsDay
    <2>2. \A j \in news : j.section \in Nonlocal \cup Local \cup {"forecast"}
        BY DEF IsDay
    <2>3. \A i \in research, j \in news : i # j
        BY <2>1, <2>2 DEF Nonlocal, Local
    <2> QED
        BY <1>5, <2>3
<1>7. IsFiniteSet(research') /\ IsFiniteSet(news')
    <2>1. IsFiniteSet(research) /\ IsFiniteSet(news)
        BY DEF IsDay, IsPool
    <2> DEFINE f == [i \in research |-> r(i)]
               g == [i \in news |-> d(i)]
    <2>2. research' = {f[i] : i \in research} /\ news' = {g[i] : i \in news}
        <3> HIDE DEF r, d
        <3> QED
            BY <1>1
    <2>3. DOMAIN f = research /\ DOMAIN g = news /\ f = [i \in research |-> f[i]] /\ g = [i \in news |-> g[i]]
        OBVIOUS
    <2> HIDE DEF f, g
    <2> QED
        BY <2>1, <2>2, <2>3, ImageIsFinite
<1> HIDE DEF r, d
<1>8. /\ \A i \in research' : i.section = "research"
      /\ \A i \in news' : i.section \in Nonlocal \cup Local \cup {"forecast"}
      /\ \A i \in research' \cup news' : i.id \in Nat /\ i.score \in Int
    BY <1>1, <1>3, <1>4
<1>9. \A i, j \in research' \cup news' : i.id = j.id => i = j
    <2> TAKE i, j \in research' \cup news'
    <2> HAVE i.id = j.id
    <2>1. \A k \in research' \cup news' : (\E x \in research : k = r(x)) \/ (\E x \in news : k = d(x))
        BY <1>1
    <2>2. CASE \E x \in research : i = r(x)
        <3>1. PICK x \in research : i = r(x)
            BY <2>2
        <3>2. ASSUME NEW y \in research, j = r(y) PROVE i = j
            <4>1. x.id = y.id
                BY <1>3, <3>1, <3>2
            <4> QED
                BY <1>5, <3>1, <3>2, <4>1
        <3>3. ASSUME NEW y \in news, j = d(y) PROVE FALSE
            BY <1>3, <1>4, <1>6, <3>1, <3>3
        <3> QED
            BY <2>1, <3>2, <3>3
    <2>3. CASE \E x \in news : i = d(x)
        <3>1. PICK x \in news : i = d(x)
            BY <2>3
        <3>2. ASSUME NEW y \in news, j = d(y) PROVE i = j
            <4>1. x.id = y.id
                BY <1>4, <3>1, <3>2
            <4> QED
                BY <1>5, <3>1, <3>2, <4>1
        <3>3. ASSUME NEW y \in research, j = r(y) PROVE FALSE
            BY <1>3, <1>4, <1>6, <3>1, <3>3
        <3> QED
            BY <2>1, <3>2, <3>3
    <2> QED
        BY <2>1, <2>2, <2>3
<1>10. IsFiniteSet(research' \cup news')
    BY <1>7, FS_Union
<1>11. (Ranked(research \cup news))'
    BY <1>8, <1>9, <1>10 DEF Ranked
<1>12. Sections'
    BY <1>8 DEF Sections, Nonlocal, Local
<1> QED
    BY <1>11, <1>12 DEF RankedDay

LEMMA DayInvStep == DayInv /\ [SelectionNext]_selectionVars => DayInv'
<1> SUFFICES ASSUME DayInv, [SelectionNext]_selectionVars PROVE DayInv'
    OBVIOUS
<1>1. CASE NormalizeItems
    <2>1. IsDay /\ research' = BoundPool(research) /\ at' = "normalized" /\ news' = news
        BY <1>1 DEF NormalizeItems, DayInv
    <2>2. BoundPool(research) \subseteq research
        BY DEF BoundPool, Top
    <2>3. IsDay'
        BY <2>1, <2>2, PartOfDay
    <2> QED
        BY <2>1, <2>3 DEF DayInv
<1>2. CASE Prefilter
    <2>1. /\ IsDay /\ research' = research /\ news' = news
          /\ at' = "triaged" /\ queue' = Triage(research)
        BY <1>2 DEF Prefilter, DayInv
    <2>2. IsDay'
        BY <2>1, PartOfDay
    <2>3. Triage(research) \in Seq(research)
        BY <2>1, TriageOfPoolIsFair DEF IsDay
    <2> QED
        BY <2>1, <2>2, <2>3 DEF DayInv
<1>3. CASE \E scored \in SUBSET ToSet(queue) : Assess(scored)
    <2>1. PICK scored \in SUBSET ToSet(queue) : Assess(scored)
        BY <1>3
    <2>2. IsDay /\ queue \in Seq(research) /\ research' = scored /\ news' = news /\ at' = "assessed"
        BY <2>1 DEF Assess, DayInv
    <2>3. ToSet(queue) \subseteq research
        BY <2>2 DEF ToSet, Lists!ToSet
    <2>4. IsDay'
        BY <2>1, <2>2, <2>3, PartOfDay
    <2> QED
        BY <2>2, <2>4 DEF DayInv
<1>4. CASE Score
    <2>1. IsDay /\ at' = "scored"
        BY <1>4 DEF Score, DayInv
    <2>2. RankedDay'
        BY <1>4, <2>1, ScoreRanks
    <2> QED
        BY <2>1, <2>2 DEF DayInv
<1>5. CASE Shortlist
    <2>1. RankedDay /\ research' = research /\ news' = news /\ at' = "shortlisted"
        BY <1>5 DEF Shortlist, DayInv
    <2>2. RankedDay'
        BY <2>1 DEF RankedDay, Sections
    <2> QED
        BY <2>1, <2>2 DEF DayInv
<1>6. CASE \E valid \in SUBSET ToSet(listed) : Compose(valid)
    <2>1. /\ RankedDay /\ research' = research /\ news' = news
          /\ at' = "composed" /\ status' = Status(listed')
        BY <1>6 DEF Compose, DayInv
    <2>2. RankedDay'
        BY <2>1 DEF RankedDay, Sections
    <2> QED
        BY <2>1, <2>2 DEF DayInv
<1>7. CASE UNCHANGED selectionVars
    <2>1. /\ at' = at /\ research' = research /\ news' = news /\ queue' = queue
          /\ listed' = listed /\ status' = status
        BY <1>7 DEF selectionVars
    <2>2. (IsDay => IsDay') /\ (RankedDay => RankedDay')
        BY <2>1, PartOfDay DEF RankedDay, Sections
    <2> QED
        BY <2>1, <2>2 DEF DayInv
<1> QED
    BY <1>1, <1>2, <1>3, <1>4, <1>5, <1>6, <1>7 DEF SelectionNext

(* GoodDayIsPublished: for any items, budgets and limits, when the assessed  *)
(* candidates offer a complete edition and every summary is valid, the       *)
(* shortlist that the research-first morning makes of them is published.     *)
THEOREM SelectionGoodDayIsPublished == SelectionSpec => []GoodDayIsPublished
<1>1. SelectionInit => DayInv
    BY DEF SelectionInit, DayInv
<1>2. DayInv => GoodDayIsPublished
    <2> SUFFICES ASSUME DayInv, at = "composed", GoodDay, listed = Shortlisted(research)
                 PROVE  status = "published"
        BY DEF GoodDayIsPublished
    <2>1. RankedDay /\ status = Status(listed)
        BY DEF DayInv
    <2>2. Status(Shortlisted(research)) = "published"
        BY <2>1, GoodStatus
    <2> QED
        BY <2>1, <2>2
<1> QED
    BY <1>1, <1>2, DayInvStep, PTL DEF SelectionSpec

----------------------------------------------------------------------------
(* The stored edition.                                                       *)

\* The run has stored the items of its collection.
Stored(d) == \/ row[d].stage = 2
             \/ phase[d] = "wrote" /\ row[d].status # "none"

\* A checkpoint has a row that is older than the items collected.
Precedes(d) ==
    /\ row[d].created <= day
    /\ row[d].stage # 0 => row[d].status # "none" /\ row[d].created <= row[d].on
    /\ phase[d] = "wrote" /\ row[d].status # "none" => row[d].stage = 1

\* The items a run was the last to write still have the expiry it gave them.
Stands(d) == Stored(d) =>
    \A i \in row[d].got : by[i] = d => until[i] = row[d].on + CandidateKeep

IInv == TypeOK /\ \A d \in Dates : Precedes(d) /\ Stands(d)

LEMMA InitIInv == Init => IInv
<1> SUFFICES ASSUME Init PROVE IInv
    OBVIOUS
<1> USE KeepAssumption
<1>1. TypeOK
    BY DEF Init, TypeOK, NoRow, Row, RunStatus
<1>2. \A d \in Dates : Precedes(d) /\ Stands(d)
    <2> SUFFICES ASSUME NEW d \in Dates PROVE Precedes(d) /\ Stands(d)
        OBVIOUS
    <2>1. row[d].created = 0 /\ row[d].stage = 0 /\ phase[d] = "off" /\ day = 0
        BY DEF Init, NoRow
    <2> QED BY <2>1 DEF Precedes, Stands, Stored
<1> QED BY <1>1, <1>2 DEF IInv

\* A new row is a row.
LEMMA NewRow ==
    ASSUME NEW s \in RunStatus, NEW n \in Nat
    PROVE  [NoRow EXCEPT !.status = s, !.created = n] \in Row
<1>1. NoRow \in Row
    BY DEF NoRow, Row, RunStatus
<1> QED BY <1>1 DEF Row

\* Replacing the row of a date by a row keeps the type.
LEMMA RowUpdate ==
    ASSUME row \in [Dates -> Row], NEW d \in Dates, NEW r \in Row,
           row' = [row EXCEPT ![d] = r]
    PROVE  row' \in [Dates -> Row]
OBVIOUS

\* Every action keeps the types.
LEMMA TypeStep == ASSUME TypeOK, Next PROVE TypeOK'
<1>0. /\ day \in Nat /\ row \in [Dates -> Row] /\ kept \in [Dates -> Nat]
      /\ phase \in [Dates -> {"off", "run", "wrote", "done"}]
      /\ RunKeep \in Nat /\ CandidateKeep \in Nat
    BY KeepAssumption DEF TypeOK
<1>1. ASSUME NEW d \in Dates, Start(d) PROVE TypeOK'
    <2> DEFINE first == IF day >= kept[d] THEN "running" ELSE "pending"
    <2>1. first \in RunStatus
        BY DEF RunStatus
    <2>2. row' = [row EXCEPT ![d] = [NoRow EXCEPT !.status = first, !.created = day]]
        BY <1>1 DEF Start
    <2> HIDE DEF first
    <2>3. [NoRow EXCEPT !.status = first, !.created = day] \in Row
        BY <1>0, <2>1, NewRow
    <2>4. row' \in [Dates -> Row]
        BY <1>0, <2>2, <2>3, RowUpdate
    <2> QED BY <1>1, <2>4 DEF Start, TypeOK
<1>2. ASSUME NEW d \in Dates, Resume(d) PROVE TypeOK'
    <2>0. row[d] \in Row /\ "running" \in RunStatus
        BY <1>0 DEF RunStatus
    <2>1. /\ [row[d] EXCEPT !.status = "running"] \in Row
          /\ [NoRow EXCEPT !.status = "running", !.created = row[d].created] \in Row
        <3>1. row[d].created \in Nat
            BY <2>0 DEF Row
        <3>2. [row[d] EXCEPT !.status = "running"] \in Row
            BY <2>0 DEF Row
        <3> QED BY <2>0, <3>1, <3>2, NewRow
    <2>2. row' \in [Dates -> Row]
        BY <1>0, <1>2, <2>1 DEF Resume
    <2> QED BY <1>2, <2>2 DEF Resume, TypeOK
<1>3. ASSUME NEW d \in Dates, Collect(d) PROVE TypeOK'
    <2> PICK found \in SUBSET Items :
            row' = [row EXCEPT ![d] = [@ EXCEPT !.stage = 1, !.got = found,
                                                !.on = day]]
        BY <1>3 DEF Collect
    <2>1. row[d] \in Row /\ 1 \in 0..2
        BY <1>0
    <2>2. [row[d] EXCEPT !.stage = 1, !.got = found, !.on = day] \in Row
        BY <1>0, <2>1 DEF Row
    <2>3. row' \in [Dates -> Row]
        BY <1>0, <2>2
    <2> QED BY <1>3, <2>3 DEF Collect, TypeOK
<1>4. ASSUME NEW d \in Dates, Upsert(d) PROVE TypeOK'
    <2>1. row[d].on \in Nat
        BY <1>0 DEF Row
    <2>2. until' \in [Items -> Nat] /\ by' \in [Items -> Dates \cup {0}]
        BY <1>0, <1>4, <2>1 DEF Upsert, ExpiryAfter, TypeOK
    <2>3. phase' \in [Dates -> {"off", "run", "wrote", "done"}]
        BY <1>0, <1>4 DEF Upsert
    <2> QED BY <1>4, <2>2, <2>3 DEF Upsert, TypeOK
<1>5. ASSUME NEW d \in Dates, Normalize(d) PROVE TypeOK'
    <2>1. row[d] \in Row /\ 2 \in 0..2
        BY <1>0
    <2>2. [row[d] EXCEPT !.stage = 2] \in Row
        BY <2>1 DEF Row
    <2>3. row' = [row EXCEPT ![d] = [row[d] EXCEPT !.stage = 2]]
        BY <1>0, <1>5 DEF Normalize
    <2>4. /\ row' \in [Dates -> Row]
          /\ phase' \in [Dates -> {"off", "run", "wrote", "done"}]
        BY <1>0, <1>5, <2>2, <2>3 DEF Normalize
    <2> QED BY <1>5, <2>4 DEF Normalize, TypeOK
<1>6. ASSUME NEW d \in Dates, Publish(d) PROVE TypeOK'
    <2> PICK entries \in SUBSET row[d].got, outcome \in {"partial", "published", "failed"} :
            /\ edition' = [edition EXCEPT ![d] = PersistedOver(@, entries, outcome)]
            /\ row' = [row EXCEPT ![d].status = outcome]
            /\ IF outcome = "failed" THEN Ends(d)
               ELSE phase' = [phase EXCEPT ![d] = "done"] /\ UNCHANGED kept
        BY <1>6 DEF Publish
    <2>1. row[d] \in Row /\ outcome \in RunStatus
        BY <1>0 DEF RunStatus
    <2>2. [row[d] EXCEPT !.status = outcome] \in Row
        BY <2>1 DEF Row
    <2>3. row' = [row EXCEPT ![d] = [row[d] EXCEPT !.status = outcome]]
        BY <1>0
    <2>4. row' \in [Dates -> Row]
        BY <1>0, <2>2, <2>3
    <2>5. /\ phase' \in [Dates -> {"off", "run", "wrote", "done"}]
          /\ kept' \in [Dates -> Nat]
        BY <1>0 DEF Ends
    <2>6. entries \subseteq Items
        BY <2>1 DEF Row
    <2>7. edition' \in [Dates -> [status : {"none", "draft", "partial", "published"},
                                  entries : SUBSET Items]]
        BY <2>6 DEF TypeOK, PersistedOver, OverwrittenBy
    <2> QED BY <1>6, <2>4, <2>5, <2>7 DEF Publish, TypeOK
<1>7. ASSUME NEW d \in Dates, Fail(d) PROVE TypeOK'
    <2>1. row[d] \in Row /\ "retryable" \in RunStatus
        BY <1>0 DEF RunStatus
    <2>2. [row[d] EXCEPT !.status = "retryable"] \in Row
        BY <2>1 DEF Row
    <2>3. row' = row \/ row' = [row EXCEPT ![d] = [row[d] EXCEPT !.status = "retryable"]]
        BY <1>0, <1>7 DEF Fail
    <2>4. row' \in [Dates -> Row]
        BY <1>0, <2>2, <2>3
    <2>5. /\ phase' \in [Dates -> {"off", "run", "wrote", "done"}]
          /\ kept' \in [Dates -> Nat]
        BY <1>0, <1>7 DEF Fail, Ends
    <2> QED BY <1>7, <2>4, <2>5 DEF Fail, TypeOK
<1>8. ASSUME NEW d \in Dates, Prune(d) PROVE TypeOK'
    <2>1. NoRow \in Row
        BY DEF NoRow, Row, RunStatus
    <2>2. row' \in [Dates -> Row] /\ until' \in [Items -> Nat]
        BY <1>0, <1>8, <2>1 DEF Prune, TypeOK
    <2>3. /\ phase' \in [Dates -> {"off", "run", "wrote", "done"}]
          /\ kept' \in [Dates -> Nat]
        BY <1>0, <1>8 DEF Prune, Ends
    <2> QED BY <1>8, <2>2, <2>3 DEF Prune, TypeOK
<1>9. ASSUME NEW i \in Items, Rate(i) \/ Undo(i) PROVE TypeOK'
    BY <1>9 DEF Rate, Undo, TypeOK
<1>10. CASE NextDay
    BY <1>10 DEF NextDay, TypeOK
<1> QED BY <1>1, <1>2, <1>3, <1>4, <1>5, <1>6, <1>7, <1>8, <1>9, <1>10 DEF Next

\* Every action keeps the order of row and items, and the expiry.
LEMMA RunStep ==
    ASSUME IInv, Next, NEW e \in Dates
    PROVE  Precedes(e)' /\ Stands(e)'
<1>0. /\ day \in Nat /\ row \in [Dates -> Row] /\ until \in [Items -> Nat]
      /\ phase \in [Dates -> {"off", "run", "wrote", "done"}]
      /\ by \in [Items -> Dates \cup {0}]
      /\ RunKeep \in Nat /\ CandidateKeep \in Nat /\ RunKeep <= CandidateKeep
    BY KeepAssumption DEF IInv, TypeOK
<1>a. /\ row[e].created \in Nat /\ row[e].on \in Nat /\ row[e].got \subseteq Items
      /\ row[e].stage \in 0..2
    BY <1>0 DEF Row
<1>b. Precedes(e) /\ Stands(e)
    BY DEF IInv
\* A row that a step leaves alone, with its items and its execution.
<1>c. ASSUME row'[e] = row[e], phase'[e] = phase[e] \/ phase'[e] # "wrote",
             day' = day \/ day' = day + 1,
             \A i \in Items : by'[i] = e => by[i] = e /\ until'[i] = until[i]
      PROVE  Precedes(e)' /\ Stands(e)'
    BY <1>0, <1>a, <1>b, <1>c DEF Precedes, Stands, Stored
<1>1. ASSUME NEW d \in Dates, Start(d) PROVE Precedes(e)' /\ Stands(e)'
    <2>1. CASE e = d
        <3>1. /\ row'[e].created = day /\ row'[e].stage = 0
              /\ phase'[e] # "wrote" /\ day' = day
            BY <1>0, <1>1, <2>1 DEF Start, NoRow
        <3> QED BY <1>0, <3>1 DEF Precedes, Stands, Stored
    <2>2. CASE e # d
        BY <1>0, <1>1, <1>c, <2>2 DEF Start
    <2> QED BY <2>1, <2>2
<1>2. ASSUME NEW d \in Dates, Resume(d) PROVE Precedes(e)' /\ Stands(e)'
    <2>1. CASE e = d /\ row[e].status = "retryable"
        <3>1. /\ row'[e].created = row[e].created /\ row'[e].stage = row[e].stage
              /\ row'[e].on = row[e].on /\ row'[e].got = row[e].got
              /\ row'[e].status = "running" /\ phase'[e] = "run" /\ day' = day
              /\ by' = by /\ until' = until
            BY <1>0, <1>2, <2>1 DEF Resume, Row
        <3> QED BY <1>b, <3>1 DEF Precedes, Stands, Stored
    <2>2. CASE e = d /\ row[e].status # "retryable"
        <3>1. /\ row'[e].created = row[e].created /\ row'[e].stage = 0
              /\ phase'[e] = "run" /\ day' = day
            BY <1>0, <1>2, <2>2 DEF Resume, NoRow
        <3> QED BY <1>b, <3>1 DEF Precedes, Stands, Stored
    <2>3. CASE e # d
        BY <1>0, <1>2, <1>c, <2>3 DEF Resume
    <2> QED BY <2>1, <2>2, <2>3
<1>3. ASSUME NEW d \in Dates, Collect(d) PROVE Precedes(e)' /\ Stands(e)'
    <2>1. CASE e = d
        <3>1. /\ row'[e].created = row[e].created /\ row'[e].stage = 1
              /\ row'[e].on = day /\ row'[e].status = row[e].status
              /\ row[e].status # "none" /\ phase'[e] = "run" /\ day' = day
            BY <1>0, <1>3, <2>1 DEF Collect, Row
        <3> QED BY <1>b, <3>1 DEF Precedes, Stands, Stored
    <2>2. CASE e # d
        BY <1>0, <1>3, <1>c, <2>2 DEF Collect
    <2> QED BY <2>1, <2>2
<1>4. ASSUME NEW d \in Dates, Upsert(d) PROVE Precedes(e)' /\ Stands(e)'
    <2>0. /\ row' = row /\ day' = day
          /\ \A i \in Items : IF i \in row[d].got
                THEN by'[i] = d /\ until'[i] = row[d].on + CandidateKeep
                ELSE by'[i] = by[i] /\ until'[i] = until[i]
        BY <1>0, <1>4 DEF Upsert, ExpiryAfter
    <2>1. CASE e = d
        <3>1. phase'[e] = "wrote" /\ row[e].stage = 1
            BY <1>0, <1>4, <2>1 DEF Upsert
        <3>2. Precedes(e)'
            BY <1>b, <2>0, <3>1 DEF Precedes
        <3> QED BY <1>a, <2>0, <2>1, <3>2 DEF Stands
    <2>2. CASE e # d
        <3>1. phase'[e] = phase[e]
            BY <1>0, <1>4, <2>2 DEF Upsert
        <3> QED BY <1>c, <2>0, <2>2, <3>1
    <2> QED BY <2>1, <2>2
<1>5. ASSUME NEW d \in Dates, Normalize(d) PROVE Precedes(e)' /\ Stands(e)'
    <2>1. CASE e = d
        <3>1. /\ row'[e].created = row[e].created /\ row'[e].on = row[e].on
              /\ row'[e].got = row[e].got /\ row'[e].status = row[e].status
              /\ phase[e] = "wrote" /\ row[e].status # "none"
              /\ phase'[e] = "run" /\ day' = day /\ by' = by /\ until' = until
            BY <1>0, <1>5, <2>1 DEF Normalize, Row
        <3> QED BY <1>b, <3>1 DEF Precedes, Stands, Stored
    <2>2. CASE e # d
        BY <1>0, <1>5, <1>c, <2>2 DEF Normalize
    <2> QED BY <2>1, <2>2
<1>6. ASSUME NEW d \in Dates, Publish(d) \/ Fail(d) PROVE Precedes(e)' /\ Stands(e)'
    <2>0. day' = day /\ by' = by /\ until' = until
        BY <1>6 DEF Publish, Fail
    <2>1. CASE e = d
        <3>1. /\ row'[e].created = row[e].created /\ row'[e].on = row[e].on
              /\ row'[e].got = row[e].got /\ row'[e].stage = row[e].stage
              /\ row[e].status # "none" => row'[e].status # "none"
              /\ phase'[e] # "wrote"
            BY <1>0, <1>6, <2>1 DEF Publish, Fail, Ends, Row
        <3> QED BY <1>b, <2>0, <3>1 DEF Precedes, Stands, Stored
    <2>2. CASE e # d
        <3>1. row'[e] = row[e] /\ phase'[e] = phase[e]
            BY <1>0, <1>6, <2>2 DEF Publish, Fail, Ends
        <3> QED BY <1>c, <2>0, <3>1
    <2> QED BY <2>1, <2>2
<1>7. ASSUME NEW d \in Dates, Prune(d) PROVE Precedes(e)' /\ Stands(e)'
    <2>0. /\ day' = day /\ by' = by
          /\ phase'[e] = phase[e] \/ phase'[e] = "off"
        BY <1>0, <1>7 DEF Prune, Ends
    <2>1. CASE row'[e] = NoRow
        BY <1>0, <2>0, <2>1 DEF Precedes, Stands, Stored, NoRow
    <2>2. CASE row'[e] # NoRow
        <3>1. row'[e] = row[e]
            BY <1>0, <1>7, <2>2 DEF Prune
        <3>2. ASSUME NEW i \in Items, Stored(e), i \in row[e].got, by[i] = e
              PROVE  until'[i] = until[i]
            <4>1. until[i] = row[e].on + CandidateKeep
                BY <1>b, <3>2 DEF Stands
            <4>2. row[e].status # "none" /\ row[e].created <= row[e].on
                BY <1>b, <3>2 DEF Precedes, Stored
            <4>3. Expired(i) => OldRow(row[e])
                BY <1>0, <1>a, <4>1, <4>2 DEF Expired, OldRow
            <4> QED BY <1>0, <1>7, <2>2, <4>3 DEF Prune, Prunable
        <3>3. Stored(e)' => Stored(e)
            BY <2>0, <3>1 DEF Stored
        <3> QED BY <1>a, <1>b, <2>0, <3>1, <3>2, <3>3 DEF Precedes, Stands
    <2> QED BY <2>1, <2>2
<1>8. ASSUME NEW i \in Items, Rate(i) \/ Undo(i) PROVE Precedes(e)' /\ Stands(e)'
    BY <1>8, <1>c DEF Rate, Undo
<1>9. CASE NextDay
    BY <1>9, <1>c DEF NextDay
<1> QED BY <1>1, <1>2, <1>3, <1>4, <1>5, <1>6, <1>7, <1>8, <1>9 DEF Next

\* The invariant holds throughout.
LEMMA IInvariant == Spec => []IInv
<1>1. Init => IInv
    BY InitIInv
<1>2. IInv /\ [Next]_vars => IInv'
    <2> SUFFICES ASSUME IInv, [Next]_vars PROVE IInv'
        OBVIOUS
    <2>1. CASE Next
        <3>1. TypeOK'
            BY <2>1, TypeStep DEF IInv
        <3>2. \A d \in Dates : Precedes(d)' /\ Stands(d)'
            BY <2>1, RunStep
        <3> QED BY <3>1, <3>2 DEF IInv
    <2>2. CASE UNCHANGED vars
        BY <2>2 DEF vars, IInv, TypeOK, Precedes, Stands, Stored
    <2> QED BY <2>1, <2>2
<1> QED BY <1>1, <1>2, PTL DEF Spec

\* The variables keep to their types.
THEOREM StoreTypeCorrect == Spec => []TypeOK
<1>1. IInv => TypeOK
    BY DEF IInv
<1> QED BY <1>1, IInvariant, PTL

\* Retention leaves the items a resumable run has stored, when an item is kept at
\* least as long as a run and nobody else has written it since.
THEOREM StoreNormalizedItemsRemain == Spec => []NormalizedItemsRemain
<1>1. IInv => NormalizedItemsRemain
    <2> SUFFICES ASSUME IInv, NEW d \in Dates, row[d].stage = 2,
                        NEW i \in row[d].got, by[i] = d
                 PROVE  Present(i)
        BY DEF NormalizedItemsRemain
    <2>1. row[d].on \in Nat
        BY DEF IInv, TypeOK, Row
    <2>2. until[i] = row[d].on + CandidateKeep
        BY DEF IInv, Stands, Stored
    <2> QED BY <2>1, <2>2, KeepAssumption DEF Present
<1> QED BY <1>1, IInvariant, PTL

\* Retention is never blocked, and removes every run that has reached its age.
THEOREM StoreRetentionKeepsUp == Spec => RetentionKeepsUp
<1>1. IInv /\ [Next]_vars =>
        [\A d \in Dates : phase[d] = "done" /\ phase'[d] = "off" =>
            \A e \in Dates : ~ OldRow(row'[e])]_vars
    <2> SUFFICES ASSUME IInv, Next, NEW d \in Dates, NEW e \in Dates,
                        phase[d] = "done", phase'[d] = "off"
                 PROVE  ~ OldRow(row'[e])
        BY DEF vars
    <2>0. phase \in [Dates -> {"off", "run", "wrote", "done"}] /\ row \in [Dates -> Row]
        BY DEF IInv, TypeOK
    <2>1. PICK f \in Dates : Prune(f)
        <3>1. ASSUME NEW f \in Dates,
                     \/ Start(f) \/ Resume(f) \/ Collect(f) \/ Upsert(f)
                     \/ Normalize(f) \/ Publish(f) \/ Fail(f)
              PROVE  FALSE
            BY <2>0, <3>1 DEF Start, Resume, Collect, Upsert, Normalize, Publish,
                              Fail, Ends
        <3>2. ASSUME NEW i \in Items, Rate(i) \/ Undo(i) PROVE FALSE
            BY <3>2 DEF Rate, Undo
        <3>3. ~ NextDay
            BY DEF NextDay
        <3> QED BY <3>1, <3>2, <3>3 DEF Next
    <2>2. Prunable \cap Referenced = {}
        BY DEF Prunable
    <2>3. row'[e] = IF OldRow(row[e]) THEN NoRow ELSE row[e]
        BY <2>1, <2>2 DEF Prune
    <2> QED BY <2>3 DEF OldRow, NoRow
<1> QED BY <1>1, IInvariant, PTL DEF Spec, RetentionKeepsUp

\* No item is removed with the feedback on it.
THEOREM StoreFeedbackIsKept == Spec => FeedbackIsKept
<1>1. [Next]_vars => [\A i \in feedback \ feedback' : until'[i] = until[i]]_vars
    <2> SUFFICES ASSUME Next, NEW i \in feedback, i \notin feedback'
                 PROVE  until'[i] = until[i]
        BY DEF vars
    <2>1. ASSUME NEW d \in Dates,
                 \/ Start(d) \/ Resume(d) \/ Collect(d) \/ Upsert(d)
                 \/ Normalize(d) \/ Publish(d) \/ Fail(d)
          PROVE  FALSE
        BY <2>1 DEF Start, Resume, Collect, Upsert, Normalize, Publish, Fail
    <2>2. ASSUME NEW d \in Dates, Prune(d) PROVE FALSE
        BY <2>2 DEF Prune, Prunable
    <2>3. ASSUME NEW j \in Items, Rate(j) PROVE FALSE
        BY <2>3 DEF Rate
    <2>4. ASSUME NEW j \in Items, Undo(j) PROVE until' = until
        BY <2>4 DEF Undo
    <2>5. ~ NextDay
        BY DEF NextDay
    <2> QED BY <2>1, <2>2, <2>3, <2>4, <2>5 DEF Next
<1> QED BY <1>1, PTL DEF Spec, FeedbackIsKept

\* An edition that readers can see stays visible, and so does the latest.
THEOREM StoreLatestOnlyAdvances == Spec => LatestOnlyAdvances
<1>1. IInv /\ [Next]_vars =>
        [\A d \in Dates : Visible(edition[d]) =>
            \E e \in Dates : e >= d /\ Visible(edition'[e])]_vars
    <2> SUFFICES ASSUME IInv, Next, NEW d \in Dates, Visible(edition[d])
                 PROVE  d >= d /\ Visible(edition'[d])
        BY DEF vars
    <2>0. d >= d
        BY KeepAssumption
    <2>1. ASSUME NEW f \in Dates, Publish(f) PROVE Visible(edition'[d])
        <3>1. \E entries \in SUBSET row[f].got,
                 outcome \in {"partial", "published", "failed"} :
                 edition' = [edition EXCEPT ![f] = PersistedOver(@, entries, outcome)]
            BY <2>1 DEF Publish
        <3> QED BY <3>1 DEF IInv, TypeOK, PersistedOver, OverwrittenBy, Visible
    <2>2. ASSUME NEW f \in Dates,
                 \/ Start(f) \/ Resume(f) \/ Collect(f) \/ Upsert(f)
                 \/ Normalize(f) \/ Fail(f) \/ Prune(f)
          PROVE  edition' = edition
        BY <2>2 DEF Start, Resume, Collect, Upsert, Normalize, Fail, Prune
    <2>3. ASSUME NEW i \in Items, Rate(i) \/ Undo(i) PROVE edition' = edition
        BY <2>3 DEF Rate, Undo
    <2>4. NextDay => edition' = edition
        BY DEF NextDay
    <2> QED BY <2>0, <2>1, <2>2, <2>3, <2>4 DEF Next
<1> QED BY <1>1, IInvariant, PTL DEF Spec, LatestOnlyAdvances

----------------------------------------------------------------------------
(* The groups of papers.                                                     *)

IsRowJoins(g, start, items, i) ==
    g = [n \in 0 .. Len(items) - i |-> IF n = 0 THEN start ELSE JoinMatch(g[n - 1], items, i, i + n)]
RowJoins(f, S, start, items, i, result) ==
    /\ f \in [0 .. Len(items) - i -> S] /\ f[0] = start /\ result = f[Len(items) - i]
    /\ \A n \in 1 .. Len(items) - i : f[n] = JoinMatch(f[n - 1], items, i, i + n)

\* The items that follow are joined one after the other.
LEMMA RowJoinsIs ==
    ASSUME NEW S, NEW start \in S, NEW items, NEW i,
           Len(items) - i \in Nat,
           \A x \in S, n \in 1 .. Len(items) - i : JoinMatch(x, items, i, i + n) \in S
    PROVE  \E f : RowJoins(f, S, start, items, i, JoinRow(start, items, i))
<1> DEFINE N == Len(items) - i
           next(x, n) == JoinMatch(x, items, i, i + n)
           step == [x \in S \X (1 .. N) |-> next(x[1], x[2])]
<1>0. N \in Nat /\ \A x \in S, n \in 1 .. N : next(x, n) \in S
    OBVIOUS
<1> HIDE DEF next
<1>1. step \in [S \X (1 .. N) -> S]
    BY <1>0
<1>2. PICK f : IsIteration(f, S, start, N, step)
    <2> HIDE DEF step, N
    <2> QED
        BY <1>0, <1>1, Iterates, Zenon
<1>3. \A n \in 1 .. N : f[n] = next(f[n - 1], n)
    <2> TAKE n \in 1 .. N
    <2> HIDE DEF step, N
    <2>0. f \in [0 .. N -> S] /\ f[n] = step[<<f[n - 1], n>>] /\ n - 1 \in 0 .. N
        BY <1>0, <1>2 DEF IsIteration
    <2>1. f[n - 1] \in S /\ f[n] = step[<<f[n - 1], n>>]
        BY <2>0
    <2> USE DEF step
    <2> QED
        BY <2>1
<1>4. IsRowJoins(f, start, items, i)
    <2>1. f = [n \in 0 .. N |-> f[n]] /\ f[0] = start
        BY <1>2 DEF IsIteration
    <2> HIDE DEF N
    <2>2. \A n \in 0 .. N : n = 0 \/ n \in 1 .. N
        BY <1>0
    <2>3. \A n \in 0 .. N : f[n] = IF n = 0 THEN start ELSE next(f[n - 1], n)
        BY <1>3, <2>1, <2>2
    <2> USE DEF N
    <2> QED
        BY <2>1, <2>3 DEF IsRowJoins, next
<1> DEFINE h == CHOOSE g : IsRowJoins(g, start, items, i)
<1>5. IsRowJoins(h, start, items, i)
    BY <1>4, Zenon
<1>6. JoinRow(start, items, i) = h[N]
    BY DEF JoinRow, IsRowJoins
<1> HIDE DEF h
<1>7. /\ h = [n \in 0 .. N |-> h[n]] /\ h[0] = start
      /\ \A n \in 1 .. N : h[n] = next(h[n - 1], n)
    <2>1. h = [n \in 0 .. N |-> IF n = 0 THEN start ELSE next(h[n - 1], n)]
        BY <1>5 DEF IsRowJoins, next
    <2> HIDE DEF N
    <2>2. 0 \in 0 .. N /\ \A n \in 1 .. N : n \in 0 .. N /\ n # 0
        BY <1>0
    <2>3. /\ h[0] = start
          /\ \A n \in 1 .. N : h[n] = next(h[n - 1], n)
        BY <2>1, <2>2
    <2>4. h = [n \in 0 .. N |-> h[n]]
        BY <2>1
    <2> QED
        BY <2>3, <2>4
<1> DEFINE P == {m \in 0 .. N : h[m] \in S}
<1>8. 0 \in P
    BY <1>0, <1>7
<1>9. ASSUME NEW n \in 1 .. N, n - 1 \in P PROVE n \in P
    <2>1. h[n - 1] \in S /\ n \in 0 .. N
        BY <1>0, <1>9
    <2>2. next(h[n - 1], n) \in S
        BY <1>0, <2>1
    <2> QED
        BY <1>7, <2>1, <2>2
<1>10. \A n \in 0 .. N : h[n] \in S
    <2> HIDE DEF P, N
    <2>1. \A n \in 0 .. N : n \in P
        BY <1>0, <1>8, <1>9, Reaches
    <2> QED
        BY <2>1 DEF P
<1>11. h \in [0 .. N -> S]
    BY <1>7, <1>10
<1> QED
    BY <1>6, <1>7, <1>11 DEF RowJoins, next

IsAllJoins(g, items) ==
    g = [n \in 0 .. Len(items) |-> IF n = 0 THEN AllAlone(items) ELSE JoinRow(g[n - 1], items, n)]
AllJoins(f, S, items, result) ==
    /\ f \in [0 .. Len(items) -> S] /\ f[0] = AllAlone(items) /\ result = f[Len(items)]
    /\ \A n \in 1 .. Len(items) : f[n] = JoinRow(f[n - 1], items, n)

\* The items are joined one after the other.
LEMMA AllJoinsIs ==
    ASSUME NEW S, NEW items, AllAlone(items) \in S,
           Len(items) \in Nat,
           \A x \in S, n \in 1 .. Len(items) : JoinRow(x, items, n) \in S
    PROVE  \E f : AllJoins(f, S, items, JoinRows(items))
<1> DEFINE N == Len(items)
           next(x, n) == JoinRow(x, items, n)
           step == [x \in S \X (1 .. N) |-> next(x[1], x[2])]
<1>0. N \in Nat /\ \A x \in S, n \in 1 .. N : next(x, n) \in S
    OBVIOUS
<1> HIDE DEF next
<1>1. step \in [S \X (1 .. N) -> S]
    BY <1>0
<1>2. PICK f : IsIteration(f, S, AllAlone(items), N, step)
    <2> HIDE DEF step, N
    <2> QED
        BY <1>0, <1>1, Iterates, Zenon
<1>3. \A n \in 1 .. N : f[n] = next(f[n - 1], n)
    <2> TAKE n \in 1 .. N
    <2> HIDE DEF step, N
    <2>0. f \in [0 .. N -> S] /\ f[n] = step[<<f[n - 1], n>>] /\ n - 1 \in 0 .. N
        BY <1>0, <1>2 DEF IsIteration
    <2>1. f[n - 1] \in S /\ f[n] = step[<<f[n - 1], n>>]
        BY <2>0
    <2> USE DEF step
    <2> QED
        BY <2>1
<1>4. IsAllJoins(f, items)
    <2>1. f = [n \in 0 .. N |-> f[n]] /\ f[0] = AllAlone(items)
        BY <1>2 DEF IsIteration
    <2> HIDE DEF N
    <2>2. \A n \in 0 .. N : n = 0 \/ n \in 1 .. N
        BY <1>0
    <2>3. \A n \in 0 .. N : f[n] = IF n = 0 THEN AllAlone(items) ELSE next(f[n - 1], n)
        BY <1>3, <2>1, <2>2
    <2> USE DEF N
    <2> QED
        BY <2>1, <2>3 DEF IsAllJoins, next
<1> DEFINE h == CHOOSE g : IsAllJoins(g, items)
<1>5. IsAllJoins(h, items)
    BY <1>4, Zenon
<1>6. JoinRows(items) = h[N]
    BY DEF JoinRows, IsAllJoins
<1> HIDE DEF h
<1>7. /\ h = [n \in 0 .. N |-> h[n]] /\ h[0] = AllAlone(items)
      /\ \A n \in 1 .. N : h[n] = next(h[n - 1], n)
    <2>1. h = [n \in 0 .. N |-> IF n = 0 THEN AllAlone(items) ELSE next(h[n - 1], n)]
        BY <1>5 DEF IsAllJoins, next
    <2> HIDE DEF N
    <2>2. 0 \in 0 .. N /\ \A n \in 1 .. N : n \in 0 .. N /\ n # 0
        BY <1>0
    <2>3. /\ h[0] = AllAlone(items)
          /\ \A n \in 1 .. N : h[n] = next(h[n - 1], n)
        BY <2>1, <2>2
    <2>4. h = [n \in 0 .. N |-> h[n]]
        BY <2>1
    <2> QED
        BY <2>3, <2>4
<1> DEFINE P == {m \in 0 .. N : h[m] \in S}
<1>8. 0 \in P
    BY <1>0, <1>7
<1>9. ASSUME NEW n \in 1 .. N, n - 1 \in P PROVE n \in P
    <2>1. h[n - 1] \in S /\ n \in 0 .. N
        BY <1>0, <1>9
    <2>2. next(h[n - 1], n) \in S
        BY <1>0, <2>1
    <2> QED
        BY <1>7, <2>1, <2>2
<1>10. \A n \in 0 .. N : h[n] \in S
    <2> HIDE DEF P, N
    <2>1. \A n \in 0 .. N : n \in P
        BY <1>0, <1>8, <1>9, Reaches
    <2> QED
        BY <2>1 DEF P
<1>11. h \in [0 .. N -> S]
    BY <1>7, <1>10
<1> QED
    BY <1>6, <1>7, <1>11 DEF AllJoins, next

(* A class of the roots, and what the identities recorded for it are.        *)
ClassOf(roots, r) == {k \in DOMAIN roots : roots[k] = r}
Having(items, class, f) == {k \in class : items[k].ids[f] # {}}
IdsOf(items, class, f) == UNION {items[k].ids[f] : k \in class}
IsLinked(items, class, f) ==
    \A part \in SUBSET Having(items, class, f) :
        part # {} /\ part # Having(items, class, f) =>
            \E i \in part, j \in Having(items, class, f) \ part : Shared(items[i].ids, items[j].ids, f)
ClassHolds(groups, items, r) ==
    LET class == ClassOf(groups.roots, r)
    IN  class # {} => \A f \in IdFamilies : /\ groups.ids[r][f] = IdsOf(items, class, f)
                                            /\ IsLinked(items, class, f)

\* Two linked classes with a common identifier are linked, and so are two of
\* which one has none.
LEMMA TwoAreLinked ==
    ASSUME NEW items, NEW A, NEW B, NEW f, IsLinked(items, A, f), IsLinked(items, B, f),
           \/ IdsOf(items, A, f) = {} \/ IdsOf(items, B, f) = {}
           \/ IdsOf(items, A, f) \cap IdsOf(items, B, f) # {}
    PROVE  IsLinked(items, A \cup B, f)
<1> DEFINE HA == Having(items, A, f)
           HB == Having(items, B, f)
           H == Having(items, A \cup B, f)
           linked(i, j) == Shared(items[i].ids, items[j].ids, f)
<1>1. H = HA \cup HB
    BY DEF Having
<1>2. /\ \A part \in SUBSET HA : part # {} /\ part # HA => \E i \in part, j \in HA \ part : linked(i, j)
      /\ \A part \in SUBSET HB : part # {} /\ part # HB => \E i \in part, j \in HB \ part : linked(i, j)
    BY DEF IsLinked
<1>3. \A i, j : linked(i, j) => linked(j, i)
    BY DEF Shared
<1>4. HA # {} /\ HB # {} => \E i \in HA, j \in HB : linked(i, j)
    <2> SUFFICES ASSUME HA # {}, HB # {} PROVE \E i \in HA, j \in HB : linked(i, j)
        OBVIOUS
    <2>1. IdsOf(items, A, f) # {} /\ IdsOf(items, B, f) # {}
        BY DEF IdsOf, Having
    <2>2. PICK x : x \in IdsOf(items, A, f) /\ x \in IdsOf(items, B, f)
        BY <2>1
    <2>3. PICK i \in A, j \in B : x \in items[i].ids[f] /\ x \in items[j].ids[f]
        BY <2>2 DEF IdsOf
    <2>4. i \in HA /\ j \in HB /\ linked(i, j)
        BY <2>3 DEF Having, Shared
    <2> HIDE DEF HA, HB, linked
    <2> QED
        BY <2>4
<1> HIDE DEF HA, HB, linked
<1>5. ASSUME NEW part \in SUBSET H, part # {}, part # H
      PROVE  \E i \in part, j \in H \ part : linked(i, j)
    <2> HIDE DEF H
    <2>1. CASE part \cap HA # {} /\ part \cap HA # HA
        <3>1. \E i \in part \cap HA, j \in HA \ (part \cap HA) : linked(i, j)
            BY <1>2, <2>1
        <3> QED
            BY <1>1, <3>1
    <2>2. CASE part \cap HB # {} /\ part \cap HB # HB
        <3>1. \E i \in part \cap HB, j \in HB \ (part \cap HB) : linked(i, j)
            BY <1>2, <2>2
        <3> QED
            BY <1>1, <3>1
    <2>3. CASE /\ part \cap HA = {} \/ part \cap HA = HA
               /\ part \cap HB = {} \/ part \cap HB = HB
        <3>1. \/ HA \subseteq part /\ part \cap HB = {} /\ HA # {} /\ HB # {}
              \/ HB \subseteq part /\ part \cap HA = {} /\ HA # {} /\ HB # {}
            BY <1>1, <1>5, <2>3
        <3>2. PICK i \in HA, j \in HB : linked(i, j)
            BY <1>4, <3>1
        <3>3. linked(j, i)
            BY <1>3, <3>2
        <3> QED
            BY <1>1, <3>1, <3>2, <3>3
    <2> QED
        BY <2>1, <2>2, <2>3
<1> QED
    BY <1>5 DEF IsLinked, H, linked

(* What the union of the roots keeps, as a set of states to recur over.      *)
KnownIds(items) == UNION {items[n].ids[f] : n \in DOMAIN items, f \in IdFamilies}
IdMaps(items) == {items[n].ids : n \in DOMAIN items} \cup [IdFamilies -> SUBSET KnownIds(items)]
SoundGroups(items) ==
    {g \in [roots : [DOMAIN items -> DOMAIN items], ids : [DOMAIN items -> IdMaps(items)]] :
        \A r \in DOMAIN items : ClassHolds(g, items, r)}

LEMMA AloneIsSound == ASSUME NEW items PROVE AllAlone(items) \in SoundGroups(items)
<1> DEFINE g == AllAlone(items)
<1>1. g.roots = [i \in DOMAIN items |-> i] /\ g.ids = [i \in DOMAIN items |-> items[i].ids]
      /\ g = [roots |-> g.roots, ids |-> g.ids]
    BY DEF AllAlone, Alone
<1> HIDE DEF g
<1>2. g \in [roots : [DOMAIN items -> DOMAIN items], ids : [DOMAIN items -> IdMaps(items)]]
    <2>1. g.roots \in [DOMAIN items -> DOMAIN items]
        BY <1>1
    <2>2. g.ids \in [DOMAIN items -> IdMaps(items)]
        BY <1>1 DEF IdMaps
    <2> QED
        BY <1>1, <2>1, <2>2
<1>3. ASSUME NEW r \in DOMAIN items PROVE ClassHolds(g, items, r)
    <2>1. ClassOf(g.roots, r) = {r}
        BY <1>1 DEF ClassOf
    <2>2. \A f : IdsOf(items, {r}, f) = items[r].ids[f]
        BY DEF IdsOf
    <2>3. \A f : IsLinked(items, {r}, f)
        BY DEF IsLinked, Having
    <2>4. g.ids[r] = items[r].ids
        BY <1>1
    <2> QED
        BY <2>1, <2>2, <2>3, <2>4 DEF ClassHolds
<1> QED
    BY <1>2, <1>3 DEF SoundGroups, g

LEMMA MatchIsSound ==
    ASSUME NEW items, NEW g \in SoundGroups(items), NEW i \in DOMAIN items, NEW j \in DOMAIN items,
           DOMAIN items \subseteq Int
    PROVE  JoinMatch(g, items, i, j) \in SoundGroups(items)
<1> DEFINE D == DOMAIN items
           roots == g.roots
           a == roots[i]
           b == roots[j]
           low == Lower(a, b)
           left == g.ids[a]
           right == g.ids[b]
           new == [roots |-> Join(roots, i, j), ids |-> [g.ids EXCEPT ![low] = Joined(left, right)]]
<1>1. /\ g = [roots |-> g.roots, ids |-> g.ids] /\ roots \in [D -> D] /\ g.ids \in [D -> IdMaps(items)]
      /\ \A r \in D : ClassHolds(g, items, r)
    BY DEF SoundGroups
<1>2. a \in D /\ b \in D /\ low \in {a, b} /\ left \in IdMaps(items) /\ right \in IdMaps(items)
    BY <1>1 DEF Lower
<1>3. SUFFICES ASSUME a # b, ~Conflict(left, right) PROVE new \in SoundGroups(items)
    BY DEF JoinMatch
<1> HIDE DEF left, right, low
<1>4. /\ new.roots = [k \in D |-> IF roots[k] \in {a, b} THEN low ELSE roots[k]]
      /\ new.ids = [g.ids EXCEPT ![low] = Joined(left, right)]
    BY <1>1 DEF Join, low
<1>5. new.roots \in [D -> D]
    BY <1>1, <1>2, <1>4
<1>6. Joined(left, right) \in IdMaps(items)
    <2>1. \A m \in IdMaps(items), f \in IdFamilies : m[f] \subseteq KnownIds(items)
        <3> TAKE m \in IdMaps(items), f \in IdFamilies
        <3>1. CASE m \in [IdFamilies -> SUBSET KnownIds(items)]
            BY <3>1
        <3>2. CASE m \in {items[n].ids : n \in DOMAIN items}
            BY <3>2 DEF KnownIds
        <3> QED
            BY <3>1, <3>2 DEF IdMaps
    <2>2. \A f \in IdFamilies : left[f] \cup right[f] \in SUBSET KnownIds(items)
        BY <1>2, <2>1
    <2>3. Joined(left, right) \in [IdFamilies -> SUBSET KnownIds(items)]
        BY <2>2 DEF Joined
    <2> QED
        BY <2>3 DEF IdMaps
<1>7. new.ids \in [D -> IdMaps(items)]
    BY <1>1, <1>4, <1>6
<1>8. new \in [roots : [D -> D], ids : [D -> IdMaps(items)]]
    <2>1. new = [roots |-> new.roots, ids |-> new.ids]
        OBVIOUS
    <2> HIDE DEF new
    <2> QED
        BY <1>5, <1>7, <2>1
<1> HIDE DEF new
<1> DEFINE A == ClassOf(roots, a)
           B == ClassOf(roots, b)
<1>9. /\ ClassOf(new.roots, low) = A \cup B
      /\ \A r \in D : r \notin {a, b} => ClassOf(new.roots, r) = ClassOf(roots, r)
      /\ \A r \in {a, b} : r # low => ClassOf(new.roots, r) = {}
    <2>1. DOMAIN new.roots = D /\ DOMAIN roots = D
        BY <1>1, <1>5
    <2> HIDE DEF a, b
    <2> QED
        BY <1>2, <1>4, <2>1 DEF ClassOf
<1>10. i \in A /\ j \in B
    BY <1>1 DEF ClassOf
<1>11. /\ \A f \in IdFamilies : left[f] = IdsOf(items, A, f) /\ IsLinked(items, A, f)
       /\ \A f \in IdFamilies : right[f] = IdsOf(items, B, f) /\ IsLinked(items, B, f)
    <2>1. ClassHolds(g, items, a) /\ ClassHolds(g, items, b) /\ A # {} /\ B # {}
        BY <1>1, <1>2, <1>10
    <2> HIDE DEF a, b
    <2> QED
        BY <2>1 DEF ClassHolds, left, right
<1> HIDE DEF a, b, A, B
<1>12. ASSUME NEW f \in IdFamilies PROVE IsLinked(items, A \cup B, f)
    <2>1. left[f] = {} \/ right[f] = {} \/ left[f] \cap right[f] # {}
        BY <1>3 DEF Conflict, Disjoint, Shared
    <2> QED
        BY <1>11, <2>1, TwoAreLinked
<1>13. ASSUME NEW f \in IdFamilies PROVE new.ids[low][f] = IdsOf(items, A \cup B, f)
    <2>1. new.ids[low] = Joined(left, right)
        BY <1>1, <1>2, <1>4
    <2>2. new.ids[low][f] = left[f] \cup right[f]
        BY <2>1 DEF Joined
    <2>3. IdsOf(items, A \cup B, f) = IdsOf(items, A, f) \cup IdsOf(items, B, f)
        BY DEF IdsOf
    <2> QED
        BY <1>11, <2>2, <2>3
<1>14. ASSUME NEW r \in D PROVE ClassHolds(new, items, r)
    <2>1. CASE r = low
        BY <1>9, <1>12, <1>13, <2>1 DEF ClassHolds
    <2>2. CASE r \in {a, b} /\ r # low
        BY <1>9, <2>2 DEF ClassHolds
    <2>3. CASE r \notin {a, b}
        <3>1. ClassHolds(g, items, r) /\ ClassOf(new.roots, r) = ClassOf(roots, r)
            BY <1>1, <1>9, <2>3
        <3>2. new.ids[r] = g.ids[r]
            BY <1>1, <1>2, <1>4, <2>3
        <3> QED
            BY <3>1, <3>2 DEF ClassHolds
    <2> QED
        BY <2>1, <2>2, <2>3
<1> QED
    BY <1>8, <1>14 DEF SoundGroups

\* However many pairs are compared, the classes stay linked.
LEMMA JoinsAreSound == ASSUME NEW items, IsList(items) PROVE JoinRows(items) \in SoundGroups(items)
<1> DEFINE S == SoundGroups(items)
           N == Len(items)
<1>1. N \in Nat /\ DOMAIN items = 1 .. N /\ DOMAIN items \subseteq Int
    BY DEF IsList
<1>2. ASSUME NEW x \in S, NEW i \in 1 .. N PROVE JoinRow(x, items, i) \in S
    <2>1. N - i \in Nat
        BY <1>1
    <2>2. ASSUME NEW y \in S, NEW n \in 1 .. N - i PROVE JoinMatch(y, items, i, i + n) \in S
        <3>1. i \in DOMAIN items /\ i + n \in DOMAIN items
            BY <1>1
        <3> HIDE DEF N
        <3> QED
            BY <1>1, <3>1, MatchIsSound
    <2>3. PICK f : RowJoins(f, S, x, items, i, JoinRow(x, items, i))
        <3> HIDE DEF S
        <3> QED
            BY <2>1, <2>2, RowJoinsIs
    <2>4. N - i \in 0 .. N - i
        BY <2>1
    <2> HIDE DEF S
    <2> QED
        BY <2>3, <2>4 DEF RowJoins
<1>3. AllAlone(items) \in S
    BY AloneIsSound
<1> HIDE DEF S
<1>4. PICK f : AllJoins(f, S, items, JoinRows(items))
    BY <1>1, <1>2, <1>3, AllJoinsIs
<1>5. N \in 0 .. N
    BY <1>1
<1>6. JoinRows(items) \in S
    BY <1>4, <1>5 DEF AllJoins
<1> QED
    BY <1>6 DEF S

(* GroupsAreOnePaper: what is said of the members of a group, from what is   *)
(* known of its places.                                                      *)
OnePaper(members, f) ==
    LET having == {i \in members : i.ids[f] # {}} IN
    \A part \in SUBSET having :
        part # {} /\ part # having =>
            \E i \in part, j \in having \ part : Shared(i.ids, j.ids, f)

LEMMA GroupsAreLinked ==
    ASSUME NEW items, IsList(items)
    PROVE  \A g \in GroupByResearchIdentity(items), f \in IdFamilies : OnePaper({items[i] : i \in g}, f)
<1> DEFINE end == JoinRows(items)
<1>1. end \in SoundGroups(items)
    BY JoinsAreSound
<1> HIDE DEF end
<1>2. end.roots \in [DOMAIN items -> DOMAIN items] /\ \A r \in DOMAIN items : ClassHolds(end, items, r)
    BY <1>1 DEF SoundGroups
<1>3. SUFFICES ASSUME NEW g \in GroupsOf(end.roots), NEW f \in IdFamilies
               PROVE  OnePaper({items[i] : i \in g}, f)
    BY DEF GroupByResearchIdentity, end
<1>4. PICK r \in DOMAIN items : g = ClassOf(end.roots, r) /\ g # {}
    BY <1>2 DEF GroupsOf, ClassOf
<1>5. IsLinked(items, g, f)
    BY <1>2, <1>4 DEF ClassHolds
<1> DEFINE members == {items[i] : i \in g}
           having == {i \in members : i.ids[f] # {}}
<1>6. ASSUME NEW part \in SUBSET having, part # {}, part # having
      PROVE  \E i \in part, j \in having \ part : Shared(i.ids, j.ids, f)
    <2> DEFINE H == Having(items, g, f)
               P == {k \in H : items[k] \in part}
    <2>1. /\ \A k \in H : items[k] \in having
          /\ \A i \in having : \E k \in H : items[k] = i
        BY DEF Having
    <2> HIDE DEF H, having
    <2>2. P \in SUBSET H /\ P # {} /\ P # H
        BY <1>6, <2>1
    <2>3. PICK k \in P, l \in H \ P : Shared(items[k].ids, items[l].ids, f)
        BY <1>5, <2>2 DEF IsLinked, H
    <2>4. items[k] \in part /\ items[l] \in having \ part
        BY <2>1, <2>3
    <2> QED
        BY <2>3, <2>4
<1> HIDE DEF having
<1>7. OnePaper(members, f)
    BY <1>6 DEF OnePaper, having
<1> QED
    BY <1>7

(* The list of one kind has all items of that kind.                          *)
IsKind(s, items, c) ==
    /\ IsList(s)
    /\ \A n \in DOMAIN s : \E m \in DOMAIN items : items[m].commentary = c /\ s[n] = items[m]
    /\ \A m \in DOMAIN items : items[m].commentary = c => \E n \in DOMAIN s : s[n] = items[m]
LEMMA OfKindIsAll ==
    ASSUME NEW items, IsList(items), NEW c PROVE IsKind(OfKind(items, c), items, c)
<1> DEFINE places == {n \in DOMAIN items : items[n].commentary = c}
           b == [n \in places |-> {m \in places : m < n}]
           N == Cardinality(places)
           t == SortedBy(places, b)
           s == OfKind(items, c)
<1>1. Len(items) \in Nat /\ DOMAIN items = 1 .. Len(items)
    BY DEF IsList
<1>2. places \subseteq 1 .. Len(items) /\ \A n \in places : n \in Int
    BY <1>1
<1>3. IsFiniteSet(places) /\ N \in Nat
    <2>1. IsFiniteSet(1 .. Len(items))
        BY <1>1, FS_Interval
    <2> HIDE DEF places
    <2> QED
        BY <1>2, <2>1, FS_Subset, FS_CardinalityType
<1>4. \A n \in places : items[n].commentary = c /\ n \in DOMAIN items
    OBVIOUS
<1>5. \A n \in DOMAIN items : items[n].commentary = c => n \in places
    OBVIOUS
<1>6. s = [k \in 1 .. N |-> items[CHOOSE n \in places : Cardinality({m \in places : m < n}) = k - 1]]
    BY DEF OfKind
<1> HIDE DEF places, s
<1>9. \A n \in places : b[n] = {m \in places : m < n}
    OBVIOUS
<1>7. Ordering(places, b)
    <2>1. b \in [places -> SUBSET places]
        OBVIOUS
    <2> HIDE DEF b
    <2>2. \A m, n \in places : m \in b[n] <=> m < n
        BY <1>9
    <2>3. /\ \A i \in places : i \notin b[i]
          /\ \A i, j \in places : i # j => i \in b[j] \/ j \in b[i]
        BY <1>2, <2>2
    <2>4. \A i, j \in places : j \in b[i] => b[j] \subseteq b[i]
        <3> TAKE i, j \in places
        <3> HAVE j \in b[i]
        <3>1. ASSUME NEW k \in b[j] PROVE k \in b[i]
            <4>1. k \in places /\ b[j] \subseteq places
                BY <2>1
            <4> QED
                BY <1>2, <2>2, <3>1, <4>1
        <3> QED
            BY <3>1
    <2> QED
        BY <1>3, <2>1, <2>3, <2>4 DEF Ordering
<1>8. IsSorting(t, places, b)
    BY <1>7, SortingIsAll
<1>10. t = [k \in 1 .. N |-> CHOOSE n \in places : Cardinality(b[n]) = k - 1]
    BY DEF SortedBy
<1> HIDE DEF b, t
<1>11. \A k \in 1 .. N : s[k] = items[t[k]]
    <2> DEFINE p(k) == CHOOSE n \in places : Cardinality({m \in places : m < n}) = k - 1
               q(k) == CHOOSE n \in places : Cardinality(b[n]) = k - 1
    <2>1. \A k : p(k) = q(k)
        BY <1>9
    <2>2. \A k \in 1 .. N : s[k] = items[p(k)] /\ t[k] = q(k)
        BY <1>6, <1>10
    <2> HIDE DEF p, q
    <2> QED
        BY <2>1, <2>2
<1>12. Len(s) = N /\ DOMAIN s = 1 .. N
    <2> HIDE DEF N
    <2> QED
        BY <1>3, <1>6
<1>13. /\ \A k \in 1 .. N : t[k] \in places
       /\ \A n \in places : \E k \in 1 .. N : t[k] = n
    <2>1. t \in Seq(places) /\ Len(t) = N /\ \A n \in places : \E k \in 1 .. Len(t) : t[k] = n
        BY <1>8 DEF IsSorting
    <2> HIDE DEF N
    <2> QED
        BY <2>1
<1> HIDE DEF N
<1>14. IsList(s)
    BY <1>3, <1>12 DEF IsList
<1>15. \A n \in DOMAIN s : \E m \in DOMAIN items : items[m].commentary = c /\ s[n] = items[m]
    BY <1>4, <1>11, <1>12, <1>13
<1>16. \A m \in DOMAIN items : items[m].commentary = c => \E n \in DOMAIN s : s[n] = items[m]
    <2> TAKE m \in DOMAIN items
    <2> HAVE items[m].commentary = c
    <2>1. PICK k \in 1 .. N : t[k] = m
        BY <1>5, <1>13
    <2> QED
        BY <1>11, <1>12, <2>1
<1> QED
    BY <1>14, <1>15, <1>16 DEF IsKind, s

(* Every place is in one group. *)
LEMMA GroupsCover ==
    ASSUME NEW items, IsList(items)
    PROVE  /\ \A i \in DOMAIN items : \E g \in GroupByResearchIdentity(items) : i \in g
           /\ \A g \in GroupByResearchIdentity(items) : g # {} /\ g \subseteq DOMAIN items
<1> DEFINE end == JoinRows(items)
<1>1. end \in SoundGroups(items)
    BY JoinsAreSound
<1> HIDE DEF end
<1>2. end.roots \in [DOMAIN items -> DOMAIN items]
    BY <1>1 DEF SoundGroups
<1>3. GroupByResearchIdentity(items) = GroupsOf(end.roots)
    BY DEF GroupByResearchIdentity, end
<1>4. \A i \in DOMAIN items : i \in {k \in DOMAIN end.roots : end.roots[k] = end.roots[i]}
    BY <1>2
<1>5. \A i \in DOMAIN items :
         {k \in DOMAIN end.roots : end.roots[k] = end.roots[i]} \in GroupsOf(end.roots)
    BY <1>2 DEF GroupsOf
<1>6. \A g \in GroupsOf(end.roots) : g # {} /\ g \subseteq DOMAIN items
    BY <1>2 DEF GroupsOf
<1> QED
    BY <1>3, <1>4, <1>5, <1>6

(* What is above: the first place where two lists of numbers differ decides. *)
LEMMA AboveTransitive ==
    ASSUME NEW N \in Nat, NEW a \in [1 .. N -> Int], NEW b \in [1 .. N -> Int],
           NEW c \in [1 .. N -> Int], Above(a, b), Above(b, c)
    PROVE  Above(a, c)
<1>1. PICK m \in 1 .. N : a[m] > b[m] /\ \A k \in 1 .. m - 1 : a[k] = b[k]
    BY DEF Above
<1>2. PICK n \in 1 .. N : b[n] > c[n] /\ \A k \in 1 .. n - 1 : b[k] = c[k]
    BY DEF Above
<1>3. PICK l \in 1 .. N : (l = m /\ m <= n) \/ (l = n /\ n <= m)
    <2>1. m <= n \/ n <= m
        OBVIOUS
    <2> QED
        BY <2>1, Zenon
<1>4. /\ \A k \in 1 .. l - 1 : k \in 1 .. m - 1 /\ k \in 1 .. n - 1
      /\ l < m => l \in 1 .. m - 1
      /\ l < n => l \in 1 .. n - 1
    BY <1>3
<1>5. \A k \in 1 .. l - 1 : a[k] = c[k]
    BY <1>1, <1>2, <1>4
<1>6. /\ a[l] > b[l] \/ a[l] = b[l]
      /\ b[l] > c[l] \/ b[l] = c[l]
      /\ a[l] > b[l] \/ b[l] > c[l]
    BY <1>1, <1>2, <1>3, <1>4
<1>7. a[l] \in Int /\ b[l] \in Int /\ c[l] \in Int
    OBVIOUS
<1>8. a[l] > c[l]
    BY <1>6, <1>7
<1>9. DOMAIN a = 1 .. N
    OBVIOUS
<1> QED
    BY <1>5, <1>8, <1>9 DEF Above

LEMMA AboveTotal ==
    ASSUME NEW N \in Nat, NEW a \in [1 .. N -> Int], NEW b \in [1 .. N -> Int]
    PROVE  ~Above(a, a) /\ (a = b \/ Above(a, b) \/ Above(b, a))
<1>1. ~Above(a, a)
    BY DEF Above
<1>2. ASSUME a # b PROVE Above(a, b) \/ Above(b, a)
    <2> DEFINE Differ == {n \in 1 .. N : a[n] # b[n]}
    <2>1. Differ # {} /\ Differ \subseteq Nat
        BY <1>2
    <2>2. PICK m \in Differ : \A k \in Differ : m <= k
        BY <2>1, Least
    <2>3. \A k \in 1 .. m - 1 : a[k] = b[k]
        <3> TAKE k \in 1 .. m - 1
        <3>1. k \in 1 .. N /\ ~(m <= k)
            BY <2>1
        <3> QED
            BY <2>2, <3>1
    <2>4. a[m] > b[m] \/ b[m] > a[m]
        BY <2>2
    <2> QED
        BY <2>2, <2>3, <2>4 DEF Above
<1> QED
    BY <1>1, <1>2

\* An order has a first.
LEMMA FirstOne ==
    ASSUME NEW S, NEW before, Ordering(S, before), S # {}
    PROVE  \E i \in S : \A j \in S \ {i} : i \in before[j]
<1>1. Rankings(S, before) /\ IsFiniteSet(S)
    BY RankIsPlace DEF Ordering
<1>2. Cardinality(S) \in Nat /\ Cardinality(S) # 0
    BY <1>1, FS_CardinalityType, FS_EmptySet
<1>3. 1 \in 1 .. Cardinality(S)
    <2> DEFINE n == Cardinality(S)
    <2> HIDE DEF n
    <2>1. n \in Nat /\ n # 0
        BY <1>2 DEF n
    <2>2. 1 \in 1 .. n
        BY <2>1
    <2> QED
        BY <2>2 DEF n
<1>4. PICK i \in S : Cardinality(before[i]) + 1 = 1
    BY <1>1, <1>3 DEF Rankings
<1>5. before[i] \subseteq S /\ IsFiniteSet(before[i])
    BY <1>1, FS_Subset DEF Ordering
<1>6. Cardinality(before[i]) = 0
    <2>1. Cardinality(before[i]) \in Nat
        BY <1>5, FS_CardinalityType
    <2> QED
        BY <1>4, <2>1
<1>7. before[i] = {}
    BY <1>5, <1>6, FS_EmptySet
<1> QED
    BY <1>7 DEF Ordering

\* A nonempty finite set of numbers has a highest and a lowest.
LEMMA HighestIs ==
    ASSUME NEW S, IsFiniteSet(S), S \subseteq Int, S # {}
    PROVE  Highest(S) \in S /\ \A m \in S : m <= Highest(S)
<1> DEFINE before == [i \in S |-> {j \in S : j > i}]
<1>1. before \in [S -> SUBSET S] /\ \A i, j \in S : i \in before[j] <=> i > j
    OBVIOUS
<1> HIDE DEF before
<1>2. /\ \A i \in S : i \notin before[i]
      /\ \A i, j \in S : i # j => i \in before[j] \/ j \in before[i]
    BY <1>1
<1>5. \A i, j, k \in S : k \in before[j] /\ j \in before[i] => k \in before[i]
    BY <1>1
<1>6. \A i, j \in S : j \in before[i] => before[j] \subseteq before[i]
    BY <1>1, <1>5
<1>7. Ordering(S, before)
    BY <1>1, <1>2, <1>6 DEF Ordering
<1>3. PICK i \in S : \A j \in S \ {i} : i \in before[j]
    BY <1>7, FirstOne
<1>4. \A j \in S : j <= i
    BY <1>1, <1>3
<1> QED
    BY <1>4 DEF Highest

(* The member a group keeps is one of its members.                           *)
RankFacts(items) ==
    /\ IsList(items)
    /\ \A n \in DOMAIN items :
          /\ {"key", "ids", "related", "length", "sources"} \subseteq DOMAIN items[n]
          /\ items[n].access \in Nat /\ items[n].role \in Nat /\ items[n].length \in Nat

LEMMA ChoiceIsMember ==
    ASSUME NEW items, RankFacts(items), NEW g, g \subseteq DOMAIN items, g # {}
    PROVE  FirstChoice(items, g) \in g
<1> DEFINE rank(i) == Rank(items[i])
           First(i, j) == Above(rank(i), rank(j)) \/ (rank(i) = rank(j) /\ i < j)
           before == [j \in g |-> {i \in g : First(i, j)}]
<1>1. \A i \in g : rank(i) \in [1 .. 3 -> Int] /\ i \in Int
    <2>1. DOMAIN items = 1 .. Len(items) /\ Len(items) \in Nat
        BY DEF RankFacts, IsList
    <2>2. \A i \in g : items[i].access \in Int /\ items[i].role \in Int /\ items[i].length \in Int
        BY DEF RankFacts
    <2>3. \A x, y, z \in Int : <<x, y, z>> \in [1 .. 3 -> Int]
        OBVIOUS
    <2>4. \A i \in g : rank(i) \in [1 .. 3 -> Int]
        BY <2>2, <2>3 DEF Rank
    <2> QED
        BY <2>1, <2>4
<1> HIDE DEF rank
<1>2. \A i, j, k \in g : First(i, j) /\ First(j, k) => First(i, k)
    <2> TAKE i, j, k \in g
    <2>1. Above(rank(i), rank(j)) /\ Above(rank(j), rank(k)) => Above(rank(i), rank(k))
        BY <1>1, AboveTransitive
    <2>2. i < j /\ j < k => i < k
        BY <1>1
    <2> QED
        BY <2>1, <2>2
<1>3. \A i, j \in g : ~First(i, i) /\ (i # j => First(i, j) \/ First(j, i))
    <2> TAKE i, j \in g
    <2>1. ~Above(rank(i), rank(i))
        BY <1>1, AboveTotal
    <2>2. rank(i) = rank(j) \/ Above(rank(i), rank(j)) \/ Above(rank(j), rank(i))
        BY <1>1, AboveTotal
    <2>3. ~(i < i) /\ (i # j => i < j \/ j < i)
        BY <1>1
    <2> QED
        BY <2>1, <2>2, <2>3
<1> HIDE DEF First
<1>4. before \in [g -> SUBSET g] /\ \A i, j \in g : i \in before[j] <=> First(i, j)
    OBVIOUS
<1> HIDE DEF before
<1>5. Ordering(g, before)
    <2>1. IsFiniteSet(g)
        <3>1. IsFiniteSet(1 .. Len(items)) /\ DOMAIN items = 1 .. Len(items)
            BY FS_Interval DEF RankFacts, IsList
        <3> QED
            BY <3>1, FS_Subset
    <2>2. \A i, j \in g : j \in before[i] => before[j] \subseteq before[i]
        BY <1>2, <1>4
    <2>3. /\ \A i \in g : i \notin before[i]
          /\ \A i, j \in g : i # j => i \in before[j] \/ j \in before[i]
        BY <1>3, <1>4
    <2> QED
        BY <1>4, <2>1, <2>2, <2>3 DEF Ordering
<1>6. PICK i \in g : \A j \in g \ {i} : i \in before[j]
    BY <1>5, FirstOne
<1>7. \E k \in g : \A j \in g \ {k} : First(k, j)
    BY <1>4, <1>6
<1>8. FirstChoice(items, g) = CHOOSE k \in g : \A j \in g \ {k} : First(k, j)
    BY DEF FirstChoice, First, rank
<1> QED
    BY <1>7, <1>8

\* A merged item has the key of a member, and the identities and links of all.
LEMMA MergeKeeps ==
    ASSUME NEW items, RankFacts(items), NEW g, g \subseteq DOMAIN items, g # {}
    PROVE  LET merged == MergeItemGroup(items, g)
           IN  /\ \E w \in g : merged.key = items[w].key
               /\ \A i \in g : /\ items[i].related \subseteq merged.related
                               /\ \A f \in IdFamilies : items[i].ids[f] \subseteq merged.ids[f]
<1> DEFINE w == FirstChoice(items, g)
           ids == [f \in IdFamilies |-> UNION {items[i].ids[f] : i \in g}]
           related == UNION {items[i].related : i \in g}
           length == Highest({items[i].length : i \in g})
           sources == UNION {items[i].sources : i \in g}
           merged == MergeItemGroup(items, g)
<1>1. w \in g /\ w \in DOMAIN items
    BY ChoiceIsMember
<1>2. {"key", "ids", "related", "length", "sources"} \subseteq DOMAIN items[w]
    BY <1>1 DEF RankFacts
<1>3. merged = [items[w] EXCEPT !.ids = ids, !.related = related, !.length = length, !.sources = sources]
    BY DEF MergeItemGroup
<1>4. /\ \A i \in g : items[i].related \subseteq related
      /\ \A i \in g, f \in IdFamilies : items[i].ids[f] \subseteq ids[f]
    OBVIOUS
<1> HIDE DEF w, ids, related, length, sources, merged
<1>5. merged.key = items[w].key /\ merged.ids = ids /\ merged.related = related
    BY <1>2, <1>3
<1> QED
    BY <1>1, <1>4, <1>5 DEF merged

\* The items of one kind are told apart as all the items are.
LEMMA KindFacts ==
    ASSUME NEW items, IsResearch(items), NEW c
    PROVE  RankFacts(OfKind(items, c))
<1> DEFINE s == OfKind(items, c)
<1>1. IsList(items)
    BY DEF IsResearch
<1>2. /\ IsList(s)
      /\ \A n \in DOMAIN s : \E m \in DOMAIN items : items[m].commentary = c /\ s[n] = items[m]
    BY <1>1, OfKindIsAll DEF IsKind
<1> HIDE DEF s
<1>3. \A m \in DOMAIN items :
        /\ {"key", "ids", "related", "length", "sources"} \subseteq DOMAIN items[m]
        /\ items[m].access \in Nat /\ items[m].role \in Nat /\ items[m].length \in Nat
    BY DEF IsResearch
<1> QED
    BY <1>2, <1>3 DEF RankFacts, s

\* What a member says of a paper, the merged item says.
LEMMA LinkIsKept ==
    ASSUME NEW items, RankFacts(items), NEW g, g \subseteq DOMAIN items,
           NEW i \in g, NEW p, ExplicitMatch(items[i], p)
    PROVE  ExplicitMatch(MergeItemGroup(items, g), p)
<1> DEFINE merged == MergeItemGroup(items, g)
<1>1. /\ items[i].related \subseteq merged.related
      /\ \A f \in IdFamilies : items[i].ids[f] \subseteq merged.ids[f]
    BY MergeKeeps
<1> HIDE DEF merged
<1>2. AllIds(items[i].ids) \subseteq AllIds(merged.ids)
    BY <1>1 DEF AllIds
<1>3. ExplicitMatch(merged, p)
    BY <1>1, <1>2 DEF ExplicitMatch
<1> QED
    BY <1>3 DEF merged

LinkKept(c, p, consolidated) ==
    /\ \E e \in consolidated.papers : p \in e.members /\ c \in e.attached
    /\ \A s \in consolidated.standalone : s.key # c.key

LEMMA LinksAreKept ==
    ASSUME NEW items, IsResearch(items), NEW c \in Members(items), NEW p \in Members(items),
           c.commentary, ~p.commentary, ExplicitMatch(c, p)
    PROVE  LinkKept(c, p, Consolidate(items))
<1> DEFINE papers == OfKind(items, FALSE)
           commentary == OfKind(items, TRUE)
           paperGroups == GroupByResearchIdentity(papers)
           commentGroups == GroupByResearchIdentity(commentary)
           merged == {[of |-> g, item |-> MergeItemGroup(commentary, g)] : g \in commentGroups}
           Matches(m, g) == \E i \in g : CommentaryMatches(m.item, papers[i])
           Entry(g) == [members  |-> {papers[i] : i \in g},
                        item     |-> MergeItemGroup(papers, g),
                        attached |-> UNION {{commentary[i] : i \in m.of} :
                                              m \in {m \in merged : Matches(m, g)}}]
           alone == {m.item : m \in {m \in merged :
                        m.item.length > 0 /\ ~\E g \in paperGroups : Matches(m, g)}}
<1>1. Consolidate(items) = [papers |-> {Entry(g) : g \in paperGroups}, standalone |-> alone]
    BY DEF Consolidate
<1>2. PICK k \in DOMAIN items, l \in DOMAIN items : c = items[k] /\ p = items[l]
    BY DEF Members
<1>3. IsList(items) /\ items[k].commentary = TRUE /\ items[l].commentary = FALSE
    BY <1>2 DEF IsResearch
<1>4. /\ \E n \in DOMAIN papers : papers[n] = p
      /\ \E n \in DOMAIN commentary : commentary[n] = c
      /\ \A n \in DOMAIN commentary : \E m \in DOMAIN items : commentary[n] = items[m]
      /\ IsList(papers) /\ IsList(commentary)
    <2>1. IsKind(papers, items, FALSE) /\ IsKind(commentary, items, TRUE)
        BY <1>3, OfKindIsAll, Zenon
    <2> HIDE DEF papers, commentary
    <2>2. IsList(papers) /\ \E q \in DOMAIN papers : papers[q] = p
        BY <1>2, <1>3, <2>1 DEF IsKind
    <2>3. /\ IsList(commentary) /\ \E q \in DOMAIN commentary : commentary[q] = c
          /\ \A n \in DOMAIN commentary : \E q \in DOMAIN items : commentary[n] = items[q]
        BY <1>2, <1>3, <2>1 DEF IsKind
    <2> QED
        BY <2>2, <2>3
<1>5. RankFacts(commentary)
    BY KindFacts
<1> HIDE DEF papers, commentary
<1>6. /\ \A i \in DOMAIN papers : \E g \in paperGroups : i \in g
      /\ \A i \in DOMAIN commentary : \E g \in commentGroups : i \in g
      /\ \A g \in commentGroups : g # {} /\ g \subseteq DOMAIN commentary
    BY <1>4, GroupsCover
<1> HIDE DEF paperGroups, commentGroups
<1>7. PICK a \in DOMAIN papers, g \in paperGroups : papers[a] = p /\ a \in g
    BY <1>4, <1>6
<1>8. PICK b \in DOMAIN commentary, h \in commentGroups : commentary[b] = c /\ b \in h
    BY <1>4, <1>6
<1>9. \A n \in DOMAIN commentary : commentary[n].key = c.key => commentary[n] = c
    <2> TAKE n \in DOMAIN commentary
    <2> HAVE commentary[n].key = c.key
    <2>1. PICK m \in DOMAIN items : commentary[n] = items[m]
        BY <1>4
    <2>2. m = k
        BY <1>2, <2>1 DEF IsResearch
    <2> QED
        BY <1>2, <2>1, <2>2
\* Any group of commentary with c matches the group of p.
<1>10. ASSUME NEW of \in commentGroups, NEW i \in of, commentary[i] = c
       PROVE  CommentaryMatches(MergeItemGroup(commentary, of), p)
    <2>1. of \subseteq DOMAIN commentary
        BY <1>6
    <2>2. ExplicitMatch(MergeItemGroup(commentary, of), p)
        BY <1>5, <1>10, <2>1, LinkIsKept
    <2> QED
        BY <2>2 DEF CommentaryMatches
<1> DEFINE m == [of |-> h, item |-> MergeItemGroup(commentary, h)]
<1>11. m \in merged /\ m.of = h /\ Matches(m, g)
    <2>1. CommentaryMatches(m.item, papers[a])
        BY <1>7, <1>8, <1>10
    <2> QED
        BY <1>7, <2>1
<1>12. p \in Entry(g).members /\ c \in Entry(g).attached
    <2>1. Entry(g).members = {papers[i] : i \in g}
        OBVIOUS
    <2>2. Entry(g).attached = UNION {{commentary[i] : i \in n.of} : n \in {n \in merged : Matches(n, g)}}
        OBVIOUS
    <2> HIDE DEF Entry, Matches, merged, m
    <2>3. c \in {commentary[i] : i \in m.of}
        BY <1>8, <1>11
    <2> QED
        BY <1>7, <1>11, <2>1, <2>2, <2>3
<1>13. ASSUME NEW s \in alone, s.key = c.key PROVE FALSE
    <2>1. PICK n \in merged : s = n.item /\ ~\E o \in paperGroups : Matches(n, o)
        OBVIOUS
    <2>2. PICK of \in commentGroups : n = [of |-> of, item |-> MergeItemGroup(commentary, of)]
        BY <2>1
    <2>3. of # {} /\ of \subseteq DOMAIN commentary
        BY <1>6
    <2>4. PICK w \in of : MergeItemGroup(commentary, of).key = commentary[w].key
        BY <1>5, <2>3, MergeKeeps
    <2>5. commentary[w] = c
        BY <1>9, <1>13, <2>1, <2>2, <2>3, <2>4
    <2>6. CommentaryMatches(n.item, papers[a])
        BY <1>7, <1>10, <2>2, <2>5
    <2> QED
        BY <1>7, <2>1, <2>6
<1> HIDE DEF Entry, alone, m
<1>14. LinkKept(c, p, Consolidate(items))
    <2>1. /\ Consolidate(items).papers = {Entry(o) : o \in paperGroups}
          /\ Consolidate(items).standalone = alone
        BY <1>1
    <2>2. Entry(g) \in Consolidate(items).papers
        BY <1>7, <2>1
    <2> QED
        BY <1>12, <1>13, <2>1, <2>2 DEF LinkKept
<1> QED
    BY <1>14

----------------------------------------------------------------------------
(* The developments.                                                         *)

IsPlacements(g, items) ==
    g = [n \in 0 .. Len(items) |-> IF n = 0 THEN <<>> ELSE Place(g[n - 1], items, n)]
Placements(f, S, items, result) ==
    /\ f \in [0 .. Len(items) -> S] /\ f[0] = <<>> /\ result = f[Len(items)]
    /\ \A n \in 1 .. Len(items) : f[n] = Place(f[n - 1], items, n)

\* The news items are placed one after the other.
LEMMA PlacementsIs ==
    ASSUME NEW S, <<>> \in S, NEW items,
           Len(items) \in Nat,
           \A x \in S, n \in 1 .. Len(items) : Place(x, items, n) \in S
    PROVE  \E f : Placements(f, S, items, ClusterNews(items))
<1> DEFINE N == Len(items)
           next(x, n) == Place(x, items, n)
           step == [x \in S \X (1 .. N) |-> next(x[1], x[2])]
<1>0. N \in Nat /\ \A x \in S, n \in 1 .. N : next(x, n) \in S
    OBVIOUS
<1> HIDE DEF next
<1>1. step \in [S \X (1 .. N) -> S]
    BY <1>0
<1>2. PICK f : IsIteration(f, S, <<>>, N, step)
    <2> HIDE DEF step, N
    <2> QED
        BY <1>0, <1>1, Iterates, Zenon
<1>3. \A n \in 1 .. N : f[n] = next(f[n - 1], n)
    <2> TAKE n \in 1 .. N
    <2> HIDE DEF step, N
    <2>0. f \in [0 .. N -> S] /\ f[n] = step[<<f[n - 1], n>>] /\ n - 1 \in 0 .. N
        BY <1>0, <1>2 DEF IsIteration
    <2>1. f[n - 1] \in S /\ f[n] = step[<<f[n - 1], n>>]
        BY <2>0
    <2> USE DEF step
    <2> QED
        BY <2>1
<1>4. IsPlacements(f, items)
    <2>1. f = [n \in 0 .. N |-> f[n]] /\ f[0] = <<>>
        BY <1>2 DEF IsIteration
    <2> HIDE DEF N
    <2>2. \A n \in 0 .. N : n = 0 \/ n \in 1 .. N
        BY <1>0
    <2>3. \A n \in 0 .. N : f[n] = IF n = 0 THEN <<>> ELSE next(f[n - 1], n)
        BY <1>3, <2>1, <2>2
    <2> USE DEF N
    <2> QED
        BY <2>1, <2>3 DEF IsPlacements, next
<1> DEFINE h == CHOOSE g : IsPlacements(g, items)
<1>5. IsPlacements(h, items)
    BY <1>4, Zenon
<1>6. ClusterNews(items) = h[N]
    BY DEF ClusterNews, IsPlacements
<1> HIDE DEF h
<1>7. /\ h = [n \in 0 .. N |-> h[n]] /\ h[0] = <<>>
      /\ \A n \in 1 .. N : h[n] = next(h[n - 1], n)
    <2>1. h = [n \in 0 .. N |-> IF n = 0 THEN <<>> ELSE next(h[n - 1], n)]
        BY <1>5 DEF IsPlacements, next
    <2> HIDE DEF N
    <2>2. 0 \in 0 .. N /\ \A n \in 1 .. N : n \in 0 .. N /\ n # 0
        BY <1>0
    <2>3. /\ h[0] = <<>>
          /\ \A n \in 1 .. N : h[n] = next(h[n - 1], n)
        BY <2>1, <2>2
    <2>4. h = [n \in 0 .. N |-> h[n]]
        BY <2>1
    <2> QED
        BY <2>3, <2>4
<1> DEFINE P == {m \in 0 .. N : h[m] \in S}
<1>8. 0 \in P
    BY <1>0, <1>7
<1>9. ASSUME NEW n \in 1 .. N, n - 1 \in P PROVE n \in P
    <2>1. h[n - 1] \in S /\ n \in 0 .. N
        BY <1>0, <1>9
    <2>2. next(h[n - 1], n) \in S
        BY <1>0, <2>1
    <2> QED
        BY <1>7, <2>1, <2>2
<1>10. \A n \in 0 .. N : h[n] \in S
    <2> HIDE DEF P, N
    <2>1. \A n \in 0 .. N : n \in P
        BY <1>0, <1>8, <1>9, Reaches
    <2> QED
        BY <2>1 DEF P
<1>11. h \in [0 .. N -> S]
    BY <1>7, <1>10
<1> QED
    BY <1>6, <1>7, <1>11 DEF Placements, next

\* What is placed after k news items.
IsFirst(i, group) == i \in group /\ \A j \in group : i <= j
Placed(g, items, k) ==
    /\ g \in Seq(SUBSET (1 .. k))
    /\ \A n \in DOMAIN g : g[n] # {}
    /\ \A n \in DOMAIN g : \A i, j \in g[n] : i # j => Near(items[i], items[j], ClusterWindow)
    /\ \A i \in 1 .. k : \E n \in DOMAIN g : i \in g[n]
    /\ \A m, n \in DOMAIN g : \A i \in g[m] : i \in g[n] => m = n
    /\ \A m, n \in DOMAIN g : \A i \in g[n] :
          m < n /\ IsFirst(i, g[n]) => ~Fits(items, {j \in g[m] : j < i}, i)

LEMMA LowestIs ==
    ASSUME NEW S, S \subseteq Nat, S # {}
    PROVE  Lowest(S) \in S /\ \A k \in S : Lowest(S) <= k
    BY Least DEF Lowest

LEMMA NearSymmetric ==
    ASSUME NEW a, NEW b, a.day \in Nat, b.day \in Nat, NEW days \in Nat, Near(a, b, days)
    PROVE  Near(b, a, days)
    BY DEF Near

\* A placed item opens the last group, or is in the group it fits.
Opened(g, h, k) ==
    /\ Len(h) = Len(g) + 1 /\ DOMAIN h = 1 .. Len(h) /\ h[Len(h)] = {k}
    /\ \A n \in 1 .. Len(g) : h[n] = g[n]
Widened(g, h, k, o) ==
    /\ Len(h) = Len(g) /\ DOMAIN h = 1 .. Len(h) /\ h[o] = g[o] \cup {k}
    /\ \A n \in 1 .. Len(g) : n # o => h[n] = g[n]
IsPlace(g, h, items, k, U) ==
    /\ h \in Seq(SUBSET U)
    /\ \/ Opened(g, h, k) /\ \A n \in 1 .. Len(g) : ~Fits(items, g[n], k)
       \/ \E o \in 1 .. Len(g) : Fits(items, g[o], k) /\ Widened(g, h, k, o)
LEMMA PlaceIs ==
    ASSUME NEW items, NEW U, NEW g \in Seq(SUBSET U), NEW k \in U
    PROVE  IsPlace(g, Place(g, items, k), items, k, U)
<1> DEFINE open == {n \in DOMAIN g : Fits(items, g[n], k)}
           h == Place(g, items, k)
<1>1. DOMAIN g = 1 .. Len(g) /\ Len(g) \in Nat /\ \A n \in 1 .. Len(g) : g[n] \in SUBSET U
    OBVIOUS
<1>2. h = IF open = {} THEN Append(g, {k}) ELSE [g EXCEPT ![Lowest(open)] = g[Lowest(open)] \cup {k}]
    BY DEF Place
<1>3. open \subseteq 1 .. Len(g) /\ \A n \in 1 .. Len(g) : n \in open <=> Fits(items, g[n], k)
    BY <1>1
<1> HIDE DEF open, h
<1>4. CASE open = {}
    <2>1. h = Append(g, {k}) /\ {k} \in SUBSET U
        BY <1>2, <1>4
    <2>2. h \in Seq(SUBSET U) /\ Opened(g, h, k)
        BY <2>1 DEF Opened
    <2> QED
        BY <1>3, <1>4, <2>2 DEF IsPlace, h
<1>5. CASE open # {}
    <2> DEFINE o == Lowest(open)
    <2>0. open \subseteq Nat
        BY <1>1, <1>3
    <2>1. o \in open
        BY <1>5, <2>0, LowestIs
    <2>2. h = [g EXCEPT ![o] = g[o] \cup {k}]
        BY <1>2, <1>5
    <2> HIDE DEF o
    <2>3. o \in 1 .. Len(g) /\ g[o] \cup {k} \in SUBSET U
        BY <1>1, <1>3, <2>1
    <2>4. h \in Seq(SUBSET U) /\ Len(h) = Len(g) /\ DOMAIN h = 1 .. Len(g)
        BY <2>2, <2>3
    <2>5. Widened(g, h, k, o)
        BY <1>1, <2>2, <2>3, <2>4 DEF Widened
    <2> QED
        BY <1>3, <2>1, <2>3, <2>4, <2>5 DEF IsPlace, h
<1> QED
    BY <1>4, <1>5

LEMMA PlaceKeeps ==
    ASSUME ClusterWindow \in Nat, NEW items, IsNews(items), NEW k \in 1 .. Len(items), NEW g,
           Placed(g, items, k - 1)
    PROVE  Placed(Place(g, items, k), items, k)
<1> DEFINE h == Place(g, items, k)
<1>1. /\ k \in Nat /\ k - 1 \in Nat
      /\ \A i \in 1 .. k : items[i].day \in Nat
      /\ \A i \in 1 .. k - 1 : i < k /\ i \in 1 .. k
      /\ \A i \in 1 .. k : i = k \/ i \in 1 .. k - 1
    BY DEF IsNews, IsList
<1>2. g \in Seq(SUBSET (1 .. k)) /\ DOMAIN g = 1 .. Len(g) /\ Len(g) \in Nat
    <2>1. SUBSET (1 .. k - 1) \subseteq SUBSET (1 .. k)
        BY <1>1
    <2>2. g \in Seq(SUBSET (1 .. k - 1))
        BY DEF Placed
    <2> QED
        BY <2>1, <2>2
<1>3. /\ h \in Seq(SUBSET (1 .. k))
      /\ \/ Opened(g, h, k) /\ \A n \in 1 .. Len(g) : ~Fits(items, g[n], k)
         \/ \E o \in 1 .. Len(g) : Fits(items, g[o], k) /\ Widened(g, h, k, o)
    <2>1. k \in 1 .. k
        BY <1>1
    <2>2. IsPlace(g, h, items, k, 1 .. k)
        BY <1>2, <2>1, PlaceIs
    <2> HIDE DEF h
    <2> QED
        BY <2>2 DEF IsPlace
<1> HIDE DEF h
<1>4. /\ \A n \in 1 .. Len(g) : g[n] # {} /\ g[n] \subseteq 1 .. k - 1
      /\ \A n \in 1 .. Len(g) : \A i, j \in g[n] : i # j => Near(items[i], items[j], ClusterWindow)
      /\ \A i \in 1 .. k - 1 : \E n \in 1 .. Len(g) : i \in g[n]
      /\ \A m, n \in 1 .. Len(g) : \A i \in g[m] : i \in g[n] => m = n
      /\ \A m, n \in 1 .. Len(g) : \A i \in g[n] :
            m < n /\ IsFirst(i, g[n]) => ~Fits(items, {j \in g[m] : j < i}, i)
    <2>1. g \in Seq(SUBSET (1 .. k - 1))
        BY DEF Placed
    <2>2. \A n \in 1 .. Len(g) : g[n] \subseteq 1 .. k - 1
        BY <1>2, <2>1
    <2>3. DOMAIN g = 1 .. Len(g)
        BY <1>2
    <2> QED
        BY <2>2, <2>3 DEF Placed
<1>7. h \in Seq(SUBSET (1 .. k))
    BY <1>3
<1>5. CASE Opened(g, h, k) /\ \A n \in 1 .. Len(g) : ~Fits(items, g[n], k)
    <2> DEFINE N == Len(g)
    <2>1. /\ DOMAIN h = 1 .. N + 1 /\ h[N + 1] = {k} /\ N + 1 \in 1 .. N + 1
          /\ \A n \in 1 .. N : h[n] = g[n] /\ n \in 1 .. N + 1 /\ n # N + 1
          /\ \A n \in 1 .. N + 1 : n = N + 1 \/ n \in 1 .. N
          /\ \A m, n \in 1 .. N + 1 : m < n => m \in 1 .. N
        BY <1>2, <1>5 DEF Opened
    <2> HIDE DEF N
    <2>2. \A n \in 1 .. N : k \notin g[n]
        BY <1>1, <1>4 DEF N
    <2>3. \A n \in DOMAIN h : h[n] # {}
        BY <1>4, <2>1 DEF N
    <2>4. \A n \in DOMAIN h : \A i, j \in h[n] : i # j => Near(items[i], items[j], ClusterWindow)
        <3> TAKE n \in DOMAIN h
        <3>1. CASE n \in 1 .. N
            <4>1. h[n] = g[n]
                BY <2>1, <3>1
            <4> QED
                BY <1>4, <3>1, <4>1 DEF N
        <3>2. CASE n = N + 1
            BY <2>1, <3>2
        <3> QED
            BY <2>1, <3>1, <3>2
    <2>5. \A i \in 1 .. k : \E n \in DOMAIN h : i \in h[n]
        <3> TAKE i \in 1 .. k
        <3>1. CASE i = k
            BY <2>1, <3>1
        <3>2. CASE i \in 1 .. k - 1
            <4>1. PICK n \in 1 .. N : i \in g[n]
                BY <1>4, <3>2 DEF N
            <4> QED
                BY <2>1, <4>1
        <3> QED
            BY <1>1, <3>1, <3>2
    <2>6. \A m, n \in DOMAIN h : \A i \in h[m] : i \in h[n] => m = n
        <3> TAKE m, n \in DOMAIN h
        <3> TAKE i \in h[m]
        <3> HAVE i \in h[n]
        <3>1. CASE m \in 1 .. N /\ n \in 1 .. N
            BY <1>4, <2>1, <3>1 DEF N
        <3>2. CASE m = N + 1 \/ n = N + 1
            BY <2>1, <2>2, <3>2
        <3> QED
            BY <2>1, <3>1, <3>2
    <2>7. \A m, n \in DOMAIN h : \A i \in h[n] :
              m < n /\ IsFirst(i, h[n]) => ~Fits(items, {j \in h[m] : j < i}, i)
        <3> TAKE m, n \in DOMAIN h
        <3> TAKE i \in h[n]
        <3> HAVE m < n /\ IsFirst(i, h[n])
        <3>0. m \in 1 .. N /\ h[m] = g[m]
            BY <2>1
        <3>1. CASE n \in 1 .. N
            BY <1>4, <2>1, <3>0, <3>1 DEF N
        <3>2. CASE n = N + 1
            <4>1. i = k
                BY <2>1, <3>2
            <4>2. {j \in g[m] : j < k} = g[m]
                BY <1>1, <1>4, <3>0 DEF N
            <4> QED
                BY <1>5, <3>0, <4>1, <4>2 DEF N
        <3> QED
            BY <2>1, <3>1, <3>2
    <2>8. Placed(h, items, k)
        BY <1>7, <2>3, <2>4, <2>5, <2>6, <2>7, Zenon DEF Placed
    <2> QED
        BY <2>8 DEF h
<1>6. ASSUME NEW o \in 1 .. Len(g), Fits(items, g[o], k), Widened(g, h, k, o)
      PROVE  Placed(h, items, k)
    <2> DEFINE N == Len(g)
    <2>1. /\ DOMAIN h = 1 .. N /\ h[o] = g[o] \cup {k} /\ o \in 1 .. N
          /\ \A n \in 1 .. N : n # o => h[n] = g[n]
          /\ \A n \in 1 .. N : g[n] \subseteq h[n]
        BY <1>2, <1>6 DEF Widened
    <2> HIDE DEF N
    <2>2. /\ \A n \in 1 .. N : k \notin g[n]
          /\ \A n \in 1 .. N : \A i \in h[n] : i = k \/ i \in g[n]
        <3>1. \A n \in 1 .. N : \A i \in g[n] : i \in 1 .. k - 1
            BY <1>4 DEF N
        <3>2. k \notin 1 .. k - 1
            BY <1>1
        <3>3. \A n \in 1 .. N : \A i \in h[n] : i = k \/ i \in g[n]
            BY <2>1
        <3> QED
            BY <3>1, <3>2, <3>3
    <2>3. \A n \in DOMAIN h : h[n] # {}
        BY <1>4, <2>1 DEF N
    <2>4. \A n \in DOMAIN h : \A i, j \in h[n] : i # j => Near(items[i], items[j], ClusterWindow)
        <3>1. \A j \in g[o] : Near(items[k], items[j], ClusterWindow)
            BY <1>6 DEF Fits
        <3>2. \A j \in g[o] : items[j].day \in Nat /\ items[k].day \in Nat
            <4>1. \A j \in g[o] : j \in 1 .. k
                BY <1>1, <1>4
            <4> QED
                BY <1>1, <4>1
        <3>3. \A j \in g[o] : Near(items[j], items[k], ClusterWindow)
            BY <3>1, <3>2, NearSymmetric
        <3>4. \A i, j \in h[o] : i # j => Near(items[i], items[j], ClusterWindow)
            BY <1>4, <2>1, <3>1, <3>3
        <3> QED
            BY <1>4, <2>1, <3>4 DEF N
    <2>5. \A i \in 1 .. k : \E n \in DOMAIN h : i \in h[n]
        <3> TAKE i \in 1 .. k
        <3>1. CASE i = k
            BY <2>1, <3>1
        <3>2. CASE i \in 1 .. k - 1
            <4>1. PICK n \in 1 .. N : i \in g[n]
                BY <1>4, <3>2 DEF N
            <4> QED
                BY <2>1, <4>1
        <3> QED
            BY <1>1, <3>1, <3>2
    <2>6. \A m, n \in DOMAIN h : \A i \in h[m] : i \in h[n] => m = n
        <3> TAKE m, n \in DOMAIN h
        <3> TAKE i \in h[m]
        <3> HAVE i \in h[n]
        <3>1. CASE i = k
            BY <2>1, <2>2, <3>1
        <3>2. CASE i # k
            BY <1>4, <2>1, <2>2, <3>2 DEF N
        <3> QED
            BY <3>1, <3>2
    <2>7. \A m, n \in DOMAIN h : \A i \in h[n] :
              m < n /\ IsFirst(i, h[n]) => ~Fits(items, {j \in h[m] : j < i}, i)
        <3> TAKE m, n \in DOMAIN h
        <3> TAKE i \in h[n]
        <3> HAVE m < n /\ IsFirst(i, h[n])
        <3>1. PICK j \in g[n] : j \in 1 .. k - 1 /\ i <= j
            BY <1>4, <2>1 DEF N, IsFirst
        <3>2. i # k
            BY <1>1, <3>1
        <3>3. i \in g[n] /\ i \in 1 .. k - 1
            BY <1>4, <2>1, <2>2, <3>2 DEF N
        <3>4. IsFirst(i, g[n])
            BY <2>1, <3>3 DEF IsFirst
        <3>5. {l \in h[m] : l < i} = {l \in g[m] : l < i}
            BY <1>1, <2>1, <2>2, <3>3
        <3> QED
            BY <1>4, <2>1, <3>3, <3>4, <3>5 DEF N
    <2> QED
        BY <1>7, <2>3, <2>4, <2>5, <2>6, <2>7, Zenon DEF Placed
<1> QED
    BY <1>3, <1>5, <1>6 DEF h

LEMMA NewsArePlaced ==
    ASSUME ClusterWindow \in Nat, NEW items, IsNews(items)
    PROVE  Placed(ClusterNews(items), items, Len(items))
<1> DEFINE N == Len(items)
           S == Seq(SUBSET (1 .. N))
<1>1. N \in Nat
    BY DEF IsNews, IsList
<1>2. <<>> \in S
    OBVIOUS
<1>3. ASSUME NEW x \in S, NEW n \in 1 .. N PROVE Place(x, items, n) \in S
    <2> HIDE DEF N
    <2>1. IsPlace(x, Place(x, items, n), items, n, 1 .. N)
        BY PlaceIs
    <2> QED
        BY <2>1 DEF IsPlace
<1>4. PICK f : Placements(f, S, items, ClusterNews(items))
    <2> HIDE DEF S
    <2> QED
        BY <1>1, <1>2, <1>3, PlacementsIs
<1>5. /\ f[0] = <<>> /\ ClusterNews(items) = f[N]
      /\ \A n \in 1 .. N : f[n] = Place(f[n - 1], items, n)
    BY <1>4 DEF Placements
<1> DEFINE P == {n \in 0 .. N : Placed(f[n], items, n)}
<1>6. 0 \in P
    <2>1. Placed(<<>>, items, 0)
        BY DEF Placed
    <2> QED
        BY <1>1, <1>5, <2>1
<1>7. ASSUME NEW n \in 1 .. N, n - 1 \in P PROVE n \in P
    <2>1. Placed(f[n - 1], items, n - 1) /\ n \in 0 .. N
        BY <1>1, <1>7
    <2>2. Placed(Place(f[n - 1], items, n), items, n)
        BY <2>1, PlaceKeeps
    <2> QED
        BY <1>5, <2>1, <2>2
<1> HIDE DEF P
<1>8. \A n \in 0 .. N : n \in P
    BY <1>1, <1>6, <1>7, Reaches
<1>9. N \in 0 .. N
    BY <1>1
<1> QED
    BY <1>5, <1>8, <1>9 DEF P

Compact(items, developments) ==
    /\ \A n \in DOMAIN developments : \A i, j \in developments[n] :
          i # j => Near(items[i], items[j], ClusterWindow)
    /\ \A i \in DOMAIN items :
          Cardinality({n \in DOMAIN developments : i \in developments[n]}) = 1
    /\ \A m, n \in DOMAIN developments : m < n =>
          LET first == Lowest(developments[n]) IN
          ~Fits(items, {i \in developments[m] : i < first}, first)

LEMMA PlacedAreCompact ==
    ASSUME NEW items, IsList(items), NEW d, Placed(d, items, Len(items))
    PROVE  Compact(items, d)
<1>1. ASSUME NEW i \in DOMAIN items PROVE Cardinality({n \in DOMAIN d : i \in d[n]}) = 1
    <2>1. i \in 1 .. Len(items)
        BY DEF IsList
    <2>2. PICK n \in DOMAIN d : i \in d[n]
        BY <2>1 DEF Placed
    <2>3. {m \in DOMAIN d : i \in d[m]} = {n}
        BY <2>2 DEF Placed
    <2> QED
        BY <2>3, FS_Singleton
<1>2. ASSUME NEW m \in DOMAIN d, NEW n \in DOMAIN d, m < n
      PROVE  ~Fits(items, {i \in d[m] : i < Lowest(d[n])}, Lowest(d[n]))
    <2>1. d \in Seq(SUBSET (1 .. Len(items))) /\ d[n] # {}
        BY DEF Placed
    <2>2. d[n] \subseteq 1 .. Len(items)
        BY <2>1
    <2>3. d[n] \subseteq Nat
        BY <2>2
    <2>4. IsFirst(Lowest(d[n]), d[n])
        BY <2>1, <2>3, LowestIs DEF IsFirst
    <2>5. Lowest(d[n]) \in d[n]
        BY <2>4 DEF IsFirst
    <2> QED
        BY <1>2, <2>4, <2>5 DEF Placed
<1> QED
    BY <1>1, <1>2 DEF Compact, Placed

----------------------------------------------------------------------------
(* The facts of a development.                                               *)

AtLeast(a, b) == a = b \/ Above(a, b)
Weights == [1 .. 5 -> Int]

\* A fact that is claimed has evidence.
LEMMA ClaimFacts ==
    ASSUME NEW signals, AreSignals(signals), NEW c \in Claims(signals)
    PROVE  /\ c = [event |-> c.event, fact |-> c.fact, value |-> c.value]
           /\ c.event = EventOf(signals) /\ c.event # "none"
           /\ \E s \in Evidence(signals, c.fact, c.value) : c \in s.facts
<1>1. c.event = EventOf(signals) /\ \E s \in Corroborating(signals) : c \in s.facts
    BY DEF Claims
<1>2. PICK s \in Corroborating(signals) : c \in s.facts
    BY <1>1
<1>3. s \in signals
    BY DEF Corroborating
<1>4. c = [event |-> c.event, fact |-> c.fact, value |-> c.value] /\ c.event # "none"
    BY <1>2, <1>3 DEF AreSignals
<1>5. s \in Evidence(signals, c.fact, c.value)
    BY <1>1, <1>2, <1>4 DEF Evidence
<1> QED
    BY <1>1, <1>2, <1>4, <1>5

IsEvidence(A) == /\ A # {} /\ IsFiniteSet(A)
                 /\ \A s \in A : s.role \in Nat /\ s.access \in Nat
LEMMA EvidenceFacts ==
    ASSUME NEW signals, AreSignals(signals), NEW c \in Claims(signals)
    PROVE  IsEvidence(Evidence(signals, c.fact, c.value))
<1>1. Evidence(signals, c.fact, c.value) \subseteq signals
    BY DEF Evidence, Corroborating
<1>2. Evidence(signals, c.fact, c.value) # {}
    BY ClaimFacts
<1> QED
    BY <1>1, <1>2, FS_Subset DEF IsEvidence, AreSignals

LEMMA HighestRole ==
    ASSUME NEW A, IsEvidence(A)
    PROVE  /\ Highest({s.role : s \in A}) \in {s.role : s \in A}
           /\ \A s \in A : s.role <= Highest({t.role : t \in A})
           /\ Highest({s.role : s \in A}) \in Nat
           /\ Highest({s.access : s \in A}) \in Nat
<1> DEFINE role == [s \in A |-> s.role]
           access == [s \in A |-> s.access]
           R == {s.role : s \in A}
           X == {s.access : s \in A}
<1>1. IsFiniteSet({role[s] : s \in A}) /\ IsFiniteSet({access[s] : s \in A})
    <2>1. role = [s \in A |-> role[s]] /\ access = [s \in A |-> access[s]] /\ IsFiniteSet(A)
        BY DEF IsEvidence
    <2> HIDE DEF role, access
    <2> QED
        BY <2>1, ImageIsFinite
<1>2. R = {role[s] : s \in A} /\ X = {access[s] : s \in A}
    OBVIOUS
<1>3. IsFiniteSet(R) /\ IsFiniteSet(X)
    <2> HIDE DEF R, X, role, access
    <2> QED
        BY <1>1, <1>2
<1>4. R # {} /\ X # {} /\ R \subseteq Nat /\ X \subseteq Nat /\ \A s \in A : s.role \in R
    BY DEF IsEvidence
<1> HIDE DEF R, X
<1>5. /\ Highest(R) \in R /\ \A m \in R : m <= Highest(R)
      /\ Highest(X) \in X
    <2>1. R \subseteq Int /\ X \subseteq Int
        BY <1>4
    <2> QED
        BY <1>3, <1>4, <2>1, HighestIs
<1>6. Highest(R) \in R /\ Highest(R) \in Nat /\ Highest(X) \in Nat /\ \A s \in A : s.role <= Highest(R)
    BY <1>4, <1>5
<1> QED
    BY <1>6 DEF R, X

WeightOf(A, fact, value) ==
    LET authority == Highest({s.role : s \in A})
    IN  <<authority, Cardinality({s \in A : s.role = authority}), Cardinality(A),
          IF fact = "status" THEN StatusPriority(value) ELSE 0,
          Highest({s.access : s \in A})>>

LEMMA WeightIs ==
    ASSUME NEW signals, NEW fact, NEW value
    PROVE  Weight(signals, fact, value) = WeightOf(Evidence(signals, fact, value), fact, value)
    BY DEF Weight, WeightOf

LEMMA WeightNumbers ==
    ASSUME NEW A, IsEvidence(A), NEW fact, NEW value
    PROVE  WeightOf(A, fact, value) \in Weights
<1> DEFINE authority == Highest({s.role : s \in A})
           count == Cardinality({s \in A : s.role = authority})
           priority == IF fact = "status" THEN StatusPriority(value) ELSE 0
           access == Highest({s.access : s \in A})
<1>1. authority \in Int /\ access \in Int
    <2>1. authority \in Nat /\ access \in Nat
        BY HighestRole
    <2> HIDE DEF authority, access
    <2> QED
        BY <2>1
<1>2. count \in Int /\ Cardinality(A) \in Int
    <2> HIDE DEF authority
    <2>1. {s \in A : s.role = authority} \subseteq A
        OBVIOUS
    <2> QED
        BY <2>1, FS_Subset, FS_CardinalityType DEF IsEvidence
<1>3. priority \in Int
    BY DEF StatusPriority
<1>4. WeightOf(A, fact, value) = <<authority, count, Cardinality(A), priority, access>>
    BY DEF WeightOf
<1> HIDE DEF authority, count, priority, access
<1>5. <<authority, count, Cardinality(A), priority, access>> \in [1 .. 5 -> Int]
    BY <1>1, <1>2, <1>3
<1> QED
    BY <1>4, <1>5 DEF Weights

\* One more piece of evidence makes a value weigh no less.
LEMMA MoreWeighsMore ==
    ASSUME NEW A, IsEvidence(A), NEW more, IsEvidence(A \cup {more}), NEW fact, NEW value
    PROVE  AtLeast(WeightOf(A \cup {more}, fact, value), WeightOf(A, fact, value))
<1> DEFINE B == A \cup {more}
           a == WeightOf(A, fact, value)
           b == WeightOf(B, fact, value)
           h == Highest({s.role : s \in A})
           k == Highest({s.role : s \in B})
           countA == Cardinality({s \in A : s.role = h})
           countB == Cardinality({s \in B : s.role = k})
<1>1. SUFFICES ASSUME more \notin A PROVE Above(b, a)
    <2>1. more \in A => B = A
        OBVIOUS
    <2> QED
        BY <2>1 DEF AtLeast
<1>2. /\ h \in Nat /\ \A s \in A : s.role <= h /\ s.role \in Nat
      /\ \E s \in A : s.role = h
      /\ k \in Nat /\ \A s \in B : s.role <= k
      /\ \E s \in B : s.role = k
      /\ more.role \in Nat
    <2>1. /\ h \in {s.role : s \in A} /\ h \in Nat /\ \A s \in A : s.role <= h
          /\ k \in {s.role : s \in B} /\ k \in Nat /\ \A s \in B : s.role <= k
        BY HighestRole
    <2> HIDE DEF h, k
    <2> QED
        BY <2>1 DEF IsEvidence
<1>3. /\ a[1] = h /\ a[2] = countA /\ a[3] = Cardinality(A)
      /\ b[1] = k /\ b[2] = countB /\ b[3] = Cardinality(B)
    BY DEF WeightOf
<1>4. DOMAIN a = 1 .. 5 /\ DOMAIN b = 1 .. 5 /\ a \in Weights /\ b \in Weights
    <2>1. a \in Weights /\ b \in Weights
        BY WeightNumbers
    <2> QED
        BY <2>1 DEF Weights
<1> HIDE DEF a, b
<1>5. more.role <= h => k = h
    BY <1>2
<1>6. more.role > h => k > h
    BY <1>2
<1>7. CASE more.role > h
    <2>1. b[1] > a[1] /\ 1 \in DOMAIN b /\ \A m \in 1 .. 0 : b[m] = a[m]
        BY <1>3, <1>4, <1>6, <1>7
    <2> QED
        BY <2>1 DEF Above
<1>8. IsFiniteSet(A) /\ Cardinality(A) \in Nat
    BY FS_CardinalityType DEF IsEvidence
<1>9. CASE more.role = h
    <2>1. k = h
        BY <1>2, <1>5, <1>9
    <2>2. {s \in B : s.role = k} = {s \in A : s.role = h} \cup {more}
        BY <1>9, <2>1
    <2>3. IsFiniteSet({s \in A : s.role = h}) /\ more \notin {s \in A : s.role = h}
        <3> HIDE DEF h
        <3> QED
            BY <1>1, <1>8, FS_Subset
    <2>4. countB = countA + 1 /\ countA \in Nat
        <3> DEFINE S == {s \in A : s.role = h}
        <3> HIDE DEF S
        <3>1. IsFiniteSet(S) /\ more \notin S
            BY <2>3 DEF S
        <3>2. Cardinality(S \cup {more}) = Cardinality(S) + 1 /\ Cardinality(S) \in Nat
            BY <3>1, FS_AddElement, FS_CardinalityType
        <3> QED
            BY <2>2, <3>2 DEF S
    <2> HIDE DEF countA, countB, h, k
    <2>5. b[2] > a[2]
        BY <1>3, <2>4
    <2>6. b[1] = a[1]
        BY <1>3, <2>1
    <2>7. \A m \in 1 .. 2 - 1 : b[m] = a[m]
        BY <2>6
    <2>8. 2 \in DOMAIN b
        BY <1>4
    <2> QED
        BY <2>5, <2>7, <2>8 DEF Above
<1>10. CASE more.role < h
    <2>1. k = h
        BY <1>2, <1>5, <1>10
    <2>2. {s \in B : s.role = k} = {s \in A : s.role = h}
        <3> HIDE DEF h, k
        <3>1. more.role # k /\ A \subseteq B /\ \A s \in B : s \in A \/ s = more
            BY <1>2, <1>10, <2>1
        <3> HIDE DEF B
        <3> QED
            BY <2>1, <3>1
    <2>3. countB = countA
        BY <2>2
    <2>4. Cardinality(B) = Cardinality(A) + 1
        BY <1>1, <1>8, FS_AddElement
    <2> HIDE DEF countA, countB, h, k, B
    <2>5. b[3] > a[3]
        BY <1>3, <1>8, <2>4
    <2>6. b[1] = a[1] /\ b[2] = a[2]
        BY <1>3, <2>1, <2>3
    <2>7. \A m \in 1 .. 3 - 1 : b[m] = a[m]
        <3>1. \A m \in 1 .. 3 - 1 : m = 1 \/ m = 2
            OBVIOUS
        <3> QED
            BY <2>6, <3>1
    <2>8. 3 \in DOMAIN b
        BY <1>4
    <2> QED
        BY <2>5, <2>7, <2>8 DEF Above
<1>11. more.role > h \/ more.role = h \/ more.role < h
    BY <1>2
<1> QED
    BY <1>7, <1>9, <1>10, <1>11

\* One more piece of evidence for a value: what is unchanged, and what is not.
LEMMA EventStays ==
    ASSUME NEW signals, AreSignals(signals), NEW c \in Claims(signals),
           NEW more, more.corroborates, more.events = {c.event}
    PROVE  EventOf(signals \cup {more}) = EventOf(signals)
<1> DEFINE after == signals \cup {more}
           S == Corroborating(signals)
           events == {s.events : s \in S}
           eventsAfter == {s.events : s \in Corroborating(after)}
           One(E) == Cardinality(E) = 1 /\ \A es \in E : Cardinality(es) = 1
<1>1. c.event = EventOf(signals) /\ c.event # "none"
    BY ClaimFacts
<1>2. /\ EventOf(signals) = IF One(events) THEN CHOOSE e \in UNION events : TRUE ELSE "none"
      /\ EventOf(after) = IF One(eventsAfter) THEN CHOOSE e \in UNION eventsAfter : TRUE ELSE "none"
    BY DEF EventOf
<1>3. One(events) /\ c.event = CHOOSE e \in UNION events : TRUE
    <2> HIDE DEF One, events, eventsAfter
    <2> QED
        BY <1>1, <1>2
<1>4. IsFiniteSet(events)
    <2> DEFINE eventsOf == [s \in S |-> s.events]
    <2>1. IsFiniteSet(S)
        <3>1. S \subseteq signals
            BY DEF Corroborating
        <3> HIDE DEF S
        <3> QED
            BY <3>1, FS_Subset DEF AreSignals
    <2>2. eventsOf = [s \in S |-> eventsOf[s]] /\ events = {eventsOf[s] : s \in S}
        OBVIOUS
    <2> HIDE DEF eventsOf, events, S
    <2>3. IsFiniteSet({eventsOf[s] : s \in S})
        BY <2>1, <2>2, ImageIsFinite
    <2> QED
        BY <2>2, <2>3
<1>5. PICK es : events = {es}
    <2> HIDE DEF events
    <2> QED
        BY <1>3, <1>4, FS_Singleton
<1>6. IsFiniteSet(es) /\ Cardinality(es) = 1
    <2>1. PICK s \in S : es = s.events
        BY <1>5
    <2>2. IsFiniteSet(es)
        BY <2>1 DEF AreSignals, Corroborating
    <2> QED
        BY <1>3, <1>5, <2>2
<1>7. PICK e : es = {e}
    BY <1>6, FS_Singleton
<1>8. events = {{e}}
    BY <1>5, <1>7
<1>9. Corroborating(after) = S \cup {more}
    BY DEF Corroborating
<1>10. eventsAfter = events \cup {more.events}
    BY <1>9
<1> HIDE DEF events, eventsAfter, One
<1>11. UNION events = {e}
    BY <1>8
<1>12. c.event = e
    BY <1>3, <1>11
<1>13. eventsAfter = events
    BY <1>8, <1>10, <1>12
<1> QED
    BY <1>2, <1>13

LEMMA MoreKeepsTheFact ==
    ASSUME NEW signals, AreSignals(signals), NEW c \in ReconciledFacts(signals),
           NEW role \in Nat, NEW access \in Nat
    PROVE  LET more == [corroborates |-> TRUE, events |-> {c.event}, facts |-> {c},
                        role |-> role, access |-> access]
           IN  c \in ReconciledFacts(signals \cup {more})
<1> DEFINE more == [corroborates |-> TRUE, events |-> {c.event}, facts |-> {c},
                    role |-> role, access |-> access]
           after == signals \cup {more}
           fact == c.fact
           A == Evidence(signals, c.fact, c.value)
           a == Weight(signals, c.fact, c.value)
           b == Weight(after, c.fact, c.value)
<1>1. /\ more.corroborates /\ more.events = {c.event} /\ more.facts = {c}
      /\ more.role \in Nat /\ more.access \in Nat
    OBVIOUS
<1> HIDE DEF more
<1>2. c \in Claims(signals)
    BY DEF ReconciledFacts
<1>3. EventOf(after) = EventOf(signals)
    BY <1>1, <1>2, EventStays
<1>4. Corroborating(after) = Corroborating(signals) \cup {more}
    BY <1>1 DEF Corroborating
<1>5. Claims(after) = Claims(signals)
    <2>1. /\ Claims(after) =
                 {d \in UNION {s.facts : s \in Corroborating(after)} : d.event = EventOf(after)}
          /\ Claims(signals) =
                 {d \in UNION {s.facts : s \in Corroborating(signals)} : d.event = EventOf(signals)}
        BY DEF Claims
    <2>2. UNION {s.facts : s \in Corroborating(after)} =
              (UNION {s.facts : s \in Corroborating(signals)}) \cup {c}
        BY <1>1, <1>4
    <2>3. c \in UNION {s.facts : s \in Corroborating(signals)}
        BY <1>2 DEF Claims
    <2> QED
        BY <1>3, <2>1, <2>2, <2>3
<1>6. c = [event |-> EventOf(signals), fact |-> c.fact, value |-> c.value]
    BY <1>2, ClaimFacts
<1>7. Evidence(after, c.fact, c.value) = A \cup {more}
    BY <1>1, <1>3, <1>4, <1>6 DEF Evidence
<1>8. ASSUME NEW d \in Claims(signals), d.fact = c.fact, d # c
      PROVE  Evidence(after, d.fact, d.value) = Evidence(signals, d.fact, d.value)
    <2>1. d = [event |-> EventOf(signals), fact |-> d.fact, value |-> d.value]
        BY ClaimFacts
    <2>2. [event |-> EventOf(signals), fact |-> d.fact, value |-> d.value] \notin more.facts
        BY <1>1, <1>8, <2>1
    <2> QED
        BY <1>3, <1>4, <2>2 DEF Evidence
<1>9. IsEvidence(A) /\ IsEvidence(A \cup {more})
    <2>1. IsEvidence(A)
        BY <1>2, EvidenceFacts
    <2> HIDE DEF A, after
    <2>2. IsFiniteSet(A \cup {more})
        BY <2>1, FS_AddElement DEF IsEvidence
    <2> QED
        BY <1>1, <2>1, <2>2 DEF IsEvidence
<1>10. /\ a = WeightOf(A, c.fact, c.value) /\ b = WeightOf(A \cup {more}, c.fact, c.value)
    BY <1>7, WeightIs
<1>11. AtLeast(b, a) /\ a \in Weights /\ b \in Weights
    <2> HIDE DEF A, a, b, after
    <2>1. AtLeast(b, a)
        BY <1>9, <1>10, MoreWeighsMore
    <2>2. a \in Weights /\ b \in Weights
        BY <1>9, <1>10, WeightNumbers
    <2> QED
        BY <2>1, <2>2
<1>12. ASSUME NEW d \in Claims(signals), d.fact = c.fact, d # c
       PROVE  Beats(after, c, d)
    <2> DEFINE w == Weight(signals, d.fact, d.value)
    <2>1. Weight(after, d.fact, d.value) = w
        BY <1>8, <1>12, WeightIs
    <2>2. w \in Weights
        BY EvidenceFacts, WeightIs, WeightNumbers
    <2>3. Beats(signals, c, d)
        BY <1>12 DEF ReconciledFacts
    <2>4. Above(a, w) \/ (a = w /\ Letter(c.value) < Letter(d.value))
        BY <2>3 DEF Beats
    <2>5. Above(b, w) \/ (b = w /\ Letter(c.value) < Letter(d.value))
        <3> HIDE DEF a, b, w
        <3>1. Above(b, a) /\ Above(a, w) => Above(b, w)
            BY <1>11, <2>2, AboveTransitive DEF Weights
        <3> QED
            BY <1>11, <2>4, <3>1 DEF AtLeast
    <2> QED
        BY <2>1, <2>5 DEF Beats
<1>13. c \in ReconciledFacts(after)
    BY <1>2, <1>5, <1>12 DEF ReconciledFacts
<1> QED
    BY <1>13 DEF more

----------------------------------------------------------------------------
(* What has been grouped, and from what.                                     *)

GroupsInv ==
    /\ grouping = "research" => IsResearch(collected)
    /\ grouping = "news" => IsNews(collected)
    /\ grouping = "signals" => AreSignals(collected)
    /\ grouping = "consolidated" => IsResearch(collected) /\ grouped = Consolidate(collected)
    /\ grouping = "clustered" => IsNews(collected) /\ grouped.developments = ClusterNews(collected)
    /\ grouping = "reconciled" => AreSignals(collected) /\ grouped = ReconciledFacts(collected)

LEMMA GroupsInvariant == GroupsSpec => []GroupsInv
<1>1. GroupsInit => GroupsInv
    BY DEF GroupsInit, GroupsInv
<1>2. GroupsInv /\ [GroupsNext]_groupsVars => GroupsInv'
    <2> SUFFICES ASSUME GroupsInv, [GroupsNext]_groupsVars PROVE GroupsInv'
        OBVIOUS
    <2>1. CASE ConsolidateResearch
        BY <2>1 DEF ConsolidateResearch, GroupsInv
    <2>2. CASE ClusterTheNews
        BY <2>2 DEF ClusterTheNews, GroupsInv
    <2>3. CASE ReconcileFacts
        BY <2>3 DEF ReconcileFacts, GroupsInv
    <2>4. CASE UNCHANGED groupsVars
        BY <2>4 DEF groupsVars, GroupsInv
    <2> QED
        BY <2>1, <2>2, <2>3, <2>4 DEF GroupsNext
<1> QED
    BY <1>1, <1>2, PTL DEF GroupsSpec

\* The papers of a consolidation are the groups of the papers.
LEMMA ConsolidatedPapers ==
    ASSUME NEW items, IsResearch(items), NEW e \in Consolidate(items).papers
    PROVE  \E papers : IsList(papers) /\ \E g \in GroupByResearchIdentity(papers) :
               e.members = {papers[i] : i \in g}
<1> DEFINE papers == OfKind(items, FALSE)
<1>1. PICK g \in GroupByResearchIdentity(papers) : e.members = {papers[i] : i \in g}
    <2> DEFINE commentary == OfKind(items, TRUE)
               merged == {[of |-> g, item |-> MergeItemGroup(commentary, g)] :
                              g \in GroupByResearchIdentity(commentary)}
               Matches(m, g) == \E i \in g : CommentaryMatches(m.item, papers[i])
               Entry(g) == [members  |-> {papers[i] : i \in g},
                            item     |-> MergeItemGroup(papers, g),
                            attached |-> UNION {{commentary[i] : i \in m.of} :
                                                  m \in {m \in merged : Matches(m, g)}}]
    <2>1. Consolidate(items).papers = {Entry(g) : g \in GroupByResearchIdentity(papers)}
        BY DEF Consolidate
    <2>2. \A g : Entry(g).members = {papers[i] : i \in g}
        OBVIOUS
    <2> HIDE DEF Entry, papers
    <2> QED
        BY <2>1, <2>2
<1>2. IsKind(papers, items, FALSE)
    BY OfKindIsAll, Zenon DEF IsResearch
<1> HIDE DEF papers
<1> QED
    BY <1>1, <1>2 DEF IsKind

(* The members of a group of papers are linked with each other by common     *)
(* identifiers of every family some of them have, whichever pairs were       *)
(* compared first: the identities recorded for a group are those of all its  *)
(* members, and are compared before it is joined with another.               *)
THEOREM GroupsOnePaper == GroupsSpec => []GroupsAreOnePaper
<1>1. GroupsInv => GroupsAreOnePaper
    <2> SUFFICES ASSUME GroupsInv, grouping = "consolidated", NEW e \in grouped.papers, NEW f \in IdFamilies
                 PROVE  OnePaper(e.members, f)
        BY DEF GroupsAreOnePaper, OnePaper
    <2>1. IsResearch(collected) /\ e \in Consolidate(collected).papers
        BY DEF GroupsInv
    <2>2. PICK papers : IsList(papers) /\ \E g \in GroupByResearchIdentity(papers) :
              e.members = {papers[i] : i \in g}
        BY <2>1, ConsolidatedPapers
    <2> QED
        BY <2>2, GroupsAreLinked
<1> QED
    BY <1>1, GroupsInvariant, PTL

(* Commentary that names a paper is attached to the group of the paper,      *)
(* whichever commentary it was merged with: a merged item keeps the links    *)
(* and identities of its members, and has the key of one of them.            *)
THEOREM GroupsKeepExplicitLinks == GroupsSpec => []ExplicitLinksAreKept
<1>1. GroupsInv => ExplicitLinksAreKept
    <2> SUFFICES ASSUME GroupsInv, grouping = "consolidated",
                        NEW c \in Members(collected), NEW p \in Members(collected),
                        c.commentary, ~p.commentary, ExplicitMatch(c, p)
                 PROVE  LinkKept(c, p, grouped)
        BY DEF ExplicitLinksAreKept, LinkKept
    <2>1. IsResearch(collected) /\ grouped = Consolidate(collected)
        BY DEF GroupsInv
    <2> QED
        BY <2>1, LinksAreKept
<1> QED
    BY <1>1, GroupsInvariant, PTL

(* However many news items there are and whatever their days, developments   *)
(* do not drift: every item is in one, within the window of all others in    *)
(* it, and a later one is opened only for what no earlier one could take.    *)
THEOREM GroupsDevelopmentsAreCompact == GroupsSpec => []DevelopmentsAreCompact
<1>1. GroupsInv => DevelopmentsAreCompact
    <2> SUFFICES ASSUME GroupsInv, grouping = "clustered"
                 PROVE  Compact(collected, grouped.developments)
        BY DEF DevelopmentsAreCompact, Compact
    <2>1. IsNews(collected) /\ grouped.developments = ClusterNews(collected)
        BY DEF GroupsInv
    <2>2. Placed(grouped.developments, collected, Len(collected)) /\ IsList(collected)
        BY <2>1, GroupsAssumption, NewsArePlaced DEF IsNews
    <2> QED
        BY <2>2, PlacedAreCompact
<1> QED
    BY <1>1, GroupsInvariant, PTL

(* One more source of any role and access for the value of a fact leaves the *)
(* value chosen: its weight does not fall and the others' stay, since the    *)
(* weight is led by the best role, the sources of that role and all sources. *)
THEOREM GroupsMoreEvidenceKeepsTheFact == GroupsSpec => []MoreEvidenceKeepsTheFact
<1>1. GroupsInv => MoreEvidenceKeepsTheFact
    <2> SUFFICES ASSUME GroupsInv, grouping = "reconciled",
                        NEW c \in grouped, NEW role \in Roles, NEW access \in Accesses
                 PROVE  LET more == [corroborates |-> TRUE, events |-> {c.event}, facts |-> {c},
                                     role |-> role, access |-> access]
                        IN  c \in ReconciledFacts(collected \cup {more})
        BY DEF MoreEvidenceKeepsTheFact
    <2>1. AreSignals(collected) /\ c \in ReconciledFacts(collected)
        BY DEF GroupsInv
    <2>2. role \in Nat /\ access \in Nat
        BY GroupsAssumption
    <2> QED
        BY <2>1, <2>2, MoreKeepsTheFact
<1> QED
    BY <1>1, GroupsInvariant, PTL
=============================================================================
