------------------------- MODULE OfficeServicesProofs -------------------------
(***************************************************************************)
(* What each of the office's services keeps to, for every value of the     *)
(* constants: its invariant holds at first and through every step of its   *)
(* own, and its properties follow.  ServicesProofs concludes from this     *)
(* that Services has them.  The variables of a service are the slots that  *)
(* its INSTANCE in OfficeServices gives it.                                *)
(***************************************************************************)
EXTENDS OfficeServices, FiniteSetTheorems, SequenceTheorems, TLAPS

(* Sequences that lost elements: sessions cut off or pulled, shifts left.  *)

Thinned(t, q) ==
    \E f \in [DOMAIN t -> DOMAIN q] :
        /\ \A i, j \in DOMAIN t : f[i] = f[j] => i = j
        /\ \A i \in DOMAIN t : t[i] = q[f[i]]

LEMMA SuffixIsThinned ==
    ASSUME NEW S, NEW q \in Seq(S), NEW n \in 1 .. Len(q) + 1
    PROVE  SubSeq(q, n, Len(q)) \in Seq(S) /\ Thinned(SubSeq(q, n, Len(q)), q)
<1>. DEFINE t == SubSeq(q, n, Len(q))
            f == [i \in DOMAIN t |-> i + n - 1]
<1>1. t \in Seq(S) /\ Len(t) = Len(q) - n + 1 /\ \A i \in 1 .. Len(t) : t[i] = q[n + i - 1]
  BY SubSeqProperties
<1>. HIDE DEF t
<1>2. f \in [DOMAIN t -> DOMAIN q] BY <1>1
<1>3. \A i, j \in DOMAIN t : f[i] = f[j] => i = j BY <1>1
<1>4. \A i \in DOMAIN t : t[i] = q[f[i]] BY <1>1
<1>. HIDE DEF f
<1>5. Thinned(t, q) BY <1>2, <1>3, <1>4 DEF Thinned
<1>. QED BY <1>1, <1>5 DEF t

LEMMA OneLessIsThinned ==
    ASSUME NEW S, NEW q \in Seq(S), NEW n \in DOMAIN q
    PROVE  /\ SubSeq(q, 1, n - 1) \o SubSeq(q, n + 1, Len(q)) \in Seq(S)
           /\ Thinned(SubSeq(q, 1, n - 1) \o SubSeq(q, n + 1, Len(q)), q)
           /\ \A i \in DOMAIN (SubSeq(q, 1, n - 1) \o SubSeq(q, n + 1, Len(q))) :
                /\ (IF i < n THEN i ELSE i + 1) \in DOMAIN q
                /\ (SubSeq(q, 1, n - 1) \o SubSeq(q, n + 1, Len(q)))[i]
                     = q[IF i < n THEN i ELSE i + 1]
<1>. DEFINE a == SubSeq(q, 1, n - 1)
            b == SubSeq(q, n + 1, Len(q))
            t == a \o b
            f == [i \in DOMAIN t |-> IF i < n THEN i ELSE i + 1]
<1>0. n \in 1 .. Len(q) /\ Len(q) \in Nat OBVIOUS
<1>1. a \in Seq(S) /\ Len(a) = n - 1 /\ \A i \in 1 .. n - 1 : a[i] = q[i]
  <2>1. \A i \in 1 .. n - 1 : q[i] \in S BY <1>0
  <2>. QED BY <1>0, <2>1, SubSeqProperties
<1>2. b \in Seq(S) /\ Len(b) = Len(q) - n /\ \A i \in 1 .. Len(q) - n : b[i] = q[n + i]
  <2>1. \A i \in n + 1 .. Len(q) : q[i] \in S BY <1>0
  <2>. QED BY <1>0, <2>1, SubSeqProperties
<1>. HIDE DEF a, b
<1>3. /\ t \in Seq(S) /\ Len(t) = Len(q) - 1
      /\ \A i \in 1 .. Len(q) - 1 : t[i] = IF i <= n - 1 THEN a[i] ELSE b[i - (n - 1)]
  <2>1. /\ t \in Seq(S) /\ Len(t) = Len(a) + Len(b)
        /\ \A i \in 1 .. Len(a) + Len(b) : t[i] = IF i <= Len(a) THEN a[i] ELSE b[i - Len(a)]
    BY <1>1, <1>2, ConcatProperties
  <2>2. Len(a) = n - 1 /\ Len(a) + Len(b) = Len(q) - 1 BY <1>0, <1>1, <1>2
  <2>. HIDE DEF t
  <2>. QED BY <2>1, <2>2
<1>. HIDE DEF t
<1>4. \A i \in DOMAIN t : t[i] = q[IF i < n THEN i ELSE i + 1]
  <2>. TAKE i \in DOMAIN t
  <2>1. i \in 1 .. Len(q) - 1 BY <1>3
  <2>2. CASE i < n BY <1>0, <1>1, <1>3, <2>1, <2>2
  <2>3. CASE ~(i < n)
    <3>a. i - (n - 1) \in 1 .. Len(q) - n /\ ~(i <= n - 1) BY <1>0, <2>1, <2>3
    <3>b. t[i] = IF i <= n - 1 THEN a[i] ELSE b[i - (n - 1)] BY <1>3, <2>1
    <3>1. t[i] = b[i - (n - 1)] /\ i - (n - 1) \in 1 .. Len(q) - n BY <3>a, <3>b, Zenon
    <3>2. b[i - (n - 1)] = q[n + (i - (n - 1))] /\ n + (i - (n - 1)) = i + 1
      BY <1>0, <1>2, <2>1, <3>1
    <3>. QED BY <2>3, <3>1, <3>2
  <2>. QED BY <2>2, <2>3
<1>5. f \in [DOMAIN t -> DOMAIN q] BY <1>0, <1>3
<1>6. \A i, j \in DOMAIN t : f[i] = f[j] => i = j BY <1>0, <1>3
<1>7. \A i \in DOMAIN t : t[i] = q[f[i]] /\ f[i] = (IF i < n THEN i ELSE i + 1) BY <1>4
<1>. HIDE DEF f
<1>8. Thinned(t, q) BY <1>5, <1>6, <1>7 DEF Thinned
<1>9. \A i \in DOMAIN t : (IF i < n THEN i ELSE i + 1) \in DOMAIN q BY <1>0, <1>3
<1>. QED BY <1>3, <1>4, <1>8, <1>9 DEF t, a, b

(* Induction: a set of numbers that is not empty has a least element.      *)
LEMMA LeastOf ==
    ASSUME NEW T \in SUBSET Nat, T # {}
    PROVE  \E x \in T : \A y \in T : x <= y
<1>1. PICK x \in T : \A y \in T : ~ (<<y, x>> \in OpToRel(<, Nat))
  BY NatLessThanWellFounded, WFMin, Zenon
<1>2. ASSUME NEW y \in T
      PROVE  x <= y
  <2>1. <<y, x>> \in Nat \X Nat => ~(y < x) BY <1>1 DEF OpToRel
  <2>. QED BY <2>1
<1>. QED BY <1>2

(* Sequences of which the positions S are left.                            *)

UpTo(S, i) == {j \in S : j <= i}
PlaceOf(S, n) == CHOOSE i \in S : Cardinality({j \in S : j <= i}) = n

LEMMA CountsGrow ==
    ASSUME NEW N \in Nat, NEW S \in SUBSET (1 .. N), NEW i \in Nat
    PROVE  /\ Cardinality(UpTo(S, i)) \in Nat
           /\ Cardinality(UpTo(S, i)) <= Cardinality(S) /\ Cardinality(S) \in Nat
           /\ UpTo(S, i + 1) = UpTo(S, i) \cup (S \cap {i + 1})
           /\ Cardinality(UpTo(S, i + 1))
                = Cardinality(UpTo(S, i)) + (IF i + 1 \in S THEN 1 ELSE 0)
           /\ \A j \in Nat : i < j /\ j \in S => Cardinality(UpTo(S, i)) < Cardinality(UpTo(S, j))
<1>0. \A j \in S : j \in Nat /\ 1 <= j /\ j <= N OBVIOUS
<1>1. IsFiniteSet(S) /\ Cardinality(S) \in Nat
  <2>0. 1 \in Int /\ N \in Int OBVIOUS
  <2>1. IsFiniteSet(1 .. N) BY <2>0, FS_Interval
  <2>2. IsFiniteSet(S) BY <2>1, FS_Subset, Zenon
  <2>. QED BY <2>2, FS_CardinalityType, Zenon
<1>2. \A k \in Nat : UpTo(S, k) \in SUBSET S BY DEF UpTo
<1>3. \A k \in Nat : /\ IsFiniteSet(UpTo(S, k)) /\ Cardinality(UpTo(S, k)) \in Nat
                     /\ Cardinality(UpTo(S, k)) <= Cardinality(S)
  BY <1>1, <1>2, FS_Subset, FS_CardinalityType
<1>4. UpTo(S, i + 1) = UpTo(S, i) \cup (S \cap {i + 1})
  <2>1. \A j \in S : j <= i + 1 <=> j <= i \/ j = i + 1 BY <1>0
  <2>. QED BY <2>1 DEF UpTo
<1>5. i + 1 \notin UpTo(S, i) BY DEF UpTo
<1>6. Cardinality(UpTo(S, i + 1))
        = Cardinality(UpTo(S, i)) + (IF i + 1 \in S THEN 1 ELSE 0)
  <2>1. CASE i + 1 \in S
    <3>1. UpTo(S, i + 1) = UpTo(S, i) \cup {i + 1} BY <1>4, <2>1
    <3>. QED BY <1>3, <1>5, <2>1, <3>1, FS_AddElement
  <2>2. CASE i + 1 \notin S
    <3>1. UpTo(S, i + 1) = UpTo(S, i) BY <1>4, <2>2
    <3>. QED BY <1>3, <2>2, <3>1
  <2>. QED BY <2>1, <2>2
<1>7. ASSUME NEW j \in Nat, i < j, j \in S
      PROVE  Cardinality(UpTo(S, i)) < Cardinality(UpTo(S, j))
  <2>1. UpTo(S, i) \in SUBSET UpTo(S, j) /\ j \in UpTo(S, j) /\ j \notin UpTo(S, i)
    <3>1. /\ j <= j /\ ~(j <= i)
          /\ \A k \in S : k <= i => k <= j
      BY <1>0, <1>7
    <3>. QED BY <1>7, <3>1 DEF UpTo
  <2>2. /\ Cardinality(UpTo(S, i)) <= Cardinality(UpTo(S, j))
        /\ Cardinality(UpTo(S, i)) # Cardinality(UpTo(S, j))
    BY <1>3, <2>1, FS_Subset
  <2>. QED BY <1>3, <2>2
<1>. QED BY <1>1, <1>3, <1>4, <1>6, <1>7

LEMMA PlacesAreThere ==
    ASSUME NEW N \in Nat, NEW S \in SUBSET (1 .. N), NEW n \in 1 .. Cardinality(S)
    PROVE  PlaceOf(S, n) \in S /\ Cardinality(UpTo(S, PlaceOf(S, n))) = n
<1>. DEFINE T == {k \in Nat : Cardinality(UpTo(S, k)) >= n}
<1>1. UpTo(S, N) = S /\ UpTo(S, 0) = {}
  <2>1. \A j \in S : j <= N /\ ~(j <= 0) OBVIOUS
  <2>. QED BY <2>1 DEF UpTo
<1>2. N \in T /\ 0 \notin T
  <2>1. Cardinality(S) \in Nat /\ Cardinality({}) = 0 BY CountsGrow, FS_EmptySet
  <2>. QED BY <1>1, <2>1
<1>3. PICK x \in T : \A y \in T : x <= y
  <2>. HIDE DEF T
  <2>1. T \in SUBSET Nat /\ T # {} BY <1>2 DEF T
  <2>. QED BY <2>1, LeastOf
<1>4. PICK y \in Nat : x = y + 1
  <2>1. x \in Nat /\ x # 0 BY <1>2, <1>3
  <2>2. x - 1 \in Nat /\ x = (x - 1) + 1 BY <2>1
  <2>. QED BY <2>2
<1>5. /\ Cardinality(UpTo(S, y)) \in Nat
      /\ Cardinality(UpTo(S, y + 1)) = Cardinality(UpTo(S, y)) + (IF y + 1 \in S THEN 1 ELSE 0)
  BY CountsGrow, Zenon
<1>6. Cardinality(UpTo(S, x)) >= n /\ ~(Cardinality(UpTo(S, y)) >= n) BY <1>3, <1>4
<1>7. x \in S /\ Cardinality(UpTo(S, x)) = n BY <1>4, <1>5, <1>6
<1>. QED BY <1>7 DEF PlaceOf, UpTo

Rest(q, S) == [n \in 1 .. Cardinality(S) |-> q[PlaceOf(S, n)]]

LEMMA KeptIsRest ==
    ASSUME NEW q, NEW S
    PROVE  Jobs!Kept(q, S) = Rest(q, S)
BY Zenon DEF Jobs!Kept, Rest, PlaceOf, Cardinality, Jobs!Cardinality

(* It has the elements of those positions, in the same order.              *)
LEMMA RestIsThinned ==
    ASSUME NEW V, NEW q \in Seq(V), NEW S \in SUBSET DOMAIN q
    PROVE  /\ Rest(q, S) \in Seq(V) /\ Thinned(Rest(q, S), q)
           /\ Len(Rest(q, S)) = Cardinality(S) /\ Cardinality(S) <= Len(q)
           /\ \A n \in DOMAIN Rest(q, S) :
                PlaceOf(S, n) \in S /\ Rest(q, S)[n] = q[PlaceOf(S, n)]
           /\ \A n, k \in DOMAIN Rest(q, S) : n < k => PlaceOf(S, n) < PlaceOf(S, k)
           /\ \A i \in S : \E n \in DOMAIN Rest(q, S) : Rest(q, S)[n] = q[i] /\ PlaceOf(S, n) = i
<1>. DEFINE c == Cardinality(S)
            f == [n \in 1 .. c |-> PlaceOf(S, n)]
            r == Rest(q, S)
<1>1. Len(q) \in Nat /\ S \in SUBSET (1 .. Len(q)) /\ DOMAIN q = 1 .. Len(q) OBVIOUS
<1>2. c \in Nat /\ c <= Len(q)
  <2>0. 1 \in Int /\ Len(q) \in Int /\ (IF 1 > Len(q) THEN 0 ELSE Len(q) - 1 + 1) = Len(q) BY <1>1
  <2>1. IsFiniteSet(1 .. Len(q)) /\ Cardinality(1 .. Len(q)) = Len(q) BY <2>0, FS_Interval, Zenon
  <2>2. IsFiniteSet(S) /\ c <= Cardinality(1 .. Len(q)) BY <1>1, <2>1, FS_Subset
  <2>3. c \in Nat BY <2>2, FS_CardinalityType
  <2>. QED BY <2>1, <2>2, <2>3
<1>. HIDE DEF c
<1>3. \A n \in 1 .. c : PlaceOf(S, n) \in S /\ Cardinality(UpTo(S, PlaceOf(S, n))) = n
  BY <1>1, PlacesAreThere DEF c
<1>4. r = [n \in 1 .. c |-> q[PlaceOf(S, n)]] BY DEF Rest, c
<1>. HIDE DEF r
<1>5. r \in Seq(V) /\ Len(r) = c /\ DOMAIN r = 1 .. c
  <2>1. r \in [1 .. c -> V] BY <1>1, <1>3, <1>4
  <2>. QED BY <1>2, <2>1, IsASeq
<1>6. \A n \in 1 .. c : r[n] = q[PlaceOf(S, n)] BY <1>4
<1>7. \A n, k \in 1 .. c : n < k => PlaceOf(S, n) < PlaceOf(S, k)
  <2>. SUFFICES ASSUME NEW n \in 1 .. c, NEW k \in 1 .. c, n < k, ~(PlaceOf(S, n) < PlaceOf(S, k))
                PROVE  FALSE
    OBVIOUS
  <2>1. /\ PlaceOf(S, n) \in Nat /\ PlaceOf(S, k) \in Nat /\ PlaceOf(S, n) \in S
        /\ Cardinality(UpTo(S, PlaceOf(S, n))) = n /\ Cardinality(UpTo(S, PlaceOf(S, k))) = k
    BY <1>1, <1>3
  <2>2. CASE PlaceOf(S, n) = PlaceOf(S, k) BY <2>1, <2>2
  <2>3. CASE PlaceOf(S, k) < PlaceOf(S, n)
    <3>1. Cardinality(UpTo(S, PlaceOf(S, k))) < Cardinality(UpTo(S, PlaceOf(S, n)))
      BY <1>1, <2>1, <2>3, CountsGrow
    <3>. QED BY <2>1, <3>1
  <2>. QED BY <2>1, <2>2, <2>3
<1>8. Thinned(r, q)
  <2>1. f \in [DOMAIN r -> DOMAIN q] BY <1>1, <1>3, <1>5
  <2>2. \A n, k \in DOMAIN r : f[n] = f[k] => n = k
    <3>1. \A n, k \in 1 .. c : PlaceOf(S, n) = PlaceOf(S, k) => n = k BY <1>3
    <3>. QED BY <1>5, <3>1
  <2>3. \A n \in DOMAIN r : r[n] = q[f[n]] BY <1>5, <1>6
  <2>. HIDE DEF f
  <2>. QED BY <2>1, <2>2, <2>3 DEF Thinned
<1>9. ASSUME NEW i \in S
      PROVE  \E n \in DOMAIN r : r[n] = q[i] /\ PlaceOf(S, n) = i
  <2>. DEFINE n == Cardinality(UpTo(S, i))
  <2>1. n \in 1 .. c
    <3>1. i \in UpTo(S, i) /\ UpTo(S, 0) = {} /\ i \in Nat /\ 0 < i BY <1>1 DEF UpTo
    <3>2. Cardinality(UpTo(S, 0)) < Cardinality(UpTo(S, i)) /\ Cardinality(UpTo(S, i)) <= c
          /\ Cardinality(UpTo(S, i)) \in Nat
      BY <1>1, <3>1, CountsGrow DEF c
    <3>3. Cardinality(UpTo(S, 0)) = 0 BY <3>1, FS_EmptySet
    <3>. QED BY <1>2, <3>2, <3>3
  <2>. HIDE DEF n
  <2>2. PlaceOf(S, n) = i
    <3>1. /\ PlaceOf(S, n) \in S /\ Cardinality(UpTo(S, PlaceOf(S, n))) = n
          /\ PlaceOf(S, n) \in Nat /\ i \in Nat /\ Cardinality(UpTo(S, i)) = n
          /\ n \in Nat
      BY <1>1, <1>3, <2>1 DEF n
    <3>2. ~(PlaceOf(S, n) < i)
      <4>1. PlaceOf(S, n) < i => n < n BY <1>1, <3>1, CountsGrow
      <4>. QED BY <3>1, <4>1
    <3>3. ~(i < PlaceOf(S, n))
      <4>1. i < PlaceOf(S, n) => n < n BY <1>1, <3>1, CountsGrow
      <4>. QED BY <3>1, <4>1
    <3>. QED BY <3>1, <3>2, <3>3
  <2>. QED BY <1>5, <1>6, <2>1, <2>2
<1>. QED BY <1>2, <1>3, <1>5, <1>6, <1>7, <1>8, <1>9 DEF r, c

(* ServiceBilling: day is v1, service v2, renewing v3, run v4, reminders   *)
(* v5, course v6, overlap v7, doubled v8, edits v9 and runs v10.           *)

BillingVars == <<v1, v2, v3, v4, v5, v6, v7, v8, v9, v10>>

BillingRun == [stage : {"idle", "expire", "soon", "activate", "find", "send", "mark"},
               kind : {"list", "remind"}, day : 0..MaxDay,
               renewal : 0..Bills!LastDay, reminded : Bills!Never..MaxDay]

BillingCourse == [date : 0..Bills!LastDay, history : 0..MaxRenewals, crossed : BOOLEAN]

\* The dates that are set lie within the bound.
LEMMA BillingBounds ==
    /\ CycleMonths \in Nat /\ Soon \in Nat /\ MaxDay \in Nat /\ MaxRenewals \in Nat
    /\ MaxEdits \in Nat /\ MaxRuns \in Nat /\ Months \in Nat /\ Months > 0
    /\ Bills!LastDay \in Nat /\ MaxDay + Soon + 1 <= Bills!LastDay
    /\ 0..MonthStart[1]-1 \subseteq 0..Bills!LastDay
<1>1. /\ CycleMonths \in Nat /\ Soon \in Nat /\ MaxDay \in Nat /\ MaxRenewals \in Nat
      /\ MaxEdits \in Nat /\ MaxRuns \in Nat /\ Months \in Nat /\ Months > 0 /\ Bills!Calendar
      /\ MaxDay + Soon + 1 <= Bills!LastDay
  BY ServiceBillingAssumed DEF Bills!BillingAssumption
<1>2. MonthStart[Months] \in Nat /\ MonthStart[1] \in Nat BY <1>1 DEF Bills!Calendar
<1>3. Bills!LastDay \in Nat BY <1>1, <1>2 DEF Bills!LastDay
<1>4. MonthStart[1] <= MonthStart[Months]
  <2>1. CASE Months = 1 BY <1>2, <2>1
  <2>2. CASE Months > 1
    <3>1. MonthStart[1] + Shortest <= MonthStart[Months] BY <1>1, <2>2 DEF Bills!Calendar
    <3>. QED BY <1>1, <1>2, <3>1 DEF Bills!Calendar
  <2>. QED BY <1>1, <2>1, <2>2
<1>. QED BY <1>1, <1>2, <1>3, <1>4 DEF Bills!LastDay

\* A day lies in one month.
LEMMA MonthLength ==
    ASSUME NEW m \in 0..Months, m < Months
    PROVE  /\ m + 1 \in 0..Months /\ MonthStart[m] \in Nat /\ MonthStart[m + 1] \in Nat
           /\ Shortest \in Nat /\ Longest \in Nat /\ Longest <= 2 * Shortest
           /\ MonthStart[m] + Shortest <= MonthStart[m + 1]
           /\ MonthStart[m + 1] <= MonthStart[m] + Longest
<1>1. Bills!Calendar /\ Months \in Nat BY ServiceBillingAssumed DEF Bills!BillingAssumption
<1>2. m + 1 \in 0..Months /\ m \in 0..Months-1 /\ m < m + 1 BY <1>1
<1>. QED BY <1>1, <1>2 DEF Bills!Calendar

LEMMA OneMonth ==
    ASSUME NEW d \in Int, NEW m \in 0..Months, NEW n \in 0..Months, m < Months, n < Months,
           MonthStart[m] <= d, d < MonthStart[m + 1], MonthStart[n] <= d, d < MonthStart[n + 1]
    PROVE  m = n
<1>1. Bills!Calendar /\ Months \in Nat BY ServiceBillingAssumed DEF Bills!BillingAssumption
<1>2. ASSUME NEW i \in 0..Months, NEW j \in 0..Months, i < j, j < Months,
             d < MonthStart[i + 1], MonthStart[j] <= d
      PROVE  FALSE
  <2>1. i + 1 \in 0..Months /\ i < Months BY <1>1, <1>2
  <2>2. MonthStart[i + 1] \in Nat /\ MonthStart[j] \in Nat /\ Shortest \in Nat
    BY <1>2, <2>1, MonthLength
  <2>3. CASE i + 1 = j BY <1>2, <2>2, <2>3
  <2>4. CASE i + 1 < j
    <3>1. MonthStart[i + 1] + Shortest <= MonthStart[j] BY <1>1, <2>1, <2>4 DEF Bills!Calendar
    <3>. QED BY <1>2, <2>2, <3>1
  <2>. QED BY <1>2, <2>3, <2>4
<1>. QED BY <1>2

LEMMA MonthOfDay ==
    ASSUME NEW d \in 0..Bills!LastDay
    PROVE  /\ Bills!MonthOf(d) \in 0..Months /\ Bills!MonthOf(d) < Months
           /\ MonthStart[Bills!MonthOf(d)] <= d /\ d < MonthStart[Bills!MonthOf(d) + 1]
<1>1. Bills!Calendar /\ Months \in Nat BY ServiceBillingAssumed DEF Bills!BillingAssumption
<1>2. \E m \in 0..Months-1 : MonthStart[m] <= d /\ d < MonthStart[m + 1]
  BY <1>1 DEF Bills!Calendar
<1>3. /\ Bills!MonthOf(d) \in 0..Months-1
      /\ MonthStart[Bills!MonthOf(d)] <= d /\ d < MonthStart[Bills!MonthOf(d) + 1]
  BY <1>2 DEF Bills!MonthOf
<1>. QED BY <1>1, <1>3

LEMMA MonthIs ==
    ASSUME NEW d \in Int, NEW m \in 0..Months, m < Months,
           MonthStart[m] <= d, d < MonthStart[m + 1]
    PROVE  /\ d \in 0..Bills!LastDay
           /\ Bills!MonthOf(d) = m /\ Bills!DayOfMonth(d) = d - MonthStart[m]
<1>1. Bills!Calendar /\ Months \in Nat BY ServiceBillingAssumed DEF Bills!BillingAssumption
<1>2. MonthStart[m] \in Nat /\ MonthStart[m + 1] \in Nat /\ MonthStart[Months] \in Nat
      /\ Shortest \in Nat
  BY <1>1, MonthLength DEF Bills!Calendar
<1>3. MonthStart[m + 1] <= MonthStart[Months]
  <2>1. CASE m + 1 = Months BY <1>2, <2>1
  <2>2. CASE m + 1 < Months
    <3>1. MonthStart[m + 1] + Shortest <= MonthStart[Months] BY <1>1, <2>2 DEF Bills!Calendar
    <3>. QED BY <1>2, <3>1
  <2>. QED BY <1>1, <2>1, <2>2
<1>4. d \in 0..Bills!LastDay BY <1>2, <1>3 DEF Bills!LastDay
<1>5. Bills!MonthOf(d) = m BY <1>4, MonthOfDay, OneMonth
<1>. QED BY <1>4, <1>5 DEF Bills!DayOfMonth

\* Where a date stands on a course.
Stands(date, start, cycles) ==
    LET month == Bills!MonthOf(start) + cycles * CycleMonths IN
    \/ Bills!MonthOf(date) = month /\ Bills!DayOfMonth(date) = Bills!DayOfMonth(start)
    \/ Bills!MonthOf(date) = month + 1 /\ Bills!DayOfMonth(date) < Longest - Shortest

FollowsOn(date, c, history, overlapped) ==
    \E cycles \in 0..history - c.history :
        Stands(date, c.date, cycles) /\ (overlapped \/ cycles = history - c.history)

LEMMA CourseInWords ==
    /\ Bills!RenewalsAdvance <=> (v6.crossed \/ FollowsOn(v2.renewal, v6, v2.history, v7))
    /\ Bills!RenewalsAdvance' <=> (v6'.crossed \/ FollowsOn(v2'.renewal, v6', v2'.history, v7'))
    /\ \A d : Bills!Follows(d) <=> FollowsOn(d, v6, v2.history, v7)
    /\ Bills!RenewsOnCourse' <=>
         /\ v6'.history <= v2'.history
         /\ \A a \in A : v3'[a] # Bills!Never => FollowsOn(v3'[a], v6', v2'.history, v7')
         /\ \A a, b \in A : v3'[a] # Bills!Never /\ v3'[b] # Bills!Never => a = b \/ v7'
BY DEF Bills!RenewalsAdvance, Bills!RenewsOnCourse, Bills!Follows, Bills!OnCourse, FollowsOn, Stands

\* The day of the month that a date starts from fits into the month where it is
\* found, or slips into the next by the days that the longest month has more.
LEMMA LandsInMonth ==
    ASSUME NEW m \in 0..Months, m + 1 < Months, NEW n \in 0..Longest-1
    PROVE  /\ MonthStart[m] + n \in 0..Bills!LastDay
           /\ \/ /\ Bills!MonthOf(MonthStart[m] + n) = m
                 /\ Bills!DayOfMonth(MonthStart[m] + n) = n
              \/ /\ n >= Shortest
                 /\ Bills!MonthOf(MonthStart[m] + n) = m + 1
                 /\ Bills!DayOfMonth(MonthStart[m] + n) < Longest - Shortest
<1>1. Months \in Nat /\ m < Months /\ m + 1 \in 0..Months BY BillingBounds
<1>2. /\ MonthStart[m] \in Nat /\ MonthStart[m + 1] \in Nat
      /\ Shortest \in Nat /\ Longest \in Nat /\ Longest <= 2 * Shortest
      /\ MonthStart[m] + Shortest <= MonthStart[m + 1]
  BY <1>1, MonthLength
<1>3. /\ MonthStart[(m + 1) + 1] \in Nat
      /\ MonthStart[m + 1] + Shortest <= MonthStart[(m + 1) + 1]
  BY <1>1, MonthLength
<1>4. CASE MonthStart[m] + n < MonthStart[m + 1]
  <2>1. /\ MonthStart[m] + n \in Int /\ MonthStart[m] <= MonthStart[m] + n
        /\ (MonthStart[m] + n) - MonthStart[m] = n
    BY <1>2
  <2>. QED BY <1>1, <1>4, <2>1, MonthIs
<1>5. CASE MonthStart[m + 1] <= MonthStart[m] + n
  <2>1. /\ MonthStart[m] + n \in Int /\ n >= Shortest
        /\ MonthStart[m] + n < MonthStart[(m + 1) + 1]
        /\ (MonthStart[m] + n) - MonthStart[m + 1] < Longest - Shortest
    BY <1>2, <1>3, <1>5
  <2>. QED BY <1>1, <1>5, <2>1, MonthIs
<1>. QED BY <1>2, <1>4, <1>5

LEMMA DayFits ==
    ASSUME NEW d \in 0..Bills!LastDay
    PROVE  Bills!DayOfMonth(d) \in 0..Longest-1
<1>1. /\ Bills!MonthOf(d) \in 0..Months /\ Bills!MonthOf(d) < Months
      /\ MonthStart[Bills!MonthOf(d)] <= d /\ d < MonthStart[Bills!MonthOf(d) + 1]
  BY MonthOfDay
<1>2. /\ MonthStart[Bills!MonthOf(d)] \in Nat /\ MonthStart[Bills!MonthOf(d) + 1] \in Nat
      /\ Longest \in Nat
      /\ MonthStart[Bills!MonthOf(d) + 1] <= MonthStart[Bills!MonthOf(d)] + Longest
  BY <1>1, MonthLength
<1>. QED BY <1>1, <1>2 DEF Bills!DayOfMonth

LEMMA CycleOn ==
    ASSUME NEW d \in 0..Bills!LastDay, NEW start \in 0..Bills!LastDay, NEW cycles \in Nat,
           Stands(d, start, cycles), Bills!MonthOf(d) + CycleMonths + 1 < Months
    PROVE  /\ Bills!NextRenewal(d) \in 0..Bills!LastDay
           /\ Stands(Bills!NextRenewal(d), start, cycles + 1)
<1>. DEFINE m == Bills!MonthOf(d) + CycleMonths
            n == Bills!DayOfMonth(d)
            s == Bills!MonthOf(start)
<1>1. /\ CycleMonths \in Nat /\ Months \in Nat
      /\ Bills!MonthOf(d) \in 0..Months /\ s \in 0..Months
  BY BillingBounds, MonthOfDay
<1>2. m \in 0..Months /\ m + 1 < Months BY <1>1
<1>3. n \in 0..Longest-1 BY DayFits
<1>4. (cycles + 1) * CycleMonths = cycles * CycleMonths + CycleMonths
      /\ cycles * CycleMonths \in Nat
  <2>1. \A k, c \in Nat : k * c \in Nat /\ (k + 1) * c = k * c + c OBVIOUS
  <2>. QED BY <1>1, <2>1
<1>5. Bills!NextRenewal(d) = MonthStart[m] + n BY DEF Bills!NextRenewal
<1>6. \/ Bills!MonthOf(d) = s + cycles * CycleMonths /\ n = Bills!DayOfMonth(start)
      \/ Bills!MonthOf(d) = s + cycles * CycleMonths + 1 /\ n < Longest - Shortest
  BY DEF Stands
<1>7. Longest \in Nat /\ Shortest \in Nat /\ Longest <= 2 * Shortest
  BY ServiceBillingAssumed DEF Bills!BillingAssumption, Bills!Calendar
<1>8. /\ Bills!NextRenewal(d) \in 0..Bills!LastDay
      /\ \/ Bills!MonthOf(Bills!NextRenewal(d)) = m /\ Bills!DayOfMonth(Bills!NextRenewal(d)) = n
         \/ /\ n >= Shortest /\ Bills!MonthOf(Bills!NextRenewal(d)) = m + 1
            /\ Bills!DayOfMonth(Bills!NextRenewal(d)) < Longest - Shortest
  <2>. HIDE DEF m, n
  <2>. QED BY <1>2, <1>3, <1>5, LandsInMonth
<1>9. CASE Bills!MonthOf(d) = s + cycles * CycleMonths /\ n = Bills!DayOfMonth(start)
  <2>1. m = s + (cycles + 1) * CycleMonths BY <1>1, <1>4, <1>9
  <2>. HIDE DEF m, n
  <2>. QED BY <1>8, <1>9, <2>1 DEF Stands
<1>10. CASE Bills!MonthOf(d) = s + cycles * CycleMonths + 1 /\ n < Longest - Shortest
  <2>1. m = s + (cycles + 1) * CycleMonths + 1 BY <1>1, <1>4, <1>10
  <2>2. ~(n >= Shortest) BY <1>3, <1>7, <1>10
  <2>. HIDE DEF m, n
  <2>. QED BY <1>8, <1>10, <2>1, <2>2 DEF Stands
<1>. QED BY <1>6, <1>9, <1>10

\* A date that is set stands at the start of the course.
LEMMA StandsAtStart ==
    ASSUME NEW d \in 0..Bills!LastDay PROVE Stands(d, d, 0)
<1>1. Bills!MonthOf(d) + 0 * CycleMonths = Bills!MonthOf(d)
  BY BillingBounds, MonthOfDay
<1>. QED BY <1>1 DEF Stands

LEMMA FollowsFromStart ==
    ASSUME NEW d \in 0..Bills!LastDay, NEW c \in BillingCourse, c.date = d, NEW overlapped
    PROVE  FollowsOn(d, c, c.history, overlapped)
<1>1. 0 \in 0..c.history - c.history /\ 0 = c.history - c.history BY DEF BillingCourse
<1>. QED BY <1>1, StandsAtStart DEF FollowsOn

LEMMA BillingStarts ==
    ASSUME Bills!Init
    PROVE  Bills!BillingInv
<1>1. Bills!Init OBVIOUS
<1>2. PICK date \in 0..MonthStart[1]-1 :
      /\ v1 = 0 /\ v3 = [a \in A |-> Bills!Never]
      /\ v2 = [active |-> TRUE, status |-> "active", renewal |-> date,
               reminded |-> Bills!Never, history |-> 0]
      /\ v6 = [date |-> date, history |-> 0, crossed |-> FALSE]
      /\ v4 = [r \in B |-> Bills!IdleRun] /\ v5 = << >>
      /\ v7 = FALSE /\ v8 = FALSE /\ v9 = 0 /\ v10 = 0
  BY <1>1, Zenon DEF Bills!Init
<1>d. date \in 0..Bills!LastDay BY <1>2, BillingBounds
<1>3. v2 \in Bills!Service /\ v2.renewal = date /\ v2.history = 0
  BY <1>2, <1>d, BillingBounds DEF Bills!Service, Bills!Never, Bills!Statuses
<1>c. v6 \in BillingCourse /\ v6.date = date /\ v6.history = 0
  BY <1>2, <1>d, BillingBounds DEF BillingCourse
<1>4. v4 \in [B -> BillingRun] /\ \A r \in B : v4[r].stage = "idle"
  BY <1>2, BillingBounds DEF BillingRun, Bills!Never, Bills!IdleRun
<1>5. v1 \in 0..MaxDay /\ v9 \in 0..MaxEdits /\ v10 \in 0..MaxRuns
  BY <1>2, BillingBounds
<1>6. v3 \in [A -> {Bills!Never} \cup 0..Bills!LastDay] BY <1>2
<1>7. v5 \in Seq(0..MaxDay) /\ DOMAIN v5 = {} BY <1>2
<1>8. v7 \in BOOLEAN /\ v8 \in BOOLEAN BY <1>2, Zenon
<1>9. Bills!TypeOK
  BY <1>3, <1>c, <1>4, <1>5, <1>6, <1>7, <1>8 DEF Bills!TypeOK, BillingRun, BillingCourse
<1>10. Bills!RenewsOnCourse /\ Bills!RemindsFromTheNote
  BY <1>2, <1>3, <1>c, <1>4, <1>7 DEF Bills!RenewsOnCourse, Bills!RemindsFromTheNote, Bills!Reminding
<1>11. Bills!RenewalsAdvance
  <2>1. FollowsOn(date, v6, v6.history, v7) BY <1>c, <1>d, FollowsFromStart
  <2>. QED BY <1>3, <1>c, <2>1, CourseInWords
<1>12. Bills!RemindedOnceADay BY <1>7 DEF Bills!RemindedOnceADay
<1>. QED BY <1>9, <1>10, <1>11, <1>12 DEF Bills!BillingInv

\* The parts of the invariant that speak of renewals, and of reminders, do not
\* see what the other calls do.
LEMMA RenewalsStay ==
    ASSUME Bills!BillingInv, UNCHANGED <<v3, v6, v7>>,
           v2'.renewal = v2.renewal, v2'.history = v2.history
    PROVE  Bills!RenewalsAdvance' /\ (v6'.crossed \/ Bills!RenewsOnCourse')
<1>1. Bills!RenewalsAdvance => Bills!RenewalsAdvance' BY CourseInWords
<1>2. Bills!RenewsOnCourse => Bills!RenewsOnCourse' BY CourseInWords DEF Bills!RenewsOnCourse
<1>. QED BY <1>1, <1>2 DEF Bills!BillingInv

LEMMA RemindersStay ==
    ASSUME Bills!BillingInv, UNCHANGED <<v5, v8>>, v2'.reminded = v2.reminded,
           \A r \in B : v4'[r].stage \in {"send", "mark"} => v4'[r] = v4[r],
           \A r \in B : v4[r].stage = "mark" => v4'[r] = v4[r]
    PROVE  Bills!RemindedOnceADay' /\ (v8' \/ Bills!RemindsFromTheNote')
<1>1. Bills!RemindedOnceADay => Bills!RemindedOnceADay' BY DEF Bills!RemindedOnceADay
<1>2. Bills!RemindsFromTheNote => Bills!RemindsFromTheNote'
  <2>. SUFFICES ASSUME Bills!RemindsFromTheNote
                PROVE  Bills!RemindsFromTheNote'
    OBVIOUS
  <2>1. ASSUME NEW r \in B, NEW q \in B, Bills!Reminding(r)', Bills!Reminding(q)'
        PROVE  r = q
    BY <2>1 DEF Bills!RemindsFromTheNote, Bills!Reminding
  <2>2. ASSUME NEW r \in B
        PROVE  /\ v4'[r].stage = "send" => v4'[r].reminded = v2'.reminded
               /\ v4'[r].stage = "mark" => v2'.reminded < v4'[r].day
    <3>1. CASE v4'[r].stage \in {"send", "mark"}
      <4>1. v4'[r] = v4[r] /\ v2'.reminded = v2.reminded BY <3>1
      <4>2. /\ v4[r].stage = "send" => v4[r].reminded = v2.reminded
            /\ v4[r].stage = "mark" => v2.reminded < v4[r].day
        BY DEF Bills!RemindsFromTheNote
      <4>. QED BY <4>1, <4>2, Zenon
    <3>. QED BY <3>1
  <2>3. ASSUME NEW i \in DOMAIN v5
        PROVE  \/ v5[i] <= v2'.reminded
               \/ \E r \in B : v4'[r].stage = "mark" /\ v5[i] <= v4'[r].day
    BY DEF Bills!RemindsFromTheNote
  <2>. QED BY <2>1, <2>2, <2>3 DEF Bills!RemindsFromTheNote
<1>. QED BY <1>1, <1>2 DEF Bills!BillingInv

\* What a step must keep of the types.
LEMMA BillingTypes ==
    ASSUME Bills!TypeOK
    PROVE  /\ v1 \in 0..MaxDay /\ v2 \in Bills!Service
           /\ v2.renewal \in 0..Bills!LastDay /\ v2.history \in 0..MaxRenewals
           /\ v2.reminded \in Bills!Never..MaxDay
           /\ v2.active \in BOOLEAN /\ v2.status \in Bills!Statuses
           /\ v3 \in [A -> {Bills!Never} \cup 0..Bills!LastDay]
           /\ v4 \in [B -> BillingRun] /\ v5 \in Seq(0..MaxDay) /\ v6 \in BillingCourse
           /\ v7 \in BOOLEAN /\ v8 \in BOOLEAN /\ v9 \in 0..MaxEdits /\ v10 \in 0..MaxRuns
BY DEF Bills!TypeOK, Bills!Service, BillingRun, BillingCourse

\* Writing the document gives a document.
LEMMA ServiceWritten ==
    ASSUME NEW s \in Bills!Service
    PROVE  /\ \A d \in 0..Bills!LastDay :
                LET n == [s EXCEPT !.renewal = d]
                IN  n \in Bills!Service /\ n.history = s.history /\ n.renewal = d
                    /\ n.reminded = s.reminded
           /\ \A t \in Bills!Statuses :
                LET n == [s EXCEPT !.status = t]
                IN  n \in Bills!Service /\ n.history = s.history
                    /\ n.renewal = s.renewal /\ n.reminded = s.reminded
           /\ LET n == [s EXCEPT !.active = FALSE]
              IN  n \in Bills!Service /\ n.history = s.history
                  /\ n.renewal = s.renewal /\ n.reminded = s.reminded
           /\ \A d \in 0..MaxDay :
                LET n == [s EXCEPT !.reminded = d]
                IN  n \in Bills!Service /\ n.history = s.history
                    /\ n.renewal = s.renewal /\ n.reminded = d
<1>. \A d \in 0..MaxDay : d \in Bills!Never..MaxDay BY BillingBounds DEF Bills!Never
<1>. QED BY DEF Bills!Service, Bills!Statuses

LEMMA RenewedDocument ==
    ASSUME v2 \in Bills!Service, NEW h \in 0..MaxRenewals,
           NEW d \in 0..Bills!LastDay,
           v2' = [v2 EXCEPT !.history = h, !.status = "active", !.renewal = d]
    PROVE  v2' \in Bills!Service /\ v2'.history = h /\ v2'.renewal = d
           /\ v2'.reminded = v2.reminded
BY DEF Bills!Service, Bills!Statuses

LEMMA RenewalsKeep ==
    ASSUME Bills!BillingInv,
           \/ \E a \in A : \/ Bills!ReadService(a) \/ Bills!QuickRenewService(a)
                           \/ Bills!RenewService(a) \/ Bills!RenewalBreaksOff(a)
           \/ Bills!UpdateDate
    PROVE  Bills!BillingInv'
<1>. DEFINE Read(a) == v3[a] # Bills!Never
<1>0. /\ Bills!TypeOK
      /\ v6.crossed \/ FollowsOn(v2.renewal, v6, v2.history, v7)
      /\ v6.crossed \/ /\ v6.history <= v2.history
                       /\ \A a \in A : Read(a) => FollowsOn(v3[a], v6, v2.history, v7)
                       /\ \A a, b \in A : Read(a) /\ Read(b) => a = b \/ v7
  BY CourseInWords DEF Bills!BillingInv, Bills!RenewsOnCourse
<1>1. /\ v1 \in 0..MaxDay /\ v2 \in Bills!Service
      /\ v2.renewal \in 0..Bills!LastDay /\ v2.history \in 0..MaxRenewals
      /\ v3 \in [A -> {Bills!Never} \cup 0..Bills!LastDay]
      /\ v6 \in BillingCourse /\ v7 \in BOOLEAN /\ v9 \in 0..MaxEdits
      /\ v6.date \in 0..Bills!LastDay /\ v6.history \in 0..MaxRenewals
  BY <1>0, BillingTypes DEF BillingCourse
<1>d. \A date \in {v1 + 1, v1 + Soon + 1} : date \in 0..Bills!LastDay BY <1>1, BillingBounds
\* Whatever is written of the renewals, the reminders are those they were.
<1>2. ASSUME UNCHANGED <<v1, v4, v5, v8, v10>>, v2' \in Bills!Service,
             v2'.reminded = v2.reminded,
             v3' \in [A -> {Bills!Never} \cup 0..Bills!LastDay],
             v6' \in BillingCourse, v7' \in BOOLEAN, v9' \in 0..MaxEdits,
             v6'.crossed \/ FollowsOn(v2'.renewal, v6', v2'.history, v7'),
             v6'.crossed \/
               /\ v6'.history <= v2'.history
               /\ \A a \in A : v3'[a] # Bills!Never => FollowsOn(v3'[a], v6', v2'.history, v7')
               /\ \A a, b \in A : v3'[a] # Bills!Never /\ v3'[b] # Bills!Never => a = b \/ v7'
      PROVE  Bills!BillingInv'
  <2>1. Bills!TypeOK' BY <1>0, <1>2 DEF Bills!TypeOK, BillingCourse
  <2>2. Bills!RemindedOnceADay' /\ (v8' \/ Bills!RemindsFromTheNote') BY <1>2, RemindersStay
  <2>3. Bills!RenewalsAdvance' /\ (v6'.crossed \/ Bills!RenewsOnCourse') BY <1>2, CourseInWords
  <2>. QED BY <2>1, <2>2, <2>3 DEF Bills!BillingInv
\* What was on the course is so when renewals overlap, and when there is one more.
<1>w. ASSUME NEW d, FollowsOn(d, v6, v2.history, v7)
      PROVE  FollowsOn(d, v6, v2.history, TRUE)
  BY <1>w DEF FollowsOn
<1>v. ASSUME NEW d, FollowsOn(d, v6, v2.history, v7), v6.history <= v2.history
      PROVE  FollowsOn(d, v6, v2.history + 1, TRUE)
  <2>1. PICK cycles \in 0..v2.history - v6.history : Stands(d, v6.date, cycles)
    BY <1>v DEF FollowsOn
  <2>2. cycles \in 0..(v2.history + 1) - v6.history BY <1>1, <2>1
  <2>3. \E c \in 0..(v2.history + 1) - v6.history :
          Stands(d, v6.date, c) /\ (TRUE \/ c = (v2.history + 1) - v6.history)
    BY <2>1, <2>2, Zenon
  <2>. QED BY <2>3, Zenon DEF FollowsOn
<1>3. ASSUME NEW a \in A, Bills!ReadService(a)
      PROVE  Bills!BillingInv'
  <2>1. /\ v3[a] = Bills!Never /\ v7' = (v7 \/ Bills!Renewing)
        /\ v3' = [v3 EXCEPT ![a] = v2.renewal]
        /\ UNCHANGED <<v1, v2, v4, v5, v6, v8, v9, v10>>
    BY <1>3 DEF Bills!ReadService
  <2>2. /\ v3' \in [A -> {Bills!Never} \cup 0..Bills!LastDay]
        /\ v3'[a] = v2.renewal /\ \A b \in A \ {a} : v3'[b] = v3[b]
    BY <1>1, <2>1
  <2>3. v7' \in BOOLEAN BY <2>1
  <2>4. CASE v6.crossed BY <1>1, <1>2, <2>1, <2>2, <2>3, <2>4
  <2>5. CASE ~v6.crossed
    <3>1. \A d : FollowsOn(d, v6, v2.history, v7) => FollowsOn(d, v6, v2.history, v7')
      <4>1. v7' = v7 \/ v7' = TRUE BY <1>1, <2>1
      <4>. QED BY <4>1, <1>w
    <3>2. \A b \in A : v3'[b] # Bills!Never => FollowsOn(v3'[b], v6, v2.history, v7')
      BY <1>0, <2>2, <2>5, <3>1
    <3>3. \A b, c \in A : v3'[b] # Bills!Never /\ v3'[c] # Bills!Never => b = c \/ v7'
      <4>1. CASE Bills!Renewing BY <2>1, <4>1
      <4>2. CASE ~Bills!Renewing
        <5>1. \A b \in A : v3'[b] # Bills!Never => b = a BY <2>2, <4>2 DEF Bills!Renewing
        <5>. QED BY <5>1
      <4>. QED BY <4>1, <4>2
    <3>. QED BY <1>0, <1>1, <1>2, <2>1, <2>2, <2>3, <2>5, <3>1, <3>2, <3>3
  <2>. QED BY <2>4, <2>5
\* A renewal that is over is read no more.
<1>4. ASSUME NEW a \in A, v3' = [v3 EXCEPT ![a] = Bills!Never]
      PROVE  /\ v3' \in [A -> {Bills!Never} \cup 0..Bills!LastDay]
             /\ v3'[a] = Bills!Never /\ \A b \in A \ {a} : v3'[b] = v3[b]
             /\ \A b \in A : v3'[b] # Bills!Never => b # a /\ v3'[b] = v3[b] /\ Read(b)
  BY <1>1, <1>4
<1>5. ASSUME NEW a \in A, Bills!RenewalBreaksOff(a)
      PROVE  Bills!BillingInv'
  <2>1. /\ v3' = [v3 EXCEPT ![a] = Bills!Never]
        /\ UNCHANGED <<v1, v2, v4, v5, v6, v7, v8, v9, v10>>
    BY <1>5 DEF Bills!RenewalBreaksOff
  <2>. QED BY <1>0, <1>1, <1>2, <1>4, <2>1
<1>6. ASSUME NEW a \in A, Bills!QuickRenewService(a)
      PROVE  Bills!BillingInv'
  <2>. DEFINE next == Bills!NextRenewal(v3[a])
  <2>1. /\ v3[a] # Bills!Never /\ v2.history < MaxRenewals
        /\ Bills!MonthOf(v3[a]) + CycleMonths + 1 < Months
        /\ v2' = [v2 EXCEPT !.history = v2.history + 1, !.status = "active", !.renewal = next]
        /\ v3' = [v3 EXCEPT ![a] = Bills!Never]
        /\ UNCHANGED <<v1, v4, v5, v6, v7, v8, v9, v10>>
    BY <1>1, <1>6, Zenon DEF Bills!QuickRenewService, Bills!Service
  <2>2. v3[a] \in 0..Bills!LastDay BY <1>1, <2>1
  <2>3. next \in 0..Bills!LastDay
    <3>1. Bills!MonthOf(v3[a]) \in 0..Months /\ CycleMonths \in Nat /\ Months \in Nat
      BY <2>2, MonthOfDay, BillingBounds
    <3>2. Bills!DayOfMonth(v3[a]) \in 0..Longest-1 BY <2>2, DayFits
    <3>3. Bills!MonthOf(v3[a]) + CycleMonths \in 0..Months BY <2>1, <3>1
    <3>. QED BY <2>1, <3>2, <3>3, LandsInMonth DEF Bills!NextRenewal
  <2>. HIDE DEF next
  <2>4. v2.history + 1 \in 0..MaxRenewals BY <1>1, <2>1, BillingBounds
  <2>5. /\ v2' \in Bills!Service /\ v2'.history = v2.history + 1
        /\ v2'.renewal = next /\ v2'.reminded = v2.reminded
    <3>1. PICK h \in 0..MaxRenewals, d \in 0..Bills!LastDay :
            h = v2.history + 1 /\ d = next
      BY <1>1, <2>3, <2>4
    <3>2. v2' = [v2 EXCEPT !.history = h, !.status = "active", !.renewal = d] BY <2>1, <3>1, Zenon
    <3>3. v2' \in Bills!Service /\ v2'.history = h /\ v2'.renewal = d
          /\ v2'.reminded = v2.reminded
      BY <1>1, <3>2, RenewedDocument, Zenon
    <3>. QED BY <3>1, <3>3
  <2>6. CASE v6.crossed BY <1>1, <1>2, <1>4, <2>1, <2>5, <2>6
  <2>7. CASE ~v6.crossed
    <3>1. v6.history <= v2.history /\ FollowsOn(v3[a], v6, v2.history, v7)
      BY <1>0, <2>1, <2>7
    <3>2. FollowsOn(next, v6, v2.history + 1, v7)
      <4>1. PICK cycles \in 0..v2.history - v6.history :
              Stands(v3[a], v6.date, cycles) /\ (v7 \/ cycles = v2.history - v6.history)
        BY <3>1 DEF FollowsOn
      <4>2. cycles \in Nat BY <1>1, <4>1
      <4>3. Stands(next, v6.date, cycles + 1)
        BY <1>1, <2>1, <2>2, <4>1, <4>2, CycleOn DEF next
      <4>4. /\ cycles + 1 \in 0..(v2.history + 1) - v6.history
            /\ v7 \/ cycles + 1 = (v2.history + 1) - v6.history
        BY <1>1, <4>1
      <4>. QED BY <4>3, <4>4 DEF FollowsOn
    <3>3. ASSUME NEW b \in A, v3'[b] # Bills!Never
          PROVE  FollowsOn(v3'[b], v6, v2.history + 1, v7)
      <4>1. b # a /\ v3'[b] = v3[b] /\ Read(b) BY <1>4, <2>1, <3>3
      <4>2. v7 = TRUE /\ FollowsOn(v3[b], v6, v2.history, v7) BY <1>0, <1>1, <2>1, <2>7, <4>1
      <4>. QED BY <1>v, <3>1, <4>1, <4>2
    <3>4. \A b, c \in A : v3'[b] # Bills!Never /\ v3'[c] # Bills!Never => b = c \/ v7
      BY <1>0, <1>4, <2>1, <2>7
    <3>5. v6.history <= v2.history + 1 BY <1>1, <3>1
    <3>. QED BY <1>1, <1>2, <1>4, <2>1, <2>5, <3>2, <3>3, <3>4, <3>5
  <2>. QED BY <2>6, <2>7
\* A date set by hand: the course starts from it.
<1>7. ASSUME NEW date \in 0..Bills!LastDay, NEW h \in 0..MaxRenewals, NEW others \in SUBSET A,
             Bills!SetByHand(date, h, others), v2'.renewal = date, v2'.history = h,
             \A b \in A : v3'[b] # Bills!Never => b \in others /\ Read(b)
      PROVE  /\ v6' \in BillingCourse /\ v7' \in BOOLEAN
             /\ v6'.crossed \/ FollowsOn(v2'.renewal, v6', v2'.history, v7')
             /\ v6'.crossed \/
                  /\ v6'.history <= v2'.history
                  /\ \A a \in A : v3'[a] # Bills!Never => FollowsOn(v3'[a], v6', v2'.history, v7')
                  /\ \A a, b \in A : v3'[a] # Bills!Never /\ v3'[b] # Bills!Never => a = b \/ v7'
  <2>1. /\ v6' = [date |-> date, history |-> h, crossed |-> \E b \in others : Read(b)]
        /\ v7' = FALSE
    BY <1>7 DEF Bills!SetByHand
  <2>2. (\E b \in others : Read(b)) \in BOOLEAN OBVIOUS
  <2>3. v6' \in BillingCourse /\ v6'.date = date /\ v6'.history = h
        /\ v6'.crossed = (\E b \in others : Read(b))
    BY <2>1, <2>2 DEF BillingCourse
  <2>4. FollowsOn(date, v6', v6'.history, v7') BY <2>3, FollowsFromStart
  <2>5. v6'.crossed \/ \A b \in A : v3'[b] = Bills!Never BY <1>7, <2>3
  <2>6. h <= h BY <1>1, BillingBounds
  <2>. QED BY <1>7, <2>1, <2>3, <2>4, <2>5, <2>6
<1>8. ASSUME NEW a \in A, Bills!RenewService(a)
      PROVE  Bills!BillingInv'
  <2>1. PICK date \in {v1 + 1, v1 + Soon + 1} :
        /\ v3[a] # Bills!Never /\ v2.history < MaxRenewals
        /\ v9 < MaxEdits /\ v9' = v9 + 1
        /\ v2' = [v2 EXCEPT !.history = v2.history + 1, !.status = "active", !.renewal = date]
        /\ Bills!SetByHand(date, v2.history + 1, A \ {a})
        /\ v3' = [v3 EXCEPT ![a] = Bills!Never]
        /\ UNCHANGED <<v1, v4, v5, v8, v10>>
    BY <1>8 DEF Bills!RenewService
  <2>2. date \in 0..Bills!LastDay /\ v2.history + 1 \in 0..MaxRenewals /\ v9' \in 0..MaxEdits
    BY <1>1, <1>d, <2>1, BillingBounds
  <2>5. /\ v2' \in Bills!Service /\ v2'.history = v2.history + 1
        /\ v2'.renewal = date /\ v2'.reminded = v2.reminded
    <3>1. PICK h \in 0..MaxRenewals, d \in 0..Bills!LastDay :
            h = v2.history + 1 /\ d = date
      BY <1>1, <2>2
    <3>2. v2' = [v2 EXCEPT !.history = h, !.status = "active", !.renewal = d] BY <2>1, <3>1, Zenon
    <3>3. v2' \in Bills!Service /\ v2'.history = h /\ v2'.renewal = d
          /\ v2'.reminded = v2.reminded
      BY <1>1, <3>2, RenewedDocument, Zenon
    <3>. QED BY <3>1, <3>3
  <2>6. \A b \in A : v3'[b] # Bills!Never => b \in A \ {a} /\ Read(b) BY <1>4, <2>1
  <2>7. /\ v6' \in BillingCourse /\ v7' \in BOOLEAN
        /\ v6'.crossed \/ FollowsOn(v2'.renewal, v6', v2'.history, v7')
        /\ v6'.crossed \/
             /\ v6'.history <= v2'.history
             /\ \A b \in A : v3'[b] # Bills!Never => FollowsOn(v3'[b], v6', v2'.history, v7')
             /\ \A b, c \in A : v3'[b] # Bills!Never /\ v3'[c] # Bills!Never => b = c \/ v7'
    BY <1>7, <2>1, <2>2, <2>5, <2>6
  <2>. QED BY <1>2, <1>4, <2>1, <2>2, <2>5, <2>7
<1>9. CASE Bills!UpdateDate
  <2>1. PICK date \in {v1 + 1, v1 + Soon + 1} :
        /\ v9 < MaxEdits /\ v9' = v9 + 1
        /\ v2' = [v2 EXCEPT !.renewal = date]
        /\ Bills!SetByHand(date, v2.history, A)
        /\ UNCHANGED <<v1, v3, v4, v5, v8, v10>>
    BY <1>9 DEF Bills!UpdateDate
  <2>2. date \in 0..Bills!LastDay /\ v9' \in 0..MaxEdits BY <1>1, <1>d, <2>1, BillingBounds
  <2>5. /\ v2' \in Bills!Service /\ v2'.history = v2.history
        /\ v2'.renewal = date /\ v2'.reminded = v2.reminded
    BY <1>1, <2>1, <2>2, ServiceWritten
  <2>6. \A b \in A : v3'[b] # Bills!Never => b \in A /\ Read(b) BY <2>1
  <2>7. /\ v6' \in BillingCourse /\ v7' \in BOOLEAN
        /\ v6'.crossed \/ FollowsOn(v2'.renewal, v6', v2'.history, v7')
        /\ v6'.crossed \/
             /\ v6'.history <= v2'.history
             /\ \A b \in A : v3'[b] # Bills!Never => FollowsOn(v3'[b], v6', v2'.history, v7')
             /\ \A b, c \in A : v3'[b] # Bills!Never /\ v3'[c] # Bills!Never => b = c \/ v7'
    BY <1>1, <1>7, <2>1, <2>2, <2>5, <2>6
  <2>. QED BY <1>1, <1>2, <2>1, <2>2, <2>5, <2>7
<1>. QED BY <1>3, <1>5, <1>6, <1>8, <1>9

\* The three updates of the statuses leave the date, the note and the history.
LEMMA StatusesAlone ==
    ASSUME NEW s \in Bills!Service, NEW now,
           NEW n \in {Bills!MarkExpired(s, now), Bills!MarkExpiringSoon(s, now),
                      Bills!MarkActive(s, now)}
    PROVE  n \in Bills!Service /\ n.history = s.history
           /\ n.renewal = s.renewal /\ n.reminded = s.reminded
<1>1. \A t \in Bills!Statuses :
        LET m == [s EXCEPT !.status = t]
        IN  m \in Bills!Service /\ m.history = s.history
            /\ m.renewal = s.renewal /\ m.reminded = s.reminded
  BY ServiceWritten
<1>2. /\ "expired" \in Bills!Statuses /\ "expiring_soon" \in Bills!Statuses
      /\ "active" \in Bills!Statuses
  BY DEF Bills!Statuses
<1>3. Bills!MarkExpired(s, now) = s
      \/ Bills!MarkExpired(s, now) = [s EXCEPT !.status = "expired"]
  BY Zenon DEF Bills!MarkExpired
<1>4. Bills!MarkExpiringSoon(s, now) = s
      \/ Bills!MarkExpiringSoon(s, now) = [s EXCEPT !.status = "expiring_soon"]
  BY Zenon DEF Bills!MarkExpiringSoon
<1>5. Bills!MarkActive(s, now) = s
      \/ Bills!MarkActive(s, now) = [s EXCEPT !.status = "active"]
  BY Zenon DEF Bills!MarkActive
<1>6. \/ n = Bills!MarkExpired(s, now) \/ n = Bills!MarkExpiringSoon(s, now)
      \/ n = Bills!MarkActive(s, now)
  BY Zenon
<1>7. n = s \/ \E t \in Bills!Statuses : n = [s EXCEPT !.status = t]
  BY <1>2, <1>3, <1>4, <1>5, <1>6, Zenon
<1>8. CASE n = s BY <1>8
<1>9. CASE \E t \in Bills!Statuses : n = [s EXCEPT !.status = t] BY <1>1, <1>9
<1>. QED BY <1>7, <1>8, <1>9

\* Edits of the status, the updates, and the steps of a run that remind nobody.
LEMMA StatusesKeep ==
    ASSUME Bills!BillingInv, UNCHANGED <<v3, v5, v6, v7, v8>>,
           v1' \in 0..MaxDay, v2' \in Bills!Service,
           v2'.history = v2.history, v2'.renewal = v2.renewal, v2'.reminded = v2.reminded,
           v4' \in [B -> BillingRun], v9' \in 0..MaxEdits, v10' \in 0..MaxRuns,
           \A r \in B : v4'[r].stage \in {"send", "mark"} => v4'[r] = v4[r],
           \A r \in B : v4[r].stage = "mark" => v4'[r] = v4[r]
    PROVE  Bills!BillingInv'
<1>1. Bills!TypeOK' BY DEF Bills!BillingInv, Bills!TypeOK, BillingRun
<1>2. Bills!RenewalsAdvance' /\ (v6'.crossed \/ Bills!RenewsOnCourse') BY RenewalsStay
<1>3. Bills!RemindedOnceADay' /\ (v8' \/ Bills!RemindsFromTheNote') BY RemindersStay
<1>. QED BY <1>1, <1>2, <1>3 DEF Bills!BillingInv

\* One run goes on; the others are where they were.
LEMMA RunGoesOn ==
    ASSUME v4 \in [B -> BillingRun], NEW r \in B, NEW x \in BillingRun, v4' = [v4 EXCEPT ![r] = x]
    PROVE  v4' \in [B -> BillingRun] /\ v4'[r] = x /\ \A q \in B \ {r} : v4'[q] = v4[q]
OBVIOUS

LEMMA IdleRunIsRun == Bills!IdleRun \in BillingRun
                      /\ Bills!IdleRun.stage = "idle"
BY BillingBounds DEF Bills!IdleRun, BillingRun, Bills!Never

LEMMA UpdatesKeep ==
    ASSUME Bills!BillingInv,
           \/ Bills!UpdateStatus \/ Bills!Remove \/ Bills!NextDay
           \/ \E r \in B : \/ \E kind \in {"list", "remind"} : Bills!Begin(r, kind)
                           \/ Bills!Expire(r) \/ Bills!ExpireSoon(r)
                           \/ Bills!Activate(r) \/ Bills!NotDue(r)
    PROVE  Bills!BillingInv'
<1>0. Bills!TypeOK BY DEF Bills!BillingInv
<1>1. /\ v1 \in 0..MaxDay /\ v2 \in Bills!Service /\ v4 \in [B -> BillingRun]
      /\ v9 \in 0..MaxEdits /\ v10 \in 0..MaxRuns
  BY <1>0, BillingTypes
<1>2. CASE Bills!UpdateStatus
  <2>1. PICK status \in {"cancelled", "suspended"} :
          /\ v9 < MaxEdits /\ v9' = v9 + 1 /\ v2' = [v2 EXCEPT !.status = status]
          /\ UNCHANGED <<v1, v3, v4, v5, v6, v7, v8, v10>>
    BY <1>2 DEF Bills!UpdateStatus
  <2>2. status \in Bills!Statuses /\ v9' \in 0..MaxEdits
    BY <1>1, <2>1, BillingBounds DEF Bills!Statuses
  <2>3. v2' \in Bills!Service /\ v2'.history = v2.history
        /\ v2'.renewal = v2.renewal /\ v2'.reminded = v2.reminded
    BY <1>1, <2>1, <2>2, ServiceWritten
  <2>. QED BY <1>1, <2>1, <2>2, <2>3, StatusesKeep
<1>3. CASE Bills!Remove
  <2>1. /\ v9 < MaxEdits /\ v9' = v9 + 1 /\ v2' = [v2 EXCEPT !.active = FALSE]
        /\ UNCHANGED <<v1, v3, v4, v5, v6, v7, v8, v10>>
    BY <1>3 DEF Bills!Remove
  <2>2. v9' \in 0..MaxEdits BY <1>1, <2>1, BillingBounds
  <2>3. v2' \in Bills!Service /\ v2'.history = v2.history
        /\ v2'.renewal = v2.renewal /\ v2'.reminded = v2.reminded
    BY <1>1, <2>1, ServiceWritten
  <2>. QED BY <1>1, <2>1, <2>2, <2>3, StatusesKeep
<1>4. CASE Bills!NextDay
  <2>1. v1' \in 0..MaxDay /\ UNCHANGED <<v2, v3, v4, v5, v6, v7, v8, v9, v10>>
    BY <1>1, <1>4, BillingBounds DEF Bills!NextDay
  <2>. QED BY <1>1, <2>1, StatusesKeep
<1>5. ASSUME NEW r \in B, NEW kind \in {"list", "remind"}, Bills!Begin(r, kind)
      PROVE  Bills!BillingInv'
  <2>. DEFINE x == [Bills!IdleRun EXCEPT !.stage = "expire", !.kind = kind, !.day = v1]
  <2>1. /\ v4[r].stage = "idle" /\ v10 < MaxRuns /\ v10' = v10 + 1
        /\ v4' = [v4 EXCEPT ![r] = x]
        /\ UNCHANGED <<v1, v2, v3, v5, v6, v7, v8, v9>>
    BY <1>5 DEF Bills!Begin
  <2>2. v10' \in 0..MaxRuns BY <1>1, <2>1, BillingBounds
  <2>3. x \in BillingRun /\ x.stage = "expire" BY <1>1, IdleRunIsRun DEF BillingRun
  <2>. HIDE DEF x
  <2>4. v4' \in [B -> BillingRun] /\ v4'[r] = x /\ \A q \in B \ {r} : v4'[q] = v4[q]
    BY <1>1, <2>1, <2>3, RunGoesOn
  <2>5. /\ \A q \in B : v4'[q].stage \in {"send", "mark"} => v4'[q] = v4[q]
        /\ \A q \in B : v4[q].stage = "mark" => v4'[q] = v4[q]
    BY <2>1, <2>3, <2>4
  <2>. QED BY <1>1, <2>1, <2>2, <2>4, <2>5, StatusesKeep
<1>6. ASSUME NEW r \in B, NEW s \in {"expire", "soon", "activate"},
             NEW t \in {"soon", "activate", "find"}, NEW n,
             Bills!Step(r, s, t, n),
             n \in Bills!Service, n.history = v2.history,
             n.renewal = v2.renewal, n.reminded = v2.reminded
      PROVE  Bills!BillingInv'
  <2>. DEFINE x == [v4[r] EXCEPT !.stage = t]
  <2>1. /\ v4[r].stage = s /\ v2' = n /\ v4' = [v4 EXCEPT ![r] = x]
        /\ UNCHANGED <<v1, v3, v5, v6, v7, v8, v9, v10>>
    BY <1>1, <1>6 DEF Bills!Step, BillingRun
  <2>2. x \in BillingRun /\ x.stage = t BY <1>1 DEF BillingRun
  <2>. HIDE DEF x
  <2>3. v4' \in [B -> BillingRun] /\ v4'[r] = x /\ \A q \in B \ {r} : v4'[q] = v4[q]
    BY <1>1, <2>1, <2>2, RunGoesOn
  <2>4. /\ \A q \in B : v4'[q].stage \in {"send", "mark"} => v4'[q] = v4[q]
        /\ \A q \in B : v4[q].stage = "mark" => v4'[q] = v4[q]
    BY <2>1, <2>2, <2>3
  <2>. QED BY <1>1, <1>6, <2>1, <2>3, <2>4, StatusesKeep
<1>7. ASSUME NEW r \in B,
             Bills!Expire(r) \/ Bills!ExpireSoon(r) \/ Bills!Activate(r)
      PROVE  Bills!BillingInv'
  <2>1. CASE Bills!Expire(r) BY <1>1, <1>6, <2>1, StatusesAlone DEF Bills!Expire
  <2>2. CASE Bills!ExpireSoon(r) BY <1>1, <1>6, <2>2, StatusesAlone DEF Bills!ExpireSoon
  <2>3. CASE Bills!Activate(r) BY <1>1, <1>6, <2>3, StatusesAlone DEF Bills!Activate
  <2>. QED BY <1>7, <2>1, <2>2, <2>3
<1>8. ASSUME NEW r \in B, Bills!NotDue(r)
      PROVE  Bills!BillingInv'
  <2>1. /\ v4[r].stage = "send" /\ v4' = [v4 EXCEPT ![r] = Bills!IdleRun]
        /\ UNCHANGED <<v1, v2, v3, v5, v6, v7, v8, v9, v10>>
    BY <1>8 DEF Bills!NotDue
  <2>2. v4' \in [B -> BillingRun] /\ v4'[r] = Bills!IdleRun
        /\ \A q \in B \ {r} : v4'[q] = v4[q]
    BY <1>1, <2>1, IdleRunIsRun, RunGoesOn
  <2>3. /\ \A q \in B : v4'[q].stage \in {"send", "mark"} => v4'[q] = v4[q]
        /\ \A q \in B : v4[q].stage = "mark" => v4'[q] = v4[q]
    BY <2>1, <2>2, IdleRunIsRun
  <2>. QED BY <1>1, <2>1, <2>2, <2>3, StatusesKeep
<1>. QED BY <1>2, <1>3, <1>4, <1>5, <1>7, <1>8

LEMMA FindKeeps ==
    ASSUME Bills!BillingInv, NEW r \in B, Bills!Find(r)
    PROVE  Bills!BillingInv'
<1>0. /\ Bills!TypeOK /\ Bills!RemindedOnceADay
      /\ v8 \/ Bills!RemindsFromTheNote
  BY DEF Bills!BillingInv
<1>1. /\ v1 \in 0..MaxDay /\ v2 \in Bills!Service /\ v4 \in [B -> BillingRun]
      /\ v2.renewal \in 0..Bills!LastDay /\ v2.reminded \in Bills!Never..MaxDay
      /\ v8 \in BOOLEAN /\ v9 \in 0..MaxEdits /\ v10 \in 0..MaxRuns
  BY <1>0, BillingTypes
<1>. DEFINE reads == v4[r].kind = "remind" /\ v2.active
            x == [v4[r] EXCEPT !.stage = "send", !.renewal = v2.renewal, !.reminded = v2.reminded]
<1>2. /\ v4[r].stage = "find"
      /\ v4' = [v4 EXCEPT ![r] = IF reads THEN x ELSE Bills!IdleRun]
      /\ v8' = (v8 \/ (reads /\ \E q \in B \ {r} : Bills!Reminding(q)))
      /\ UNCHANGED <<v1, v2, v3, v5, v6, v7, v9, v10>>
  BY <1>1, Zenon DEF Bills!Find
<1>3. x \in BillingRun /\ x.stage = "send" /\ x.reminded = v2.reminded BY <1>1 DEF BillingRun
<1>. HIDE DEF x, reads
<1>4. CASE ~reads
  <2>1. v4' = [v4 EXCEPT ![r] = Bills!IdleRun] BY <1>2, <1>4, Zenon
  <2>2. v8' = v8 BY <1>1, <1>2, <1>4
  <2>3. v4' \in [B -> BillingRun] /\ v4'[r] = Bills!IdleRun
        /\ \A q \in B \ {r} : v4'[q] = v4[q]
    BY <1>1, <2>1, IdleRunIsRun, RunGoesOn
  <2>4. /\ \A q \in B : v4'[q].stage \in {"send", "mark"} => v4'[q] = v4[q]
        /\ \A q \in B : v4[q].stage = "mark" => v4'[q] = v4[q]
    BY <1>2, <2>3, IdleRunIsRun
  <2>. QED BY <1>1, <1>2, <2>2, <2>3, <2>4, StatusesKeep
<1>5. CASE reads
  <2>1. v4' = [v4 EXCEPT ![r] = x] BY <1>2, <1>5, Zenon
  <2>2. v4' \in [B -> BillingRun] /\ v4'[r] = x /\ \A q \in B \ {r} : v4'[q] = v4[q]
    BY <1>1, <1>3, <2>1, RunGoesOn
  <2>3. v8' \in BOOLEAN BY <1>2
  <2>4. Bills!TypeOK' BY <1>0, <1>2, <2>2, <2>3 DEF Bills!TypeOK, BillingRun
  <2>5. Bills!RenewalsAdvance' /\ (v6'.crossed \/ Bills!RenewsOnCourse') BY <1>2, RenewalsStay
  <2>6. Bills!RemindedOnceADay' BY <1>0, <1>2 DEF Bills!RemindedOnceADay
  <2>7. v8' \/ Bills!RemindsFromTheNote'
    <3>. SUFFICES ASSUME ~v8' PROVE Bills!RemindsFromTheNote' OBVIOUS
    <3>1. ~v8 /\ \A q \in B \ {r} : ~Bills!Reminding(q) BY <1>2, <1>5
    <3>2. \A q \in B \ {r} : v4'[q].stage \notin {"send", "mark"} BY <2>2, <3>1 DEF Bills!Reminding
    <3>3. \A q \in B : v4[q].stage # "mark" BY <1>2, <3>1 DEF Bills!Reminding
    <3>4. \A i \in DOMAIN v5 : v5[i] <= v2.reminded BY <1>0, <3>1, <3>3 DEF Bills!RemindsFromTheNote
    <3>. QED BY <1>2, <1>3, <2>2, <3>2, <3>4 DEF Bills!RemindsFromTheNote, Bills!Reminding
  <2>. QED BY <2>4, <2>5, <2>6, <2>7 DEF Bills!BillingInv
<1>. QED BY <1>4, <1>5

\* The elements of a sequence, and of one with an element more.
LEMMA Elements ==
    ASSUME NEW S, NEW q \in Seq(S)
    PROVE  Len(q) \in Nat /\ DOMAIN q = 1 .. Len(q) /\ \A i \in DOMAIN q : q[i] \in S
OBVIOUS

LEMMA ElementsWith ==
    ASSUME NEW S, NEW q \in Seq(S), NEW e \in S
    PROVE  /\ Append(q, e) \in Seq(S)
           /\ \A i \in DOMAIN Append(q, e) : \/ i \in DOMAIN q /\ Append(q, e)[i] = q[i]
                                             \/ i = Len(q) + 1 /\ Append(q, e)[i] = e
OBVIOUS

LEMMA SendReminderKeeps ==
    ASSUME Bills!BillingInv, NEW r \in B, Bills!SendReminder(r)
    PROVE  Bills!BillingInv'
<1>0. /\ Bills!TypeOK /\ Bills!RemindedOnceADay
      /\ v8 \/ Bills!RemindsFromTheNote
  BY DEF Bills!BillingInv
<1>1. /\ v4 \in [B -> BillingRun] /\ v5 \in Seq(0..MaxDay)
      /\ v2.reminded \in Bills!Never..MaxDay /\ v8 \in BOOLEAN
  BY <1>0, BillingTypes
<1>. DEFINE x == [v4[r] EXCEPT !.stage = "mark"]
<1>2. /\ v4[r].stage = "send" /\ v4[r].reminded < v4[r].day
      /\ v5' = Append(v5, v4[r].day) \/ v5' = v5
      /\ v4' = [v4 EXCEPT ![r] = x]
      /\ UNCHANGED <<v1, v2, v3, v6, v7, v8, v9, v10>>
  BY <1>1 DEF Bills!SendReminder, Bills!IsDue, BillingRun
<1>3. x \in BillingRun /\ x.stage = "mark" /\ x.day = v4[r].day
      /\ v4[r].day \in 0..MaxDay /\ v4[r].reminded \in Bills!Never..MaxDay
  BY <1>1 DEF BillingRun
<1>. HIDE DEF x
<1>4. v4' \in [B -> BillingRun] /\ v4'[r] = x /\ \A q \in B \ {r} : v4'[q] = v4[q]
  BY <1>1, <1>2, <1>3, RunGoesOn
<1>5. /\ v5' \in Seq(0..MaxDay)
      /\ \A i \in DOMAIN v5' : (i \in DOMAIN v5 /\ v5'[i] = v5[i])
                               \/ (i = Len(v5) + 1 /\ v5'[i] = v4[r].day)
  <2>1. CASE v5' = Append(v5, v4[r].day) BY <1>1, <1>3, <2>1, ElementsWith
  <2>2. CASE v5' = v5 BY <1>1, <2>2
  <2>. QED BY <1>2, <2>1, <2>2
<1>6. Bills!TypeOK' BY <1>0, <1>2, <1>4, <1>5 DEF Bills!TypeOK, BillingRun
<1>7. Bills!RenewalsAdvance' /\ (v6'.crossed \/ Bills!RenewsOnCourse') BY <1>2, RenewalsStay
<1>8. Bills!RemindedOnceADay' /\ (v8' \/ Bills!RemindsFromTheNote')
  <2>1. CASE v8 BY <1>2, <2>1 DEF Bills!RemindedOnceADay
  <2>2. CASE ~v8
    <3>1. /\ v4[r].reminded = v2.reminded
          /\ \A q \in B \ {r} : v4[q].stage \notin {"send", "mark"}
      BY <1>0, <1>2, <2>2 DEF Bills!RemindsFromTheNote, Bills!Reminding
    <3>2. \A q \in B : v4[q].stage # "mark" BY <1>2, <3>1
    <3>3. \A i \in DOMAIN v5 : v5[i] <= v2.reminded /\ v5[i] \in 0..MaxDay
      BY <1>0, <1>1, <2>2, <3>2, Elements DEF Bills!RemindsFromTheNote
    <3>4. \A i \in DOMAIN v5 : v5[i] # v4[r].day /\ v5[i] <= v4[r].day
      BY <1>1, <1>2, <1>3, <3>1, <3>3, BillingBounds DEF Bills!Never
    <3>5. Bills!RemindedOnceADay'
      <4>1. ASSUME NEW i \in DOMAIN v5', NEW j \in DOMAIN v5', v5'[i] = v5'[j] PROVE i = j
        <5>1. CASE i \in DOMAIN v5 /\ j \in DOMAIN v5 /\ v5'[i] = v5[i] /\ v5'[j] = v5[j]
          BY <1>0, <2>2, <4>1, <5>1 DEF Bills!RemindedOnceADay
        <5>2. CASE i \in DOMAIN v5 /\ v5'[i] = v5[i] /\ v5'[j] = v4[r].day
          BY <3>4, <4>1, <5>2, Zenon
        <5>3. CASE j \in DOMAIN v5 /\ v5'[j] = v5[j] /\ v5'[i] = v4[r].day
          BY <3>4, <4>1, <5>3, Zenon
        <5>4. CASE i = Len(v5) + 1 /\ j = Len(v5) + 1 BY <5>4
        <5>. QED BY <1>5, <5>1, <5>2, <5>3, <5>4
      <4>. QED BY <4>1 DEF Bills!RemindedOnceADay
    <3>6. \A i \in DOMAIN v5' : v5'[i] <= v4[r].day BY <1>3, <1>5, <3>4
    <3>7. Bills!RemindsFromTheNote'
      <4>1. \A q \in B \ {r} : v4'[q].stage \notin {"send", "mark"} BY <1>4, <3>1
      <4>2. v2'.reminded < v4'[r].day BY <1>2, <1>3, <1>4, <3>1
      <4>. QED BY <1>3, <1>4, <3>6, <4>1, <4>2 DEF Bills!RemindsFromTheNote, Bills!Reminding
    <3>. QED BY <3>5, <3>7
  <2>. QED BY <2>1, <2>2
<1>. QED BY <1>6, <1>7, <1>8 DEF Bills!BillingInv

LEMMA MarkRemindedKeeps ==
    ASSUME Bills!BillingInv, NEW r \in B, Bills!MarkReminded(r)
    PROVE  Bills!BillingInv'
<1>0. /\ Bills!TypeOK /\ Bills!RemindedOnceADay
      /\ v8 \/ Bills!RemindsFromTheNote
  BY DEF Bills!BillingInv
<1>1. /\ v2 \in Bills!Service /\ v4 \in [B -> BillingRun] /\ v5 \in Seq(0..MaxDay)
      /\ v2.reminded \in Bills!Never..MaxDay /\ v8 \in BOOLEAN
  BY <1>0, BillingTypes
<1>2. /\ v4[r].stage = "mark" /\ v2' = [v2 EXCEPT !.reminded = v4[r].day]
      /\ v4' = [v4 EXCEPT ![r] = Bills!IdleRun]
      /\ UNCHANGED <<v1, v3, v5, v6, v7, v8, v9, v10>>
  BY DEF Bills!MarkReminded
<1>3. v4[r].day \in 0..MaxDay BY <1>1 DEF BillingRun
<1>4. v2' \in Bills!Service /\ v2'.history = v2.history
      /\ v2'.renewal = v2.renewal /\ v2'.reminded = v4[r].day
  BY <1>1, <1>2, <1>3, ServiceWritten
<1>5. v4' \in [B -> BillingRun] /\ v4'[r] = Bills!IdleRun
      /\ \A q \in B \ {r} : v4'[q] = v4[q]
  BY <1>1, <1>2, IdleRunIsRun, RunGoesOn
<1>6. Bills!TypeOK' BY <1>0, <1>2, <1>4, <1>5 DEF Bills!TypeOK, BillingRun
<1>7. Bills!RenewalsAdvance' /\ (v6'.crossed \/ Bills!RenewsOnCourse') BY <1>2, <1>4, RenewalsStay
<1>8. Bills!RemindedOnceADay' BY <1>0, <1>2 DEF Bills!RemindedOnceADay
<1>9. v8' \/ Bills!RemindsFromTheNote'
  <2>. SUFFICES ASSUME ~v8' PROVE Bills!RemindsFromTheNote' OBVIOUS
  <2>1. \A q \in B \ {r} : v4[q].stage \notin {"send", "mark"}
    BY <1>0, <1>2 DEF Bills!RemindsFromTheNote, Bills!Reminding
  <2>2. \A q \in B : v4'[q].stage \notin {"send", "mark"} BY <1>5, <2>1, IdleRunIsRun
  <2>3. ASSUME NEW i \in DOMAIN v5 PROVE v5[i] <= v4[r].day
    <3>1. v5[i] \in 0..MaxDay BY <1>1, Elements
    <3>2. v2.reminded < v4[r].day BY <1>0, <1>2 DEF Bills!RemindsFromTheNote
    <3>3. v5[i] <= v2.reminded \/ v5[i] <= v4[r].day
      BY <1>0, <1>2, <2>1 DEF Bills!RemindsFromTheNote
    <3>. QED BY <1>1, <1>3, <3>1, <3>2, <3>3, BillingBounds DEF Bills!Never
  <2>. QED BY <1>2, <1>4, <2>2, <2>3 DEF Bills!RemindsFromTheNote, Bills!Reminding
<1>. QED BY <1>6, <1>7, <1>8, <1>9 DEF Bills!BillingInv

LEMMA RunBreaksOffKeeps ==
    ASSUME Bills!BillingInv, NEW r \in B, Bills!RunBreaksOff(r)
    PROVE  Bills!BillingInv'
<1>0. Bills!TypeOK BY DEF Bills!BillingInv
<1>1. /\ v1 \in 0..MaxDay /\ v2 \in Bills!Service /\ v4 \in [B -> BillingRun]
      /\ v8 \in BOOLEAN /\ v9 \in 0..MaxEdits /\ v10 \in 0..MaxRuns
  BY <1>0, BillingTypes
<1>2. /\ v4' = [v4 EXCEPT ![r] = Bills!IdleRun]
      /\ v8' = (v8 \/ Bills!Reminding(r))
      /\ UNCHANGED <<v1, v2, v3, v5, v6, v7, v9, v10>>
  BY DEF Bills!RunBreaksOff
<1>3. v4' \in [B -> BillingRun] /\ v4'[r] = Bills!IdleRun
      /\ \A q \in B \ {r} : v4'[q] = v4[q]
  BY <1>1, <1>2, IdleRunIsRun, RunGoesOn
<1>4. CASE Bills!Reminding(r)
  <2>1. v8' /\ v8' \in BOOLEAN BY <1>2, <1>4
  <2>2. Bills!TypeOK' BY <1>0, <1>2, <1>3, <2>1 DEF Bills!TypeOK, BillingRun
  <2>3. Bills!RenewalsAdvance' /\ (v6'.crossed \/ Bills!RenewsOnCourse') BY <1>2, RenewalsStay
  <2>. QED BY <2>1, <2>2, <2>3 DEF Bills!BillingInv, Bills!RemindedOnceADay
<1>5. CASE ~Bills!Reminding(r)
  <2>1. v8' = v8 BY <1>1, <1>2, <1>5
  <2>2. /\ \A q \in B : v4'[q].stage \in {"send", "mark"} => v4'[q] = v4[q]
        /\ \A q \in B : v4[q].stage = "mark" => v4'[q] = v4[q]
    BY <1>3, <1>5, IdleRunIsRun DEF Bills!Reminding
  <2>. QED BY <1>1, <1>2, <1>3, <2>1, <2>2, StatusesKeep
<1>. QED BY <1>4, <1>5

LEMMA BillingKept ==
    ASSUME Bills!BillingInv, Bills!Next
    PROVE  Bills!BillingInv'
<1>1. ASSUME NEW r \in B,
             \/ Bills!FindAll(r) \/ Bills!GetStatistics(r)
             \/ Bills!GetExpiringServicesPreview(r)
             \/ Bills!GenerateExpiringServicesInvoicePdf(r)
             \/ Bills!SendExpiringServicesInvoice(r)
             \/ Bills!SendRenewalReminders(r)
      PROVE  Bills!BillingInv'
  <2>1. \E kind \in {"list", "remind"} : Bills!Begin(r, kind)
    BY <1>1 DEF Bills!FindAll, Bills!GetStatistics, Bills!GetExpiringServicesPreview,
     Bills!GenerateExpiringServicesInvoicePdf, Bills!SendExpiringServicesInvoice,
     Bills!SendRenewalReminders
  <2>. QED BY <2>1, UpdatesKeep
<1>. QED
  BY <1>1, RenewalsKeep, UpdatesKeep, FindKeeps, SendReminderKeeps, MarkRemindedKeeps,
   RunBreaksOffKeeps DEF Bills!Next

LEMMA BillingGoesOn ==
    ASSUME Bills!BillingInv, Bills!Next \/ UNCHANGED BillingVars
    PROVE  Bills!BillingInv'
<1>1. CASE Bills!Next BY <1>1, BillingKept
<1>2. CASE UNCHANGED BillingVars
  <2>1. UNCHANGED <<v1, v2, v3, v4, v5, v6, v7, v8, v9, v10>> BY <1>2 DEF BillingVars
  <2>2. /\ v1 \in 0..MaxDay /\ v2 \in Bills!Service /\ v4 \in [B -> BillingRun]
        /\ v9 \in 0..MaxEdits /\ v10 \in 0..MaxRuns
    BY BillingTypes DEF Bills!BillingInv
  <2>. QED BY <2>1, <2>2, StatusesKeep
<1>. QED BY <1>1, <1>2

(* EventReminders: reminder is v1, preferences v2, eventThere v3, run v4,  *)
(* inApp v5, delivered v6, repeated v7, abandoned v8, unwanted v9, changes *)
(* v10, faults v11, left v12 and doubted v13.                              *)

RemindersVars == <<v1, v2, v3, v4, v5, v6, v7, v8, v9, v10, v11, v12, v13>>

Reminder == [id : 0..MaxReminders, method : Remind!Methods \cup {{}}, due : BOOLEAN,
             sent : BOOLEAN, attempts : Nat]
ReminderRun == [stage : {"idle", "claim", "item", "push", "email", "judge", "release"},
                id : 0..MaxReminders, wanted : SUBSET Remind!Channels,
                eventThere : BOOLEAN, took : SUBSET Remind!Channels]

\* The type invariant, variable by variable.
LEMMA ReminderTypes ==
    Remind!TypeOK <=>
        /\ v1 \in Reminder /\ v2 \in Remind!Settings /\ v3 \in BOOLEAN
        /\ v4 \in [A -> ReminderRun]
        /\ v5 \subseteq 1..MaxReminders /\ v6 \subseteq 1..MaxReminders
        /\ v7 \subseteq 1..MaxReminders /\ v8 \subseteq 1..MaxReminders
        /\ v9 \subseteq 1..MaxReminders /\ v12 \subseteq 1..MaxReminders
        /\ v13 \subseteq 1..MaxReminders
        /\ v10 \in 0..MaxChanges /\ v11 \in 0..MaxFaults
BY Zenon DEF Remind!TypeOK, Reminder, ReminderRun, Remind!Ids

LEMMA ReminderTypesKept ==
    Remind!TypeOK' <=>
        /\ v1' \in Reminder /\ v2' \in Remind!Settings /\ v3' \in BOOLEAN
        /\ v4' \in [A -> ReminderRun]
        /\ v5' \subseteq 1..MaxReminders /\ v6' \subseteq 1..MaxReminders
        /\ v7' \subseteq 1..MaxReminders /\ v8' \subseteq 1..MaxReminders
        /\ v9' \subseteq 1..MaxReminders /\ v12' \subseteq 1..MaxReminders
        /\ v13' \subseteq 1..MaxReminders
        /\ v10' \in 0..MaxChanges /\ v11' \in 0..MaxFaults
BY Zenon DEF Remind!TypeOK, Reminder, ReminderRun, Remind!Ids

LEMMA ReminderBounds ==
    MaxReminders \in Nat /\ MaxChanges \in Nat /\ MaxFaults \in Nat
BY EventRemindersAssumed DEF Remind!RemindersAssumption

LEMMA IdleReminderRun ==
    /\ Remind!IdleRun \in ReminderRun
    /\ Remind!IdleRun.stage = "idle" /\ Remind!IdleRun.id = 0
    /\ Remind!NoReminder \in Reminder /\ Remind!NoReminder.id = 0
    /\ ~Remind!NoReminder.due /\ ~Remind!NoReminder.sent
BY ReminderBounds DEF Remind!IdleRun, ReminderRun, Remind!NoReminder, Reminder, Remind!Channels

\* The reminders that left, whatever became of them.
ReminderSends ==
    v7 \subseteq 1..MaxReminders /\ v12 \subseteq 1..MaxReminders /\ v13 \subseteq 1..MaxReminders

\* The invariant in two parts: who works on what, one formula for a run, and
\* what is known of the reminders that left.
RemindersCore ==
    /\ Remind!TypeOK
    /\ v1.id = 0 => ~v1.due /\ ~v1.sent
    /\ v1.id \in v6 => v1.sent
    /\ \A r \in A : v4[r].stage = "idle" <=> v4[r].id = 0
    /\ \A r \in A : v4[r].id # 0 /\ v4[r].stage # "claim" =>
         /\ v1.id = v4[r].id => v1.sent
         /\ v4[r].id \notin v6
         /\ \A q \in A : v4[q].id = v4[r].id /\ v4[q].stage # "claim" => q = r
    /\ v1.sent => \/ v1.id \in v6 \cup v9 \cup v8
                  \/ \E r \in A : v4[r].id = v1.id /\ v4[r].id # 0 /\ v4[r].stage # "claim"

LeftKnown ==
    /\ v7 \subseteq v13
    /\ v1.id \in v12 => v1.sent \/ v1.id \in v13
    /\ \A r \in A :
         /\ v4[r].stage \in {"claim", "item", "push", "release"} => v4[r].took = {}
         /\ v4[r].id # 0 /\ v4[r].stage # "claim" /\ v4[r].id \in v12 =>
              v4[r].took # {} \/ v4[r].id \in v13

LEMMA RemindersInWords == Remind!RemindersInv <=> RemindersCore /\ LeftKnown
<1>1. Remind!LeftIsKnown <=>
        /\ v1.id \in v12 => v1.sent \/ v1.id \in v13
        /\ \A r \in A :
             /\ v4[r].stage \in {"claim", "item", "push", "release"} => v4[r].took = {}
             /\ v4[r].id # 0 /\ v4[r].stage # "claim" /\ v4[r].id \in v12 =>
                  v4[r].took # {} \/ v4[r].id \in v13
  BY DEF Remind!LeftIsKnown, Remind!Working
<1>2. Remind!RemindersInv <=> /\ Remind!TypeOK
                              /\ v1.id = 0 => ~v1.due /\ ~v1.sent
                              /\ v1.id \in v6 => v1.sent
                              /\ Remind!RunsMark /\ Remind!LeftIsKnown
                              /\ Remind!RemindedOnce /\ Remind!SentIsDelivered
  BY DEF Remind!RemindersInv
<1>3. Remind!RunsMark /\ Remind!RemindedOnce /\ Remind!SentIsDelivered <=>
        /\ v7 \subseteq v13
        /\ \A r \in A : v4[r].stage = "idle" <=> v4[r].id = 0
        /\ \A r \in A : v4[r].id # 0 /\ v4[r].stage # "claim" =>
             /\ v1.id = v4[r].id => v1.sent
             /\ v4[r].id \notin v6
             /\ \A q \in A : v4[q].id = v4[r].id /\ v4[q].stage # "claim" => q = r
        /\ v1.sent => \/ v1.id \in v6 \cup v9 \cup v8
                      \/ \E r \in A : v4[r].id = v1.id /\ v4[r].id # 0 /\ v4[r].stage # "claim"
  BY DEF Remind!RunsMark, Remind!RemindedOnce, Remind!SentIsDelivered, Remind!Working, Remind!There
<1>. QED BY <1>1, <1>2, <1>3 DEF RemindersCore, LeftKnown

LEMMA RemindersStart ==
    ASSUME Remind!Init
    PROVE  Remind!RemindersInv
<1>1. Remind!Init OBVIOUS
<1>2. /\ v1 = Remind!NoReminder /\ v4 = [r \in A |-> Remind!IdleRun]
      /\ v3 = TRUE /\ v5 = {} /\ v6 = {} /\ v7 = {} /\ v8 = {} /\ v9 = {} /\ v10 = 0 /\ v11 = 0
      /\ v12 = {} /\ v13 = {}
      /\ v2 = [push |-> TRUE, email |-> TRUE, reminders |-> TRUE]
  BY <1>1, Zenon DEF Remind!Init
<1>3. v2 \in Remind!Settings /\ v4 \in [A -> ReminderRun]
  BY <1>2, IdleReminderRun DEF Remind!Settings
<1>4. v3 \in BOOLEAN BY <1>2, Zenon
<1>5. v10 \in 0..MaxChanges /\ v11 \in 0..MaxFaults BY <1>2, ReminderBounds
<1>a. /\ v5 \subseteq 1..MaxReminders /\ v6 \subseteq 1..MaxReminders /\ v7 \subseteq 1..MaxReminders
      /\ v8 \subseteq 1..MaxReminders /\ v9 \subseteq 1..MaxReminders
      /\ v12 \subseteq 1..MaxReminders /\ v13 \subseteq 1..MaxReminders
  BY <1>2
<1>b. v1 \in Reminder BY <1>2, IdleReminderRun
<1>6. Remind!TypeOK BY <1>3, <1>4, <1>5, <1>a, <1>b, ReminderTypes, Zenon
<1>c. v4 = [r \in A |-> Remind!IdleRun] BY <1>2
<1>d. Remind!IdleRun.stage = "idle" /\ Remind!IdleRun.id = 0 BY IdleReminderRun
<1>7. \A r \in A : v4[r].stage = "idle" /\ v4[r].id = 0 BY <1>c, <1>d
<1>8. v1.id = 0 /\ ~v1.due /\ ~v1.sent BY <1>2, IdleReminderRun
<1>. QED
  BY <1>2, <1>6, <1>7, <1>8, RemindersInWords DEF RemindersCore, LeftKnown

\* What the invariant says, without the types: one formula for a run.
LEMMA ReminderFacts ==
    ASSUME RemindersCore
    PROVE  /\ Remind!TypeOK
           /\ v1.id = 0 => ~v1.due /\ ~v1.sent
           /\ v1.id \in v6 => v1.sent
           /\ \A r \in A : v4[r].stage = "idle" <=> v4[r].id = 0
           /\ \A r \in A : v4[r].id # 0 /\ v4[r].stage # "claim" =>
                /\ v1.id = v4[r].id => v1.sent
                /\ v4[r].id \notin v6
                /\ \A q \in A : v4[q].id = v4[r].id /\ v4[q].stage # "claim" => q = r
           /\ v1.sent => \/ v1.id \in v6 \cup v9 \cup v8
                         \/ \E r \in A : v4[r].id = v1.id /\ v4[r].id # 0 /\ v4[r].stage # "claim"
           /\ ReminderSends
BY ReminderTypes DEF RemindersCore, ReminderSends

LEMMA ReminderFactsKept ==
    ASSUME Remind!TypeOK',
           v1'.id = 0 => ~v1'.due /\ ~v1'.sent,
           v1'.id \in v6' => v1'.sent,
           \A r \in A : v4'[r].stage = "idle" <=> v4'[r].id = 0,
           \A r \in A : v4'[r].id # 0 /\ v4'[r].stage # "claim" =>
                /\ v1'.id = v4'[r].id => v1'.sent
                /\ v4'[r].id \notin v6'
                /\ \A q \in A : v4'[q].id = v4'[r].id /\ v4'[q].stage # "claim" => q = r,
           v1'.sent => \/ v1'.id \in v6' \cup v9' \cup v8'
                       \/ \E r \in A : v4'[r].id = v1'.id /\ v4'[r].id # 0 /\ v4'[r].stage # "claim"
    PROVE  RemindersCore'
BY DEF RemindersCore

\* The member's calls: the reminder is another, or due, and no run has it in hand.
LEMMA MembersCalls ==
    ASSUME RemindersCore,
           \/ \E id \in 1..MaxReminders : Remind!CreateReminder(id)
           \/ Remind!DeleteReminder \/ Remind!UpdatePreferences
           \/ Remind!RemoveEvent \/ Remind!BecomesDue
    PROVE  RemindersCore'
<1>0. Remind!TypeOK BY ReminderFacts
<1>1. /\ v1 \in Reminder /\ v2 \in Remind!Settings /\ v3 \in BOOLEAN
      /\ v4 \in [A -> ReminderRun] /\ v10 \in 0..MaxChanges
  BY <1>0, ReminderTypes
<1>2. ASSUME NEW id \in 1..MaxReminders, Remind!CreateReminder(id)
      PROVE  RemindersCore'
  <2>1. PICK method \in Remind!Methods :
          /\ v1.id = 0 /\ id \notin v5 \cup v12 \cup v6 \cup v8 \cup v9
          /\ \A r \in A : v4[r].id # id
          /\ v1' = [Remind!NoReminder EXCEPT !.id = id, !.method = method]
          /\ UNCHANGED <<v4, Remind!Outcome, Remind!World>>
    BY <1>2, Zenon DEF Remind!CreateReminder
  <2>a. UNCHANGED <<v2, v3, v4, v5, v6, v7, v8, v9, v10, v11, v12, v13>>
    BY <2>1 DEF Remind!Outcome, Remind!Sending, Remind!World
  <2>2. v1' \in Reminder /\ v1'.id = id /\ id # 0 /\ ~v1'.sent
    <3>. DEFINE y == [Remind!NoReminder EXCEPT !.id = id, !.method = method]
    <3>1. id \in 0..MaxReminders /\ id # 0 /\ method \in Remind!Methods \cup {{}} BY ReminderBounds
    <3>2. Remind!NoReminder \in Reminder /\ ~Remind!NoReminder.sent BY IdleReminderRun
    <3>3. y \in Reminder /\ y.id = id /\ y.sent = Remind!NoReminder.sent BY <3>1, <3>2 DEF Reminder
    <3>4. v1' = y BY <2>1, Zenon
    <3>. HIDE DEF y
    <3>. QED BY <3>1, <3>2, <3>3, <3>4, Zenon
  <2>3. Remind!TypeOK' BY <1>0, <2>a, <2>2, ReminderTypes, ReminderTypesKept
  <2>. QED BY <2>1, <2>a, <2>2, <2>3, ReminderFacts, ReminderFactsKept
<1>3. CASE Remind!DeleteReminder
  <2>1. /\ v1' = Remind!NoReminder
        /\ UNCHANGED <<v2, v3, v4, v5, v6, v7, v8, v9, v10, v11, v12, v13>>
    BY <1>3 DEF Remind!DeleteReminder, Remind!Outcome, Remind!Sending, Remind!World
  <2>2. v1' \in Reminder /\ v1'.id = 0 /\ ~v1'.sent /\ ~v1'.due BY <2>1, IdleReminderRun
  <2>3. Remind!TypeOK' BY <1>0, <2>1, <2>2, ReminderTypes, ReminderTypesKept
  <2>4. v1'.id \notin v6' BY <1>0, <2>1, <2>2, ReminderTypes
  <2>. QED BY <2>1, <2>2, <2>3, <2>4, ReminderFacts, ReminderFactsKept
<1>4. CASE Remind!UpdatePreferences \/ Remind!RemoveEvent
  <2>1. /\ v10 < MaxChanges /\ v10' = v10 + 1
        /\ v2' \in Remind!Settings
        /\ UNCHANGED <<v1, v4, v5, v6, v7, v8, v9, v11, v12, v13>>
    BY <1>1, <1>4 DEF Remind!UpdatePreferences, Remind!RemoveEvent, Remind!Outcome, Remind!Sending
  <2>2. v3' = FALSE \/ v3' = v3 BY <1>4 DEF Remind!UpdatePreferences, Remind!RemoveEvent
  <2>3. v3' \in BOOLEAN BY <1>1, <2>2, Zenon
  <2>4. v10' \in 0..MaxChanges BY <1>1, <2>1, ReminderBounds
  <2>5. Remind!TypeOK' BY <1>0, <2>1, <2>3, <2>4, ReminderTypes, ReminderTypesKept
  <2>. QED BY <2>1, <2>5, ReminderFacts, ReminderFactsKept
<1>5. CASE Remind!BecomesDue
  <2>1. /\ v1.id # 0 /\ v1' = [v1 EXCEPT !.due = TRUE]
        /\ UNCHANGED <<v2, v3, v4, v5, v6, v7, v8, v9, v10, v11, v12, v13>>
    BY <1>5 DEF Remind!BecomesDue, Remind!Outcome, Remind!Sending, Remind!World
  <2>2. v1' \in Reminder /\ v1'.id = v1.id /\ v1'.sent = v1.sent BY <1>1, <2>1 DEF Reminder
  <2>3. Remind!TypeOK' BY <1>0, <2>1, <2>2, ReminderTypes, ReminderTypesKept
  <2>. QED BY <2>1, <2>2, <2>3, ReminderFacts, ReminderFactsKept
<1>. QED BY <1>2, <1>3, <1>4, <1>5

\* One run goes on; the others are where they were.
LEMMA ReminderRunGoesOn ==
    ASSUME v4 \in [A -> ReminderRun], NEW r \in A, NEW x \in ReminderRun, v4' = [v4 EXCEPT ![r] = x]
    PROVE  v4' \in [A -> ReminderRun] /\ v4'[r] = x /\ \A q \in A \ {r} : v4'[q] = v4[q]
OBVIOUS

\* A run goes from one stage of its work to the next, or to taking the claim back.
LEMMA WorkGoesOn ==
    ASSUME RemindersCore, NEW r \in A, NEW x \in ReminderRun,
           v4[r].stage \notin {"idle", "claim"}, x.stage \notin {"idle", "claim"}, x.id = v4[r].id,
           v4' = [v4 EXCEPT ![r] = x], v5' \subseteq 1..MaxReminders, ReminderSends',
           UNCHANGED <<v1, v2, v3, v6, v8, v9, v10, v11>>
    PROVE  RemindersCore'
<1>1. /\ v4 \in [A -> ReminderRun]
      /\ v4' \in [A -> ReminderRun] /\ v4'[r] = x /\ \A q \in A \ {r} : v4'[q] = v4[q]
  BY ReminderFacts, ReminderTypes, ReminderRunGoesOn
<1>2. Remind!TypeOK' BY <1>1, ReminderFacts, ReminderTypes, ReminderTypesKept DEF ReminderSends
<1>3. /\ v4[r].id # 0
      /\ \A q \in A : v4'[q].id = v4[q].id
      /\ \A q \in A : v4'[q].stage = "idle" <=> v4[q].stage = "idle"
      /\ \A q \in A : v4'[q].stage = "claim" <=> v4[q].stage = "claim"
  BY <1>1, ReminderFacts
<1>. QED BY <1>2, <1>3, ReminderFacts, ReminderFactsKept

\* A run ends that has nothing in hand, or what it had is settled.
LEMMA WorkEnds ==
    ASSUME RemindersCore, NEW r \in A,
           v4' = [v4 EXCEPT ![r] = Remind!IdleRun],
           UNCHANGED <<v2, v3, v5, v7, v10, v12, v13>>, v11' \in 0..MaxFaults,
           v6 \subseteq v6', v6' \subseteq v6 \cup ({v4[r].id} \ {0}),
           v8 \subseteq v8', v8' \subseteq v8 \cup ({v4[r].id} \ {0}),
           v9' = v9,
           v1' \in Reminder, v1'.id = v1.id, v1'.due = v1.due,
           v1'.sent => v1.sent,
           v1'.sent # v1.sent => v4[r].id = v1.id /\ v4[r].stage # "claim",
           v4[r].id # 0 /\ v4[r].stage # "claim" /\ v1.id = v4[r].id
               => ~v1'.sent \/ v1.id \in v6' \cup v8',
           v6' # v6 => v4[r].stage # "claim" /\ (v1.id = v4[r].id => v1'.sent)
    PROVE  RemindersCore'
<1>1. /\ v4 \in [A -> ReminderRun] /\ v4' \in [A -> ReminderRun]
      /\ v4'[r].stage = "idle" /\ v4'[r].id = 0 /\ \A q \in A \ {r} : v4'[q] = v4[q]
  BY ReminderFacts, ReminderTypes, ReminderRunGoesOn, IdleReminderRun
<1>2. v4[r].id \in 0..MaxReminders /\ v6 \subseteq 1..MaxReminders /\ v8 \subseteq 1..MaxReminders
  BY <1>1, ReminderFacts, ReminderTypes DEF ReminderRun
<1>3. v6' \subseteq 1..MaxReminders /\ v8' \subseteq 1..MaxReminders BY <1>2, ReminderBounds
<1>4. Remind!TypeOK' BY <1>1, <1>3, ReminderFacts, ReminderTypes, ReminderTypesKept
<1>5. v1'.id = 0 => ~v1'.due /\ ~v1'.sent BY ReminderFacts
<1>6. v1'.id \in v6' => v1'.sent
  <2>1. CASE v1.id \in v6
    <3>1. v1.sent /\ (v4[r].id = v1.id /\ v4[r].stage # "claim" => v4[r].id = 0)
      BY <2>1, ReminderFacts
    <3>2. v1.id # 0 BY <1>2, <2>1
    <3>. QED BY <3>1, <3>2
  <2>2. CASE v1.id \notin v6 /\ v1.id \in v6' BY <2>2
  <2>. QED BY <2>1, <2>2
<1>7. \A q \in A : v4'[q].stage = "idle" <=> v4'[q].id = 0 BY <1>1, ReminderFacts
<1>8. ASSUME NEW q \in A, v4'[q].id # 0, v4'[q].stage # "claim"
      PROVE  /\ v1'.id = v4'[q].id => v1'.sent
             /\ v4'[q].id \notin v6'
             /\ \A p \in A : v4'[p].id = v4'[q].id /\ v4'[p].stage # "claim" => p = q
  <2>1. q # r /\ v4'[q] = v4[q] /\ v4[q].id # 0 /\ v4[q].stage # "claim" BY <1>1, <1>8
  <2>2. /\ v1.id = v4[q].id => v1.sent
        /\ v4[q].id \notin v6
        /\ \A p \in A : v4[p].id = v4[q].id /\ v4[p].stage # "claim" => p = q
    BY <2>1, ReminderFacts
  <2>3. v4[r].stage # "claim" => v4[r].id # v4[q].id BY <2>1, <2>2
  <2>4. v1'.id = v4'[q].id => v1'.sent BY <2>1, <2>2, <2>3
  <2>5. v4'[q].id \notin v6' BY <2>1, <2>2, <2>3
  <2>6. \A p \in A : v4'[p].id = v4'[q].id /\ v4'[p].stage # "claim" => p = q BY <1>1, <2>1, <2>2
  <2>. QED BY <2>4, <2>5, <2>6
<1>9. v1'.sent => \/ v1'.id \in v6' \cup v9' \cup v8'
                  \/ \E q \in A : v4'[q].id = v1'.id /\ v4'[q].id # 0 /\ v4'[q].stage # "claim"
  <2>. SUFFICES ASSUME v1'.sent, v1.id \notin v6' \cup v9 \cup v8'
                PROVE  \E q \in A : v4'[q].id = v1.id /\ v4'[q].id # 0 /\ v4'[q].stage # "claim"
    OBVIOUS
  <2>1. PICK q \in A : v4[q].id = v1.id /\ v4[q].id # 0 /\ v4[q].stage # "claim" BY ReminderFacts
  <2>2. q # r BY <2>1
  <2>. QED BY <1>1, <2>1, <2>2
<1>. QED BY <1>4, <1>5, <1>6, <1>7, <1>8, <1>9, ReminderFactsKept

LEMMA ListKeeps ==
    ASSUME RemindersCore, NEW r \in A, Remind!ListDue(r)
    PROVE  RemindersCore'
<1>. DEFINE x == [stage |-> "claim", id |-> v1.id, wanted |-> Remind!Wanted,
                  eventThere |-> v3, took |-> {}]
<1>1. /\ v4[r].stage = "idle" /\ v1.due /\ ~v1.sent /\ v4' = [v4 EXCEPT ![r] = x]
      /\ UNCHANGED <<v1, v2, v3, v5, v6, v7, v8, v9, v10, v11, v12, v13>>
  BY DEF Remind!ListDue, Remind!Outcome, Remind!Sending, Remind!World
<1>2. /\ Remind!TypeOK /\ v1 \in Reminder /\ v3 \in BOOLEAN /\ v4 \in [A -> ReminderRun]
      /\ v1.id # 0
  BY <1>1, ReminderFacts, ReminderTypes
<1>3. Remind!Wanted \subseteq Remind!Channels
  BY <1>2 DEF Remind!Wanted, Reminder, Remind!Methods, Remind!Channels
<1>4. x \in ReminderRun /\ x.stage = "claim" /\ x.id = v1.id BY <1>2, <1>3 DEF ReminderRun, Reminder
<1>. HIDE DEF x
<1>5. v4' \in [A -> ReminderRun] /\ v4'[r] = x /\ \A q \in A \ {r} : v4'[q] = v4[q]
  BY <1>1, <1>2, <1>4, ReminderRunGoesOn
<1>6. Remind!TypeOK' BY <1>1, <1>2, <1>5, ReminderTypes, ReminderTypesKept
<1>7. \A q \in A : v4'[q].stage = "idle" <=> v4'[q].id = 0 BY <1>2, <1>4, <1>5, ReminderFacts
<1>8. \A q \in A : v4'[q].id # 0 /\ v4'[q].stage # "claim" => q # r /\ v4'[q] = v4[q] BY <1>4, <1>5
<1>9. \A q \in A : v4[q].id # 0 => v4'[q] = v4[q] BY <1>1, <1>5, ReminderFacts
<1>. QED BY <1>1, <1>6, <1>7, <1>8, <1>9, ReminderFacts, ReminderFactsKept

LEMMA ClaimKeeps ==
    ASSUME RemindersCore, NEW r \in A, Remind!Claim(r)
    PROVE  RemindersCore'
<1>1. /\ v4[r].stage = "claim" /\ v1.id = v4[r].id /\ ~v1.sent
      /\ v1' = [v1 EXCEPT !.sent = TRUE, !.attempts = @ + 1]
      /\ UNCHANGED <<v2, v3, v5, v6, v7, v8, v10, v11, v12, v13>>
  BY DEF Remind!Claim, Remind!Claimable, Remind!There, Remind!Sending, Remind!World
<1>2. /\ Remind!TypeOK /\ v1 \in Reminder /\ v4 \in [A -> ReminderRun] /\ v4[r].id # 0
      /\ v9 \subseteq 1..MaxReminders
  BY <1>1, ReminderFacts, ReminderTypes
<1>3. v1' \in Reminder /\ v1'.id = v1.id /\ v1'.sent /\ v1.id \in 1..MaxReminders
  <2>1. PICK n \in Nat : n = v1.attempts + 1 BY <1>2 DEF Reminder
  <2>2. v1' = [v1 EXCEPT !.sent = TRUE, !.attempts = n] BY <1>1, <2>1, Zenon
  <2>3. \A x \in Reminder :
          LET y == [x EXCEPT !.sent = TRUE, !.attempts = n] IN y \in Reminder /\ y.id = x.id /\ y.sent
    BY DEF Reminder
  <2>4. v1' \in Reminder /\ v1'.id = v1.id /\ v1'.sent BY <1>2, <2>2, <2>3, Zenon
  <2>5. v1.id \in 0..MaxReminders /\ v1.id # 0 BY <1>1, <1>2 DEF Reminder
  <2>. QED BY <2>4, <2>5, ReminderBounds
<1>4. \A q \in A : v4[q].id # 0 /\ v4[q].stage # "claim" => v4[q].id # v1.id BY <1>1, ReminderFacts
<1>5. v1.id \notin v6 BY <1>1, ReminderFacts
<1>6. CASE v4' = [v4 EXCEPT ![r] = Remind!IdleRun] /\ v9' = v9 \cup {v4[r].id}
  <2>1. /\ v4' \in [A -> ReminderRun] /\ v4'[r].stage = "idle" /\ v4'[r].id = 0
        /\ \A q \in A \ {r} : v4'[q] = v4[q]
    BY <1>2, <1>6, IdleReminderRun, ReminderRunGoesOn
  <2>2. Remind!TypeOK' BY <1>1, <1>2, <1>3, <1>6, <2>1, ReminderTypes, ReminderTypesKept
  <2>. QED BY <1>1, <1>2, <1>3, <1>4, <1>5, <1>6, <2>1, <2>2, ReminderFacts, ReminderFactsKept
<1>7. ASSUME NEW s \in {"item", "release"}, Remind!GoTo(r, s), v9' = v9
      PROVE  RemindersCore'
  <2>. DEFINE x == [v4[r] EXCEPT !.stage = s]
  <2>1. v4' = [v4 EXCEPT ![r] = x] BY <1>2, <1>7 DEF Remind!GoTo, ReminderRun
  <2>2. x \in ReminderRun /\ x.stage = s /\ x.id = v4[r].id BY <1>2 DEF ReminderRun
  <2>. HIDE DEF x
  <2>3. v4' \in [A -> ReminderRun] /\ v4'[r] = x /\ \A q \in A \ {r} : v4'[q] = v4[q]
    BY <1>2, <2>1, <2>2, ReminderRunGoesOn
  <2>4. Remind!TypeOK' BY <1>1, <1>2, <1>3, <1>7, <2>3, ReminderTypes, ReminderTypesKept
  <2>5. \A q \in A : v4'[q].stage = "idle" <=> v4'[q].id = 0 BY <1>2, <2>2, <2>3, ReminderFacts
  <2>6. ASSUME NEW q \in A, v4'[q].id # 0, v4'[q].stage # "claim"
        PROVE  /\ v1'.id = v4'[q].id => v1'.sent
               /\ v4'[q].id \notin v6'
               /\ \A p \in A : v4'[p].id = v4'[q].id /\ v4'[p].stage # "claim" => p = q
    <3>1. CASE q = r BY <1>1, <1>3, <1>4, <1>5, <2>2, <2>3, <2>6, <3>1
    <3>2. CASE q # r BY <1>1, <1>3, <1>4, <2>2, <2>3, <2>6, <3>2, ReminderFacts
    <3>. QED BY <3>1, <3>2
  <2>7. v4'[r].id = v1'.id /\ v4'[r].id # 0 /\ v4'[r].stage # "claim" /\ v1'.id # 0
    BY <1>1, <1>2, <1>3, <2>2, <2>3, ReminderFacts
  <2>. QED BY <1>1, <1>3, <1>5, <2>4, <2>5, <2>6, <2>7, ReminderFactsKept
<1>. QED
  <2>1. CASE v4[r].eventThere /\ v4[r].wanted = {} BY <1>6, <2>1 DEF Remind!Claim
  <2>2. CASE ~(v4[r].eventThere /\ v4[r].wanted = {})
    <3>1. v9' = v9 /\ Remind!GoTo(r, IF v4[r].eventThere THEN "item" ELSE "release")
      BY <2>2 DEF Remind!Claim
    <3>. QED BY <1>7, <3>1
  <2>. QED BY <2>1, <2>2

LEMMA ClaimLostKeeps ==
    ASSUME RemindersCore, NEW r \in A, Remind!ClaimLost(r)
    PROVE  RemindersCore'
<1>1. /\ v4[r].stage = "claim" /\ v4' = [v4 EXCEPT ![r] = Remind!IdleRun]
      /\ UNCHANGED <<v1, v2, v3, v5, v6, v7, v8, v9, v10, v11, v12, v13>>
  BY DEF Remind!ClaimLost, Remind!Outcome, Remind!Sending, Remind!World
<1>2. v1 \in Reminder /\ v11 \in 0..MaxFaults BY ReminderFacts, ReminderTypes
<1>. QED BY <1>1, <1>2, WorkEnds

\* What a run at work has in hand.
LEMMA InHand ==
    ASSUME RemindersCore, NEW r \in A, v4[r].stage \notin {"idle", "claim"}
    PROVE  /\ v4[r] \in ReminderRun /\ v4 \in [A -> ReminderRun]
           /\ v4[r].id \in 1..MaxReminders /\ v4[r].id # 0 /\ v4[r].id \notin v6
           /\ v1.id = v4[r].id => v1.sent
           /\ v5 \subseteq 1..MaxReminders /\ ReminderSends
           /\ v1 \in Reminder /\ v11 \in 0..MaxFaults
<1>1. /\ v4 \in [A -> ReminderRun] /\ v5 \subseteq 1..MaxReminders /\ v1 \in Reminder
      /\ v11 \in 0..MaxFaults
  BY ReminderFacts, ReminderTypes
<1>2. v4[r].id # 0 /\ v4[r].id \notin v6 /\ (v1.id = v4[r].id => v1.sent) /\ ReminderSends
  BY ReminderFacts
<1>3. v4[r].id \in 0..MaxReminders /\ v4[r] \in ReminderRun BY <1>1 DEF ReminderRun
<1>. QED BY <1>1, <1>2, <1>3, ReminderBounds

LEMMA NextStage ==
    ASSUME NEW x \in ReminderRun, NEW s \in {"push", "email", "judge", "release"}
    PROVE  LET y == [x EXCEPT !.stage = s]
           IN  y \in ReminderRun /\ y.stage \notin {"idle", "claim"} /\ y.id = x.id
BY DEF ReminderRun

LEMMA GoesToStage ==
    ASSUME RemindersCore, NEW r \in A, v4[r].stage \notin {"idle", "claim"},
           NEW s \in {"push", "email", "judge", "release"}, Remind!GoTo(r, s),
           v5' \subseteq 1..MaxReminders, ReminderSends',
           UNCHANGED <<v1, v2, v3, v6, v8, v9, v10, v11>>
    PROVE  RemindersCore'
<1>. DEFINE x == [v4[r] EXCEPT !.stage = s]
<1>1. v4' = [v4 EXCEPT ![r] = x] BY InHand DEF Remind!GoTo, ReminderRun
<1>2. x \in ReminderRun /\ x.stage \notin {"idle", "claim"} /\ x.id = v4[r].id BY InHand, NextStage
<1>. HIDE DEF x
<1>. QED BY <1>1, <1>2, WorkGoesOn

LEMMA ChannelsKeep ==
    ASSUME RemindersCore, NEW r \in A,
           \/ Remind!CreateItem(r) \/ Remind!Throws(r)
           \/ Remind!TryPush(r) \/ Remind!TryEmail(r)
    PROVE  RemindersCore'
<1>1. CASE Remind!CreateItem(r)
  <2>1. /\ v4[r].stage = "item" /\ v5' = v5 \cup {v4[r].id} /\ Remind!GoTo(r, "push")
        /\ UNCHANGED <<v1, v2, v3, v6, v7, v8, v9, v10, v11, v12, v13>>
    BY <1>1 DEF Remind!CreateItem, Remind!Sending, Remind!World
  <2>2. v5' \subseteq 1..MaxReminders /\ ReminderSends' BY <2>1, InHand DEF ReminderSends
  <2>. QED BY <2>1, <2>2, GoesToStage
<1>2. CASE Remind!Throws(r)
  <2>1. /\ v4[r].stage \in {"item", "push", "email"} /\ Remind!GoTo(r, "release")
        /\ UNCHANGED <<v1, v2, v3, v5, v6, v7, v8, v9, v10, v11, v12, v13>>
    BY <1>2 DEF Remind!Throws, Remind!Outcome, Remind!Sending, Remind!World
  <2>2. v5' \subseteq 1..MaxReminders /\ ReminderSends' BY <2>1, InHand DEF ReminderSends
  <2>. QED BY <2>1, <2>2, GoesToStage
<1>3. ASSUME NEW c \in {"push", "email"}, NEW next \in {"email", "judge"},
             NEW otherwise \in {"judge", "release"}, Remind!TryChannel(r, c, next, otherwise)
      PROVE  RemindersCore'
  <2>1. /\ v4[r].stage = c /\ UNCHANGED <<v1, v2, v3, v5, v6, v8, v9, v10, v11>>
        /\ \/ v4' = [v4 EXCEPT ![r].stage = next, ![r].took = @ \cup {c}]
           \/ Remind!GoTo(r, next)
           \/ Remind!GoTo(r, otherwise)
    BY <1>3 DEF Remind!TryChannel, Remind!World
  <2>2. v5' \subseteq 1..MaxReminders /\ ReminderSends'
    <3>1. v5 \subseteq 1..MaxReminders /\ ReminderSends /\ v4[r].id \in 1..MaxReminders BY <2>1, InHand
    <3>2. /\ v12' \subseteq v12 \cup {v4[r].id} /\ v13' \subseteq v13 \cup {v4[r].id}
          /\ v7' \subseteq v7 \cup {v4[r].id}
      BY <1>3 DEF Remind!TryChannel, Remind!Leaves, Remind!Sending
    <3>. QED BY <2>1, <3>1, <3>2 DEF ReminderSends
  <2>3. CASE v4' = [v4 EXCEPT ![r].stage = next, ![r].took = @ \cup {c}]
    <3>. DEFINE x == [v4[r] EXCEPT !.stage = next, !.took = v4[r].took \cup {c}]
    <3>1. v4 \in [A -> ReminderRun] /\ v4[r] \in ReminderRun BY <2>1, InHand
    <3>2. v4' = [v4 EXCEPT ![r] = x] BY <2>3, <3>1 DEF ReminderRun
    <3>3. x \in ReminderRun /\ x.stage \notin {"idle", "claim"} /\ x.id = v4[r].id
      BY <3>1 DEF ReminderRun, Remind!Channels
    <3>. HIDE DEF x
    <3>. QED BY <2>1, <2>2, <3>2, <3>3, WorkGoesOn
  <2>4. CASE Remind!GoTo(r, next) BY <2>1, <2>2, <2>4, GoesToStage
  <2>5. CASE Remind!GoTo(r, otherwise) BY <2>1, <2>2, <2>5, GoesToStage
  <2>. QED BY <2>1, <2>3, <2>4, <2>5
<1>. QED BY <1>1, <1>2, <1>3 DEF Remind!TryPush, Remind!TryEmail

LEMMA JudgeKeeps ==
    ASSUME RemindersCore, NEW r \in A, Remind!Judge(r)
    PROVE  RemindersCore'
<1>1. v4[r].stage = "judge" /\ UNCHANGED <<v1, v2, v3, v5, v7, v8, v9, v10, v11, v12, v13>>
  BY DEF Remind!Judge, Remind!Sending, Remind!World
<1>2. CASE Remind!Succeeded(r)
  <2>1. v4' = [v4 EXCEPT ![r] = Remind!IdleRun] /\ v6' = v6 \cup {v4[r].id}
    BY <1>2 DEF Remind!Judge, Remind!Succeeded
  <2>2. v11 \in 0..MaxFaults /\ v1 \in Reminder /\ v4[r].id # 0 /\ (v1.id = v4[r].id => v1.sent)
    BY <1>1, InHand
  <2>. QED BY <1>1, <2>1, <2>2, WorkEnds
<1>3. CASE ~Remind!Succeeded(r)
  <2>1. Remind!GoTo(r, "release") /\ v6' = v6 BY <1>3 DEF Remind!Judge, Remind!Succeeded
  <2>2. v5' \subseteq 1..MaxReminders /\ ReminderSends' BY <1>1, InHand DEF ReminderSends
  <2>. QED BY <1>1, <2>1, <2>2, GoesToStage
<1>. QED BY <1>2, <1>3

LEMMA ReleaseKeeps ==
    ASSUME RemindersCore, NEW r \in A, Remind!Release(r)
    PROVE  RemindersCore'
<1>1. /\ v4[r].stage = "release" /\ v4' = [v4 EXCEPT ![r] = Remind!IdleRun]
      /\ UNCHANGED <<v2, v3, v5, v6, v7, v8, v9, v10, v11, v12, v13>>
      /\ v1' = IF v1.id = v4[r].id THEN [v1 EXCEPT !.sent = FALSE] ELSE v1
  BY DEF Remind!Release, Remind!There, Remind!Outcome, Remind!Sending, Remind!World
<1>2. v11' \in 0..MaxFaults /\ v1 \in Reminder /\ v4[r].id # 0 /\ (v1.id = v4[r].id => v1.sent)
  BY <1>1, InHand
<1>3. CASE v1.id = v4[r].id
  <2>a. \A x \in Reminder : LET y == [x EXCEPT !.sent = FALSE]
                            IN  y \in Reminder /\ y.id = x.id /\ y.due = x.due /\ ~y.sent
    BY DEF Reminder
  <2>1. v1' \in Reminder /\ v1'.id = v1.id /\ v1'.due = v1.due /\ ~v1'.sent
    BY <1>1, <1>2, <1>3, <2>a, Zenon
  <2>. QED BY <1>1, <1>2, <1>3, <2>1, WorkEnds
<1>4. CASE v1.id # v4[r].id BY <1>1, <1>2, <1>4, WorkEnds
<1>. QED BY <1>3, <1>4

LEMMA RunStopsKeeps ==
    ASSUME RemindersCore, NEW r \in A, Remind!RunStops(r)
    PROVE  RemindersCore'
<1>1. /\ v4[r].stage # "idle" /\ v4' = [v4 EXCEPT ![r] = Remind!IdleRun]
      /\ v11 < MaxFaults /\ v11' = v11 + 1
      /\ v8' = IF v4[r].stage = "claim" THEN v8 ELSE v8 \cup {v4[r].id}
      /\ UNCHANGED <<v1, v2, v3, v5, v6, v7, v9, v10, v12, v13>>
  BY DEF Remind!RunStops, Remind!Sending
<1>2. v1 \in Reminder /\ v11 \in 0..MaxFaults /\ v4[r].id # 0 BY <1>1, ReminderFacts, ReminderTypes
<1>3. v11' \in 0..MaxFaults BY <1>1, <1>2, ReminderBounds
<1>. QED BY <1>1, <1>2, <1>3, WorkEnds

LEMMA RemindersRest ==
    ASSUME RemindersCore, UNCHANGED RemindersVars
    PROVE  RemindersCore'
<1>1. UNCHANGED <<v1, v2, v3, v4, v5, v6, v7, v8, v9, v10, v11, v12, v13>> BY DEF RemindersVars
<1>2. Remind!TypeOK' BY <1>1, ReminderFacts, ReminderTypes, ReminderTypesKept
<1>. QED BY <1>1, <1>2, ReminderFacts, ReminderFactsKept

\* What is known of the reminders that left.
LEMMA LeftStaysKnown ==
    ASSUME RemindersCore, LeftKnown, UNCHANGED <<v7, v12, v13>>,
           v1'.id \in v12 => \/ v1'.id = v1.id /\ v1'.sent = v1.sent
                             \/ v1'.id \in v13 \/ v1'.sent,
           \A r \in A :
             \/ v4'[r] = v4[r]
             \/ v4'[r].id = 0 /\ v4'[r].took = {}
             \/ v4'[r].stage = "claim" /\ v4'[r].took = {}
             \/ /\ v4'[r].id = v4[r].id /\ v4'[r].took = v4[r].took
                /\ v4'[r].stage # "claim"
                /\ v4'[r].stage \in {"item", "push", "release"} => v4[r].took = {}
                /\ \/ v4[r].stage # "claim"
                   \/ v4[r].id \in v12 => v4[r].id \in v13
    PROVE  LeftKnown'
<1>1. v7' \subseteq v13' /\ (v1'.id \in v12' => v1'.sent \/ v1'.id \in v13') BY DEF LeftKnown
<1>2. ASSUME NEW r \in A
      PROVE  /\ v4'[r].stage \in {"claim", "item", "push", "release"} => v4'[r].took = {}
             /\ v4'[r].id # 0 /\ v4'[r].stage # "claim" /\ v4'[r].id \in v12' =>
                  v4'[r].took # {} \/ v4'[r].id \in v13'
  <2>1. /\ v4[r].stage \in {"claim", "item", "push", "release"} => v4[r].took = {}
        /\ v4[r].id # 0 /\ v4[r].stage # "claim" /\ v4[r].id \in v12 =>
             v4[r].took # {} \/ v4[r].id \in v13
    BY DEF LeftKnown
  <2>2. CASE v4'[r] = v4[r] BY <2>1, <2>2
  <2>3. CASE v4'[r].id = 0 /\ v4'[r].took = {} BY <2>3
  <2>4. CASE v4'[r].stage = "claim" /\ v4'[r].took = {} BY <2>4
  <2>5. CASE /\ v4'[r].id = v4[r].id /\ v4'[r].took = v4[r].took
             /\ v4'[r].stage # "claim"
             /\ v4'[r].stage \in {"item", "push", "release"} => v4[r].took = {}
             /\ \/ v4[r].stage # "claim"
                \/ v4[r].id \in v12 => v4[r].id \in v13
    BY <2>1, <2>5
  <2>. QED BY <2>2, <2>3, <2>4, <2>5
<1>. QED BY <1>1, <1>2 DEF LeftKnown

LEMMA StageOfRun ==
    ASSUME RemindersCore, NEW r \in A, NEW s \in {"item", "push", "email", "judge", "release"},
           Remind!GoTo(r, s)
    PROVE  /\ v4'[r].stage = s /\ v4'[r].id = v4[r].id /\ v4'[r].took = v4[r].took
           /\ \A q \in A \ {r} : v4'[q] = v4[q]
<1>1. v4 \in [A -> ReminderRun] BY ReminderFacts, ReminderTypes
<1>2. v4' = [v4 EXCEPT ![r] = [v4[r] EXCEPT !.stage = s]] BY <1>1 DEF Remind!GoTo, ReminderRun
<1>. QED BY <1>1, <1>2 DEF ReminderRun

LEMMA IdleOfRun ==
    ASSUME RemindersCore, NEW r \in A, v4' = [v4 EXCEPT ![r] = Remind!IdleRun]
    PROVE  /\ v4'[r].id = 0 /\ v4'[r].took = {}
           /\ \A q \in A \ {r} : v4'[q] = v4[q]
<1>1. v4 \in [A -> ReminderRun] BY ReminderFacts, ReminderTypes
<1>2. Remind!IdleRun.id = 0 /\ Remind!IdleRun.took = {} BY DEF Remind!IdleRun
<1>. QED BY <1>1, <1>2

LEMMA LeftKept ==
    ASSUME RemindersCore, LeftKnown, Remind!Next
    PROVE  LeftKnown'
<1>1. /\ v1 \in Reminder /\ v4 \in [A -> ReminderRun] /\ ReminderSends
  BY ReminderFacts, ReminderTypes
<1>2. ASSUME NEW id \in 1..MaxReminders, Remind!CreateReminder(id)
      PROVE  LeftKnown'
  <2>1. PICK method \in Remind!Methods :
          /\ id \notin v5 \cup v12 \cup v6 \cup v8 \cup v9
          /\ v1' = [Remind!NoReminder EXCEPT !.id = id, !.method = method]
          /\ UNCHANGED <<v4, Remind!Outcome>>
    BY <1>2, Zenon DEF Remind!CreateReminder
  <2>2. v1'.id = id /\ id \notin v12 BY <2>1 DEF Remind!NoReminder
  <2>3. UNCHANGED <<v4, v7, v12, v13>> BY <2>1 DEF Remind!Outcome, Remind!Sending
  <2>. QED BY <2>2, <2>3, LeftStaysKnown
<1>3. CASE Remind!DeleteReminder
  <2>1. v1'.id = 0 /\ UNCHANGED <<v4, v7, v12, v13>>
    BY <1>3, IdleReminderRun DEF Remind!DeleteReminder, Remind!Outcome, Remind!Sending, Remind!World
  <2>2. 0 \notin v12 BY <1>1 DEF ReminderSends
  <2>. QED BY <2>1, <2>2, LeftStaysKnown
<1>4. CASE Remind!UpdatePreferences \/ Remind!RemoveEvent
  <2>1. UNCHANGED <<v1, v4, v7, v12, v13>>
    BY <1>4 DEF Remind!UpdatePreferences, Remind!RemoveEvent, Remind!Outcome, Remind!Sending
  <2>. QED BY <2>1, LeftStaysKnown
<1>5. CASE Remind!BecomesDue
  <2>1. v1' = [v1 EXCEPT !.due = TRUE] /\ UNCHANGED <<v4, v7, v12, v13>>
    BY <1>5 DEF Remind!BecomesDue, Remind!Outcome, Remind!Sending, Remind!World
  <2>2. v1'.id = v1.id /\ v1'.sent = v1.sent BY <1>1, <2>1 DEF Reminder
  <2>. QED BY <2>1, <2>2, LeftStaysKnown
<1>6. ASSUME NEW r \in A, Remind!ListDue(r)
      PROVE  LeftKnown'
  <2>1. /\ v4' = [v4 EXCEPT ![r] = [stage |-> "claim", id |-> v1.id, wanted |-> Remind!Wanted,
                                    eventThere |-> v3, took |-> {}]]
        /\ UNCHANGED <<v1, v7, v12, v13>>
    BY <1>6 DEF Remind!ListDue, Remind!Outcome, Remind!Sending, Remind!World
  <2>2. v4'[r].stage = "claim" /\ v4'[r].took = {} /\ \A q \in A \ {r} : v4'[q] = v4[q]
    BY <1>1, <2>1
  <2>. QED BY <2>1, <2>2, LeftStaysKnown
<1>7. ASSUME NEW r \in A, Remind!Claim(r)
      PROVE  LeftKnown'
  <2>1. /\ v4[r].stage = "claim" /\ v1.id = v4[r].id /\ ~v1.sent
        /\ v1' = [v1 EXCEPT !.sent = TRUE, !.attempts = @ + 1]
        /\ UNCHANGED <<v7, v12, v13>>
    BY <1>7 DEF Remind!Claim, Remind!Claimable, Remind!There, Remind!Sending, Remind!World
  <2>2. v1'.sent BY <1>1, <2>1 DEF Reminder
  <2>3. /\ v4[r].took = {} /\ v4[r].id \in v12 => v4[r].id \in v13
        /\ v4[r].took = {}
    BY <2>1 DEF LeftKnown
  <2>4. CASE v4' = [v4 EXCEPT ![r] = Remind!IdleRun] BY <2>1, <2>2, <2>4, IdleOfRun, LeftStaysKnown
  <2>5. ASSUME NEW s \in {"item", "release"}, Remind!GoTo(r, s)
        PROVE  LeftKnown'
    BY <2>1, <2>2, <2>3, <2>5, StageOfRun, LeftStaysKnown
  <2>. QED
    <3>1. \/ v4' = [v4 EXCEPT ![r] = Remind!IdleRun]
          \/ Remind!GoTo(r, "item") \/ Remind!GoTo(r, "release")
      BY <1>7 DEF Remind!Claim
    <3>. QED BY <2>4, <2>5, <3>1
<1>8. ASSUME NEW r \in A, Remind!ClaimLost(r) \/ Remind!RunStops(r)
      PROVE  LeftKnown'
  <2>1. v4' = [v4 EXCEPT ![r] = Remind!IdleRun] /\ UNCHANGED <<v1, v7, v12, v13>>
    BY <1>8 DEF Remind!ClaimLost, Remind!RunStops, Remind!Outcome, Remind!Sending, Remind!World
  <2>. QED BY <2>1, IdleOfRun, LeftStaysKnown
<1>9. ASSUME NEW r \in A, Remind!CreateItem(r) \/ Remind!Throws(r)
      PROVE  LeftKnown'
  <2>1. /\ v4[r].stage \in {"item", "push"}
        /\ Remind!GoTo(r, "push") \/ Remind!GoTo(r, "release")
        /\ UNCHANGED <<v1, v7, v12, v13>>
    BY <1>9 DEF Remind!CreateItem, Remind!Throws, Remind!Outcome, Remind!Sending, Remind!World
  <2>2. v4[r].took = {} BY <2>1 DEF LeftKnown
  <2>3. ASSUME NEW s \in {"push", "release"}, Remind!GoTo(r, s)
        PROVE  LeftKnown'
    BY <2>1, <2>2, <2>3, StageOfRun, LeftStaysKnown
  <2>. QED BY <2>1, <2>3
<1>10. ASSUME NEW r \in A, NEW c \in {"push", "email"}, NEW next \in {"email", "judge"},
              NEW otherwise \in {"judge", "release"},
              c = "email" => otherwise = "judge",
              Remind!TryChannel(r, c, next, otherwise)
       PROVE  LeftKnown'
  <2>1. v4[r].stage = c /\ v4[r].id # 0 /\ UNCHANGED v1
    BY <1>10, ReminderFacts DEF Remind!TryChannel
  <2>2. CASE Remind!GoTo(r, next) /\ UNCHANGED <<v7, v12, v13>>
    BY <2>1, <2>2, StageOfRun, LeftStaysKnown
  \* It leaves: known of the run that was told, and of this reminder all the
  \* same where it was known before.
  <2>3. ASSUME Remind!Leaves(r)
        PROVE  /\ v12' = v12 \cup {v4[r].id}
               /\ v7' \subseteq v13 \cup {v4[r].id}
               /\ v7' \subseteq v13
               /\ v1.id = v4[r].id => v1.sent
               /\ \A q \in A : q # r /\ v4[q].id = v4[r].id => v4[q].stage = "claim"
    <3>1. /\ v4[r].id \in v12 => v4[r].took # {} \/ v4[r].id \in v13
          /\ v7 \subseteq v13
      BY <2>1 DEF LeftKnown
    <3>2. v7' \subseteq v13 BY <2>3, <3>1 DEF Remind!Leaves
    <3>. QED BY <2>1, <2>3, <3>2, ReminderFacts DEF Remind!Leaves
  <2>4. CASE /\ v4' = [v4 EXCEPT ![r].stage = next, ![r].took = @ \cup {c}]
             /\ Remind!Leaves(r) /\ v13' = v13
    <3>1. /\ v4'[r].stage = next /\ v4'[r].id = v4[r].id /\ v4'[r].took # {}
          /\ \A q \in A \ {r} : v4'[q] = v4[q]
      BY <1>1, <2>4 DEF ReminderRun
    <3>2. v1'.id \in v12' => v1'.sent \/ v1'.id \in v13' BY <2>1, <2>3, <2>4 DEF LeftKnown
    <3>3. ASSUME NEW q \in A
          PROVE  /\ v4'[q].stage \in {"claim", "item", "push", "release"} => v4'[q].took = {}
                 /\ v4'[q].id # 0 /\ v4'[q].stage # "claim" /\ v4'[q].id \in v12' =>
                      v4'[q].took # {} \/ v4'[q].id \in v13'
      <4>0. v4'[r].stage \notin {"claim", "item", "push", "release"} BY <3>1
      <4>1. CASE q = r BY <3>1, <4>0, <4>1, Zenon
      <4>2. CASE q # r
        <5>1. v4'[q] = v4[q] BY <3>1, <4>2
        <5>2. /\ v4[q].stage \in {"claim", "item", "push", "release"} => v4[q].took = {}
              /\ v4[q].id # 0 /\ v4[q].stage # "claim" /\ v4[q].id \in v12 =>
                   v4[q].took # {} \/ v4[q].id \in v13
          BY DEF LeftKnown
        <5>3. v4[q].stage # "claim" /\ v4[q].id \in v12' => v4[q].id \in v12
          BY <2>3, <2>4, <4>2
        <5>4. v13 \subseteq v13' BY <2>4
        <5>. QED BY <5>1, <5>2, <5>3, <5>4
      <4>. QED BY <4>1, <4>2
    <3>. QED BY <2>3, <2>4, <3>2, <3>3 DEF LeftKnown
  <2>5. CASE Remind!GoTo(r, otherwise) /\ Remind!Leaves(r) /\ v13' = v13 \cup {v4[r].id}
    <3>1. /\ v4'[r].stage = otherwise /\ v4'[r].id = v4[r].id /\ v4'[r].took = v4[r].took
          /\ \A q \in A \ {r} : v4'[q] = v4[q]
      BY <2>5, StageOfRun
    <3>2. v1'.id \in v12' => v1'.sent \/ v1'.id \in v13' BY <2>1, <2>3, <2>5 DEF LeftKnown
    <3>3. otherwise = "release" => v4[r].took = {} BY <1>10, <2>1 DEF LeftKnown
    <3>4. ASSUME NEW q \in A
          PROVE  /\ v4'[q].stage \in {"claim", "item", "push", "release"} => v4'[q].took = {}
                 /\ v4'[q].id # 0 /\ v4'[q].stage # "claim" /\ v4'[q].id \in v12' =>
                      v4'[q].took # {} \/ v4'[q].id \in v13'
      <4>1. CASE q = r BY <2>5, <3>1, <3>3, <4>1
      <4>2. CASE q # r
        <5>1. v4'[q] = v4[q] BY <3>1, <4>2
        <5>2. /\ v4[q].stage \in {"claim", "item", "push", "release"} => v4[q].took = {}
              /\ v4[q].id # 0 /\ v4[q].stage # "claim" /\ v4[q].id \in v12 =>
                   v4[q].took # {} \/ v4[q].id \in v13
          BY DEF LeftKnown
        <5>3. v4[q].stage # "claim" /\ v4[q].id \in v12' => v4[q].id \in v12
          BY <2>3, <2>5, <4>2
        <5>4. v13 \subseteq v13' BY <2>5
        <5>. QED BY <5>1, <5>2, <5>3, <5>4
      <4>. QED BY <4>1, <4>2
    <3>. QED BY <2>3, <2>5, <3>2, <3>4 DEF LeftKnown
  <2>. QED BY <1>10, <2>2, <2>4, <2>5 DEF Remind!TryChannel, Remind!Sending
<1>11. ASSUME NEW r \in A, Remind!Judge(r)
       PROVE  LeftKnown'
  <2>1. /\ v4[r].stage = "judge" /\ UNCHANGED <<v1, v7, v12, v13>>
        /\ \/ v4' = [v4 EXCEPT ![r] = Remind!IdleRun]
           \/ v4[r].took = {} /\ Remind!GoTo(r, "release")
    BY <1>11 DEF Remind!Judge, Remind!Succeeded, Remind!Sending, Remind!World
  <2>2. CASE v4' = [v4 EXCEPT ![r] = Remind!IdleRun] BY <2>1, <2>2, IdleOfRun, LeftStaysKnown
  <2>3. CASE v4[r].took = {} /\ Remind!GoTo(r, "release")
    BY <2>1, <2>3, StageOfRun, LeftStaysKnown
  <2>. QED BY <2>1, <2>2, <2>3
<1>12. ASSUME NEW r \in A, Remind!Release(r)
       PROVE  LeftKnown'
  <2>1. /\ v4[r].stage = "release" /\ v4' = [v4 EXCEPT ![r] = Remind!IdleRun]
        /\ v1' = IF v1.id = v4[r].id THEN [v1 EXCEPT !.sent = FALSE] ELSE v1
        /\ UNCHANGED <<v7, v12, v13>>
    BY <1>12 DEF Remind!Release, Remind!There, Remind!Outcome, Remind!Sending, Remind!World
  <2>2. v4[r].id # 0 /\ v4[r].took = {} /\ (v4[r].id \in v12 => v4[r].id \in v13)
    BY <2>1, ReminderFacts DEF LeftKnown
  <2>3. v1'.id = v1.id /\ (v1.id # v4[r].id => v1'.sent = v1.sent) BY <1>1, <2>1 DEF Reminder
  <2>4. v1'.id \in v12 => v1'.sent = v1.sent \/ v1'.id \in v13 BY <2>2, <2>3
  <2>. QED BY <2>1, <2>3, <2>4, IdleOfRun, LeftStaysKnown
<1>. QED
  BY <1>2, <1>3, <1>4, <1>5, <1>6, <1>7, <1>8, <1>9, <1>10, <1>11, <1>12
  DEF Remind!Next, Remind!Ids, Remind!TryPush, Remind!TryEmail

LEMMA RemindersKept ==
    ASSUME Remind!RemindersInv, Remind!Next \/ UNCHANGED RemindersVars
    PROVE  Remind!RemindersInv'
<1>0. RemindersCore /\ LeftKnown BY RemindersInWords
<1>1. \/ \E id \in 1..MaxReminders : Remind!CreateReminder(id)
      \/ Remind!DeleteReminder \/ Remind!UpdatePreferences
      \/ Remind!RemoveEvent \/ Remind!BecomesDue
      \/ \E r \in A :
           \/ Remind!ListDue(r) \/ Remind!Claim(r)
           \/ Remind!ClaimLost(r) \/ Remind!CreateItem(r)
           \/ Remind!TryPush(r) \/ Remind!TryEmail(r)
           \/ Remind!Throws(r) \/ Remind!Judge(r)
           \/ Remind!Release(r) \/ Remind!RunStops(r)
      \/ UNCHANGED RemindersVars
  BY Zenon DEF Remind!Next, Remind!Ids
<1>2. RemindersCore'
  BY <1>0, <1>1, MembersCalls, ListKeeps, ClaimKeeps, ClaimLostKeeps, ChannelsKeep, JudgeKeeps,
   ReleaseKeeps, RunStopsKeeps, RemindersRest, Zenon
<1>3. LeftKnown'
  <2>1. CASE UNCHANGED RemindersVars BY <1>0, <2>1 DEF LeftKnown, RemindersVars
  <2>. QED BY <1>0, <2>1, LeftKept
<1>4. (Remind!RemindersInv <=> RemindersCore /\ LeftKnown)' BY RemindersInWords, PTL
<1>. QED BY <1>2, <1>3, <1>4

(* ScheduledEmails: day is v1, job v2, date v3, run v4, ran v5, mailed v6, *)
(* again v7, missed v8, started v9, moved v10 and forced v11; the one      *)
(* member is ann.                                                          *)

EmailVars == <<v1, v2, v3, v4, v5, v6, v7, v8, v9, v10, v11>>

Distances == UNION {Leads[j] : j \in Daily!Jobs}
EmailRun == [stage : {"idle", "lists", "mails"}, today : 0..MaxDay, lead : Int,
             leads : SUBSET Int, list : SUBSET {ann}]

\* What a run has yet to e-mail ann: at distance l on day d.
Owes(r, l, d) == d = r.today /\ (l \in r.leads \/ (ann \in r.list /\ l = r.lead))

\* One process runs the jobs, and nobody starts them by hand.
Single == Daily!Cardinality(Workers) <= 1

LEMMA EmailBounds ==
    /\ MaxDay \in Nat /\ MaxChanges \in Nat /\ MaxForced \in Nat /\ Workers \subseteq Processes
    /\ \A j \in Daily!Jobs : Leads[j] \subseteq Int /\ Leads[j] \subseteq Distances
<1>1. /\ MaxDay \in Nat /\ MaxChanges \in Nat /\ MaxForced \in Nat /\ Workers \subseteq Processes
      /\ Leads \in [Daily!Jobs -> SUBSET Int]
  BY ScheduledEmailsAssumed DEF Daily!ScheduledEmailsAssumption
<1>2. \A j \in Daily!Jobs : Leads[j] \subseteq Int /\ Leads[j] \subseteq Distances
  BY <1>1 DEF Distances
<1>. QED BY <1>1, <1>2

\* The farthest distance is one of those that are left.
LEMMA FarthestFirst ==
    ASSUME NEW j \in Daily!Jobs, NEW leads \in SUBSET Leads[j], leads # {}
    PROVE  Daily!Nearest(leads) \in leads
<1>1. \E l \in leads : \A k \in leads : k <= l
  BY ScheduledEmailsAssumed DEF Daily!ScheduledEmailsAssumption
<1>. QED BY <1>1 DEF Daily!Nearest

LEMMA OneWorker ==
    ASSUME Single, NEW p \in Workers, NEW q \in Workers
    PROVE  p = q
<1>1. Daily!IsFiniteSet(Processes) /\ Workers \subseteq Processes
  BY ScheduledEmailsAssumed DEF Daily!ScheduledEmailsAssumption
<1>2. IsFiniteSet(Processes) BY <1>1, Zenon DEF Daily!IsFiniteSet, IsFiniteSet
<1>3. Daily!Cardinality(Workers) = Cardinality(Workers)
  BY Zenon DEF Daily!Cardinality, Cardinality
<1>4. IsFiniteSet(Workers) BY <1>1, <1>2, FS_Subset
<1>5. SUFFICES ASSUME p # q PROVE FALSE OBVIOUS
<1>6. IsFiniteSet({p}) /\ Cardinality({p}) = 1 BY FS_Singleton
<1>7. Cardinality({p} \cup {q}) = Cardinality({p}) + 1 BY <1>5, <1>6, FS_AddElement
<1>8. Cardinality({p} \cup {q}) <= Cardinality(Workers)
  <2>1. {p} \cup {q} \subseteq Workers OBVIOUS
  <2>. QED BY <1>4, <2>1, FS_Subset
<1>9. Cardinality(Workers) \in Nat BY <1>4, FS_CardinalityType
<1>. QED BY <1>3, <1>6, <1>7, <1>8, <1>9 DEF Single

\* What is lost with a run, element by element.
LEMMA LostIsOwed ==
    ASSUME NEW r \in EmailRun
    PROVE  /\ \A l, d : <<ann, l, d>> \in Daily!Lost(r) <=> Owes(r, l, d)
           /\ \A x \in Daily!Lost(r) :
                \E l \in r.leads \cup {r.lead} : x = <<ann, l, r.today>> /\ Owes(r, l, r.today)
<1>1. r.list \subseteq {ann} BY DEF EmailRun
<1>2. ASSUME NEW l, NEW d, <<ann, l, d>> \in Daily!Lost(r)
      PROVE  Owes(r, l, d)
  BY <1>1, <1>2 DEF Daily!Lost, Owes
<1>3. ASSUME NEW l, NEW d, Owes(r, l, d)
      PROVE  <<ann, l, d>> \in Daily!Lost(r)
  <2>1. CASE l \in r.leads BY <1>3, <2>1 DEF Daily!Lost, Owes
  <2>2. CASE l \notin r.leads BY <1>3, <2>2 DEF Daily!Lost, Owes
  <2>. QED BY <2>1, <2>2
<1>4. ASSUME NEW x \in Daily!Lost(r)
      PROVE  \E l \in r.leads \cup {r.lead} : x = <<ann, l, r.today>> /\ Owes(r, l, r.today)
  <2>1. CASE x \in {ann} \X r.leads \X {r.today}
    <3>1. PICK l \in r.leads : x = <<ann, l, r.today>> BY <2>1
    <3>2. Owes(r, l, r.today) BY <3>1 DEF Owes
    <3>. QED BY <3>1, <3>2
  <2>2. CASE x \in r.list \X {r.lead} \X {r.today}
    <3>1. ann \in r.list /\ x = <<ann, r.lead, r.today>> BY <1>1, <2>2
    <3>2. Owes(r, r.lead, r.today) BY <3>1 DEF Owes
    <3>. QED BY <3>1, <3>2
  <2>. QED BY <2>1, <2>2 DEF Daily!Lost
<1>. QED BY <1>2, <1>3, <1>4

\* The invariant without DueAreMailed, which follows from the rest.
EmailCore ==
    /\ Daily!TypeOK /\ Daily!RunsAreInTime
    /\ v11 = 0 /\ Single => Daily!WorkersMailOnce /\ v7 = {}
    /\ v10 = 0 => Daily!DueAreAccountedFor

LEMMA EmailTypes ==
    Daily!TypeOK <=>
        /\ v1 \in 0..MaxDay /\ v2 \in Daily!Jobs
        /\ v3 \in [{ann} -> Daily!Dates \cup {Daily!None}]
        /\ v4 \in [Processes -> EmailRun] /\ (\A p \in Processes : v4[p].leads \subseteq Leads[v2])
        /\ v5 \subseteq Processes
        /\ v6 \subseteq Daily!Mails /\ v7 \subseteq Daily!Mails
        /\ v8 \subseteq Daily!Mails
        /\ v9 \in [0..MaxDay -> Nat]
        /\ v10 \in 0..MaxChanges /\ v11 \in 0..MaxForced
BY Zenon DEF Daily!TypeOK, EmailRun

LEMMA EmailTypesKept ==
    Daily!TypeOK' <=>
        /\ v1' \in 0..MaxDay /\ v2' \in Daily!Jobs
        /\ v3' \in [{ann} -> Daily!Dates \cup {Daily!None}]
        /\ v4' \in [Processes -> EmailRun]
        /\ (\A p \in Processes : v4'[p].leads \subseteq Leads[v2'])
        /\ v5' \subseteq Processes
        /\ v6' \subseteq Daily!Mails /\ v7' \subseteq Daily!Mails
        /\ v8' \subseteq Daily!Mails
        /\ v9' \in [0..MaxDay -> Nat]
        /\ v10' \in 0..MaxChanges /\ v11' \in 0..MaxForced
BY Zenon DEF Daily!TypeOK, EmailRun

LEMMA MailsOfAnn ==
    /\ \A x \in Daily!Mails :
         \E l \in Distances, d \in 0..MaxDay : x = <<ann, l, d>>
    /\ \A l \in Distances, d \in 0..MaxDay : <<ann, l, d>> \in Daily!Mails
BY DEF Daily!Mails, Distances

\* The parts of the invariant, with what is owed in place of sets of e-mails.
InTime ==
    \A p \in Processes :
        /\ v4[p].today <= v1
        /\ v4[p].stage # "idle" /\ v4[p].today = v1 => v9[v1] > 0
        /\ v4[p].stage # "mails" => v4[p].list = {}
        /\ v4[p].stage = "idle" => v4[p].leads = {}
        /\ v4[p].stage = "mails" => v4[p].lead \in Leads[v2] \ v4[p].leads

MailsOnce ==
    /\ v7 = {} /\ v5 \subseteq Workers
    /\ \A p \in Processes : v4[p].stage # "idle" => p \in Workers
    /\ \A p \in Processes : v4[p].stage # "idle" /\ v4[p].today = v1 => p \in v5
    /\ \A p \in Processes : \A l, d : <<ann, l, d>> \in v6 => ~Owes(v4[p], l, d)
    /\ \A l \in Distances, d \in 0..MaxDay :
         <<ann, l, d>> \in v6 => d <= v1 /\ (d = v1 => v5 # {})

Accounted ==
    \A d \in 0..v1 : \A l \in Leads[v2] :
        (d < v1 \/ v9[d] > 0) /\ v3[ann] # Daily!None /\ v3[ann] = d + l =>
            \/ <<ann, l, d>> \in v6 \cup v8
            \/ \E p \in Processes : Owes(v4[p], l, d)

LEMMA EmailFacts ==
    ASSUME EmailCore
    PROVE  /\ Daily!TypeOK /\ InTime /\ \A d \in v1 + 1..MaxDay : v9[d] = 0
           /\ v11 = 0 /\ Single => MailsOnce
           /\ v10 = 0 => Accounted
<1>1. Daily!TypeOK /\ InTime /\ \A d \in v1 + 1..MaxDay : v9[d] = 0
  BY DEF EmailCore, Daily!RunsAreInTime, InTime
<1>2. \A p \in Processes : v4[p] \in EmailRun BY <1>1, EmailTypes
<1>3. ASSUME v11 = 0, Single
      PROVE  MailsOnce
  <2>1. Daily!WorkersMailOnce /\ v7 = {} BY <1>3 DEF EmailCore
  <2>2. ASSUME NEW p \in Processes, NEW l, NEW d, <<ann, l, d>> \in v6
        PROVE  ~Owes(v4[p], l, d)
    <3>1. Daily!Lost(v4[p]) \cap v6 = {} BY <2>1 DEF Daily!WorkersMailOnce, Daily!ToMail
    <3>2. <<ann, l, d>> \notin Daily!Lost(v4[p]) BY <2>2, <3>1
    <3>. QED BY <1>2, <3>2, LostIsOwed
  <2>. QED BY <2>1, <2>2 DEF MailsOnce, Daily!WorkersMailOnce
<1>4. ASSUME v10 = 0
      PROVE  Accounted
  <2>1. \A d \in 0..v1 : \A l \in Leads[v2] :
          (d < v1 \/ v9[d] > 0) /\ v3[ann] # Daily!None /\ v3[ann] = d + l =>
            \/ <<ann, l, d>> \in v6 \cup v8
            \/ \E p \in Processes : <<ann, l, d>> \in Daily!Lost(v4[p])
    BY <1>4 DEF EmailCore, Daily!DueAreAccountedFor, Daily!ToMail
  <2>2. \A p \in Processes : \A l, d :
          <<ann, l, d>> \in Daily!Lost(v4[p]) => Owes(v4[p], l, d)
    BY <1>2, LostIsOwed
  <2>. QED BY <2>1, <2>2 DEF Accounted
<1>. QED BY <1>1, <1>3, <1>4

LEMMA EmailFactsKept ==
    ASSUME Daily!TypeOK', InTime', \A d \in v1' + 1..MaxDay : v9'[d] = 0,
           v11' = 0 /\ Single => MailsOnce',
           v10' = 0 => Accounted'
    PROVE  EmailCore'
<1>1. Daily!RunsAreInTime' BY DEF Daily!RunsAreInTime, InTime
<1>2. \A p \in Processes : v4'[p] \in EmailRun BY EmailTypesKept
<1>3. ASSUME v11' = 0, Single
      PROVE  Daily!WorkersMailOnce' /\ v7' = {}
  <2>1. MailsOnce' BY <1>3
  <2>2. ASSUME NEW p \in Processes
        PROVE  Daily!Lost(v4'[p]) \cap v6' = {}
    <3>. SUFFICES ASSUME NEW x \in Daily!Lost(v4'[p]), x \in v6'
                  PROVE  FALSE
      OBVIOUS
    <3>1. PICK l : x = <<ann, l, v4'[p].today>> /\ Owes(v4'[p], l, v4'[p].today) BY <1>2, LostIsOwed
    <3>. QED BY <2>1, <3>1 DEF MailsOnce
  <2>3. ASSUME NEW x \in v6'
        PROVE  x[3] <= v1' /\ (x[3] = v1' => v5' # {})
    <3>1. PICK l \in Distances, d \in 0..MaxDay : x = <<ann, l, d>> BY MailsOfAnn, EmailTypesKept
    <3>. QED BY <2>1, <3>1 DEF MailsOnce
  <2>4. v7' = {} /\ v5' \subseteq Workers
        /\ (\A p \in Processes : v4'[p].stage # "idle" => p \in Workers)
        /\ (\A p \in Processes : v4'[p].stage # "idle" /\ v4'[p].today = v1' => p \in v5')
    BY <2>1 DEF MailsOnce
  <2>. QED BY <2>2, <2>3, <2>4 DEF Daily!WorkersMailOnce, Daily!ToMail
<1>4. ASSUME v10' = 0
      PROVE  Daily!DueAreAccountedFor'
  <2>1. \A p \in Processes : \A l, d :
          Owes(v4'[p], l, d) => <<ann, l, d>> \in Daily!Lost(v4'[p])
    BY <1>2, LostIsOwed
  <2>2. Accounted' BY <1>4
  <2>. QED BY <2>1, <2>2 DEF Accounted, Daily!DueAreAccountedFor, Daily!ToMail
<1>. QED BY <1>1, <1>3, <1>4 DEF EmailCore

LEMMA IdleEmailRun ==
    /\ Daily!Idle \in EmailRun /\ Daily!Idle.stage = "idle"
    /\ Daily!Idle.today = 0 /\ Daily!Idle.leads = {}
    /\ Daily!Idle.list = {}
BY EmailBounds DEF Daily!Idle, EmailRun

LEMMA EmailsStart ==
    ASSUME Daily!Init
    PROVE  EmailCore
<1>1. Daily!Init OBVIOUS
<1>2. /\ v1 = 0 /\ v2 \in Daily!Jobs
      /\ v3 \in [{ann} -> Daily!Dates \cup {Daily!None}]
      /\ v4 = [p \in Processes |-> Daily!Idle]
      /\ v5 = {} /\ v6 = {} /\ v7 = {} /\ v8 = {} /\ v9 = [d \in 0..MaxDay |-> 0]
      /\ v10 = 0 /\ v11 = 0
  BY <1>1, Zenon DEF Daily!Init
<1>3. /\ v4 \in [Processes -> EmailRun] /\ v9 \in [0..MaxDay -> Nat]
      /\ v1 \in 0..MaxDay /\ v10 \in 0..MaxChanges /\ v11 \in 0..MaxForced
      /\ \A p \in Processes : v4[p] = Daily!Idle
      /\ \A d \in 0..MaxDay : v9[d] = 0
  BY <1>2, IdleEmailRun, EmailBounds
<1>4. Daily!TypeOK BY <1>2, <1>3, IdleEmailRun, EmailTypes
<1>5. Daily!RunsAreInTime BY <1>2, <1>3, IdleEmailRun, EmailBounds DEF Daily!RunsAreInTime
<1>6. Daily!WorkersMailOnce BY <1>2, <1>3, IdleEmailRun DEF Daily!WorkersMailOnce, Daily!ToMail
<1>7. Daily!DueAreAccountedFor BY <1>2, <1>3, EmailBounds DEF Daily!DueAreAccountedFor
<1>. QED BY <1>2, <1>4, <1>5, <1>6, <1>7 DEF EmailCore

LEMMA EmailRunChanges ==
    ASSUME v4 \in [Processes -> EmailRun], NEW p \in Processes, NEW x \in EmailRun,
           v4' = [v4 EXCEPT ![p] = x]
    PROVE  /\ v4' \in [Processes -> EmailRun] /\ v4'[p] = x
           /\ \A q \in Processes \ {p} : v4'[q] = v4[q]
OBVIOUS

\* A run that is under way goes on, fails at an e-mail, sends one, or ends.
LEMMA MailsGoOn ==
    ASSUME EmailCore, NEW p \in Processes, NEW x \in EmailRun, v4' = [v4 EXCEPT ![p] = x],
           v4[p].stage # "idle", UNCHANGED <<v1, v2, v3, v5, v9, v10, v11>>,
           x.leads \subseteq Leads[v2],
           x.today <= v1, x.stage # "idle" => x.today = v4[p].today,
           x.stage # "mails" => x.list = {}, x.stage = "idle" => x.leads = {},
           x.stage = "mails" => x.lead \in Leads[v2] \ x.leads,
           v6 \subseteq v6', v6' \subseteq Daily!Mails,
           v7' \subseteq Daily!Mails,
           v8 \subseteq v8', v8' \subseteq Daily!Mails,
           \A l, d : Owes(x, l, d) => d = v4[p].today,
           \A l, d : <<ann, l, d>> \in v6' /\ <<ann, l, d>> \notin v6 =>
               Owes(v4[p], l, d) /\ ~Owes(x, l, d),
           v11 = 0 /\ Single => v7' = {},
           v11 = 0 /\ Single => \A l, d : <<ann, l, d>> \in v6 => ~Owes(x, l, d),
           \A l, d : Owes(v4[p], l, d) /\ v3[ann] # Daily!None /\ v3[ann] = d + l =>
               <<ann, l, d>> \in v6' \cup v8' \/ Owes(x, l, d)
    PROVE  EmailCore'
<1>1. /\ Daily!TypeOK /\ InTime /\ \A d \in v1 + 1..MaxDay : v9[d] = 0
      /\ v4 \in [Processes -> EmailRun]
      /\ v4' \in [Processes -> EmailRun] /\ v4'[p] = x
      /\ \A q \in Processes \ {p} : v4'[q] = v4[q]
  BY EmailFacts, EmailTypes, EmailRunChanges
<1>2. Daily!TypeOK' BY <1>1, EmailTypes, EmailTypesKept
<1>3. InTime' BY <1>1 DEF InTime
<1>4. ASSUME v11 = 0, Single
      PROVE  MailsOnce'
  <2>1. MailsOnce /\ v7' = {} /\ \A l, d : <<ann, l, d>> \in v6 => ~Owes(x, l, d)
    BY <1>4, EmailFacts
  <2>2. p \in Workers BY <2>1 DEF MailsOnce
  <2>3. v5 \subseteq Workers /\ \A q \in Processes : v4'[q].stage # "idle" => q \in Workers
    BY <1>1, <2>1 DEF MailsOnce
  <2>4. \A q \in Processes : v4'[q].stage # "idle" /\ v4'[q].today = v1 => q \in v5
    BY <1>1, <2>1 DEF MailsOnce
  <2>5. ASSUME NEW q \in Processes, NEW l, NEW d, <<ann, l, d>> \in v6', Owes(v4'[q], l, d)
        PROVE  FALSE
    <3>1. CASE q = p BY <1>1, <2>1, <2>5, <3>1
    <3>2. CASE q # p
      <4>1. v4'[q] = v4[q] /\ v4[q].stage = "idle"
        BY <1>1, <1>4, <2>1, <2>2, <3>2, OneWorker DEF MailsOnce
      <4>2. v4[q].leads = {} /\ v4[q].list = {} BY <1>1, <4>1 DEF InTime
      <4>. QED BY <2>5, <4>1, <4>2 DEF Owes
    <3>. QED BY <3>1, <3>2
  <2>6. \A l \in Distances, d \in 0..MaxDay :
          <<ann, l, d>> \in v6' => d <= v1 /\ (d = v1 => v5 # {})
    <3>. SUFFICES ASSUME NEW l \in Distances, NEW d \in 0..MaxDay, <<ann, l, d>> \in v6'
                  PROVE  d <= v1 /\ (d = v1 => v5 # {})
      OBVIOUS
    <3>1. CASE <<ann, l, d>> \in v6 BY <2>1, <3>1 DEF MailsOnce
    <3>2. CASE <<ann, l, d>> \notin v6
      <4>1. d = v4[p].today BY <3>2 DEF Owes
      <4>2. v4[p].today <= v1 /\ (v4[p].today = v1 => p \in v5) BY <1>1, <2>1 DEF InTime, MailsOnce
      <4>. QED BY <4>1, <4>2
    <3>. QED BY <3>1, <3>2
  <2>. QED BY <2>1, <2>3, <2>4, <2>5, <2>6 DEF MailsOnce
<1>5. ASSUME v10 = 0
      PROVE  Accounted'
  <2>1. Accounted BY <1>5, EmailFacts
  <2>. SUFFICES ASSUME NEW d \in 0..v1, NEW l \in Leads[v2], d < v1 \/ v9[d] > 0,
                       v3[ann] # Daily!None, v3[ann] = d + l
                PROVE  <<ann, l, d>> \in v6' \cup v8' \/ \E q \in Processes : Owes(v4'[q], l, d)
    BY DEF Accounted
  <2>2. <<ann, l, d>> \in v6 \cup v8 \/ \E q \in Processes : Owes(v4[q], l, d) BY <2>1 DEF Accounted
  <2>3. ASSUME NEW q \in Processes, Owes(v4[q], l, d)
        PROVE  <<ann, l, d>> \in v6' \cup v8' \/ Owes(v4'[q], l, d)
    <3>1. CASE q = p BY <1>1, <2>3, <3>1
    <3>2. CASE q # p BY <1>1, <2>3, <3>2
    <3>. QED BY <3>1, <3>2
  <2>. QED BY <2>2, <2>3
<1>. QED BY <1>1, <1>2, <1>3, <1>4, <1>5, EmailFactsKept

LEMMA StartKeeps ==
    ASSUME EmailCore, NEW p \in Processes, Daily!Start(p),
           UNCHANGED <<v1, v2, v3, v6, v7, v8, v10>>, v11' \in 0..MaxForced,
           v5' \subseteq Processes, v5 \subseteq v5', v11' = 0 => v11 = 0,
           v11' = 0 => p \in Workers /\ p \notin v5 /\ v5' = v5 \cup {p}
    PROVE  EmailCore'
<1>. DEFINE x == [Daily!Idle EXCEPT !.stage = "lists", !.today = v1, !.leads = Leads[v2]]
<1>1. /\ v4[p].stage = "idle" /\ v4' = [v4 EXCEPT ![p] = x]
      /\ v9' = [v9 EXCEPT ![v1] = @ + 1]
  BY DEF Daily!Start
<1>2. /\ Daily!TypeOK /\ InTime /\ \A d \in v1 + 1..MaxDay : v9[d] = 0
      /\ v1 \in 0..MaxDay /\ v2 \in Daily!Jobs /\ v4 \in [Processes -> EmailRun]
      /\ v9 \in [0..MaxDay -> Nat]
  BY EmailFacts, EmailTypes
<1>3. /\ x \in EmailRun /\ x.stage = "lists" /\ x.today = v1 /\ x.leads = Leads[v2]
      /\ x.list = {}
  <2>1. Daily!Idle \in EmailRun /\ Daily!Idle.list = {} BY IdleEmailRun
  <2>2. PICK t \in 0..MaxDay : t = v1 BY <1>2
  <2>3. PICK leads \in SUBSET Int : leads = Leads[v2] BY <1>2, EmailBounds
  <2>4. x = [Daily!Idle EXCEPT !.stage = "lists", !.today = t, !.leads = leads]
    BY <2>2, <2>3, Zenon
  <2>. HIDE DEF x
  <2>5. ASSUME NEW i \in EmailRun,
               x = [i EXCEPT !.stage = "lists", !.today = t, !.leads = leads]
        PROVE  /\ x \in EmailRun /\ x.stage = "lists" /\ x.today = t /\ x.leads = leads
               /\ x.list = i.list
    BY <2>5 DEF EmailRun
  <2>6. /\ x \in EmailRun /\ x.stage = "lists" /\ x.today = t /\ x.leads = leads
        /\ x.list = Daily!Idle.list
    BY <2>1, <2>4, <2>5, Zenon
  <2>. QED BY <2>1, <2>2, <2>3, <2>6, Zenon
<1>. HIDE DEF x
<1>4. /\ v4' \in [Processes -> EmailRun] /\ v4'[p] = x
      /\ \A q \in Processes \ {p} : v4'[q] = v4[q]
  BY <1>1, <1>2, <1>3, EmailRunChanges
<1>5. /\ v9' \in [0..MaxDay -> Nat] /\ v9'[v1] > 0
      /\ \A d \in 0..MaxDay : d # v1 => v9'[d] = v9[d]
  BY <1>1, <1>2
<1>6. Daily!TypeOK' BY <1>2, <1>3, <1>4, <1>5, EmailTypes, EmailTypesKept
<1>7. InTime' /\ \A d \in v1 + 1..MaxDay : v9'[d] = 0
  <2>1. InTime' BY <1>2, <1>3, <1>4, <1>5 DEF InTime
  <2>. QED BY <1>2, <1>5, <2>1
<1>8. ASSUME v11' = 0, Single
      PROVE  MailsOnce'
  <2>1. MailsOnce /\ p \in Workers /\ p \notin v5 /\ v5' = v5 \cup {p} BY <1>8, EmailFacts
  <2>2. \A q \in Processes : v4'[q].stage # "idle" => q \in Workers
    BY <1>3, <1>4, <2>1 DEF MailsOnce
  <2>3. \A q \in Processes : v4'[q].stage # "idle" /\ v4'[q].today = v1 => q \in v5'
    BY <1>3, <1>4, <2>1 DEF MailsOnce
  <2>4. ASSUME NEW q \in Processes, NEW l, NEW d, <<ann, l, d>> \in v6, Owes(v4'[q], l, d)
        PROVE  FALSE
    <3>1. CASE q = p
      <4>1. d = v1 BY <1>3, <1>4, <2>4, <3>1 DEF Owes
      <4>2. PICK k \in Distances, e \in 0..MaxDay : <<ann, l, d>> = <<ann, k, e>>
        BY <1>2, <2>4, EmailTypes, MailsOfAnn
      <4>3. v5 # {} BY <2>1, <2>4, <4>1, <4>2 DEF MailsOnce
      <4>. QED BY <1>8, <2>1, <4>3, OneWorker DEF MailsOnce
    <3>2. CASE q # p BY <1>4, <2>1, <2>4, <3>2 DEF MailsOnce
    <3>. QED BY <3>1, <3>2
  <2>. QED BY <2>1, <2>2, <2>3, <2>4 DEF MailsOnce
<1>9. ASSUME v10 = 0
      PROVE  Accounted'
  <2>1. Accounted BY <1>9, EmailFacts
  <2>. SUFFICES ASSUME NEW d \in 0..v1, NEW l \in Leads[v2], d < v1 \/ v9'[d] > 0,
                       v3[ann] # Daily!None, v3[ann] = d + l
                PROVE  <<ann, l, d>> \in v6 \cup v8 \/ \E q \in Processes : Owes(v4'[q], l, d)
    BY DEF Accounted
  <2>2. CASE d = v1
    <3>1. Owes(x, l, d) BY <1>3, <2>2 DEF Owes
    <3>. QED BY <1>4, <3>1
  <2>3. CASE d # v1
    <3>1. <<ann, l, d>> \in v6 \cup v8 \/ \E q \in Processes : Owes(v4[q], l, d)
      BY <1>2, <2>1, <2>3 DEF Accounted
    <3>2. \A q \in Processes : Owes(v4[q], l, d) => q # p BY <1>1, <1>2 DEF InTime, Owes
    <3>. QED BY <1>4, <3>1, <3>2
  <2>. QED BY <2>2, <2>3
<1>. QED BY <1>6, <1>7, <1>8, <1>9, EmailFactsKept

LEMMA StartsKeep ==
    ASSUME EmailCore, NEW p \in Processes,
           \/ Daily!Scheduled(p) \/ Daily!Trigger(p)
    PROVE  EmailCore'
<1>1. v5 \subseteq Processes /\ v11 \in 0..MaxForced BY EmailFacts, EmailTypes
<1>2. CASE Daily!Scheduled(p)
  <2>1. /\ Daily!Start(p) /\ p \in Workers /\ p \notin v5 /\ v5' = v5 \cup {p}
        /\ UNCHANGED <<v1, v2, v3, v6, v7, v8, v10, v11>>
    BY <1>2 DEF Daily!Scheduled, Daily!RunsJobs
  <2>. QED BY <1>1, <2>1, StartKeeps
<1>3. CASE Daily!Trigger(p)
  <2>1. /\ Daily!Start(p) /\ v11 < MaxForced /\ v11' = v11 + 1
        /\ UNCHANGED <<v1, v2, v3, v5, v6, v7, v8, v10>>
    BY <1>3 DEF Daily!Trigger
  <2>2. v11' \in 0..MaxForced /\ v11' # 0 BY <1>1, <2>1, EmailBounds
  <2>. QED BY <1>1, <2>1, <2>2, StartKeeps
<1>. QED BY <1>2, <1>3

\* What is known of a run that is under way.
LEMMA UnderWay ==
    ASSUME EmailCore, NEW p \in Processes
    PROVE  /\ v1 \in 0..MaxDay /\ v2 \in Daily!Jobs
           /\ v4 \in [Processes -> EmailRun] /\ v4[p] \in EmailRun
           /\ v4[p].leads \subseteq Leads[v2] /\ v4[p].today <= v1 /\ v4[p].today \in 0..MaxDay
           /\ v4[p].stage # "mails" => v4[p].list = {}
           /\ v4[p].stage = "mails" => v4[p].lead \in Leads[v2] \ v4[p].leads
           /\ v6 \subseteq Daily!Mails /\ v7 \subseteq Daily!Mails
           /\ v8 \subseteq Daily!Mails
           /\ \A l \in Leads[v2] : <<ann, l, v4[p].today>> \in Daily!Mails
           /\ v11 = 0 /\ Single =>
                v7 = {} /\ \A l, d : <<ann, l, d>> \in v6 => ~Owes(v4[p], l, d)
<1>1. /\ v1 \in 0..MaxDay /\ v2 \in Daily!Jobs
      /\ v4 \in [Processes -> EmailRun] /\ v4[p].leads \subseteq Leads[v2]
      /\ v6 \subseteq Daily!Mails /\ v7 \subseteq Daily!Mails
      /\ v8 \subseteq Daily!Mails
  BY EmailFacts, EmailTypes
<1>2. v4[p] \in EmailRun /\ v4[p].today \in 0..MaxDay BY <1>1 DEF EmailRun
<1>3. /\ v4[p].today <= v1
      /\ v4[p].stage # "mails" => v4[p].list = {}
      /\ v4[p].stage = "mails" => v4[p].lead \in Leads[v2] \ v4[p].leads
  BY EmailFacts DEF InTime
<1>4. \A l \in Leads[v2] : <<ann, l, v4[p].today>> \in Daily!Mails
  BY <1>1, <1>2, EmailBounds, MailsOfAnn
<1>5. v11 = 0 /\ Single => v7 = {} /\ \A l, d : <<ann, l, d>> \in v6 => ~Owes(v4[p], l, d)
  BY EmailFacts DEF MailsOnce
<1>. QED BY <1>1, <1>2, <1>3, <1>4, <1>5

LEMMA ListDueKeeps ==
    ASSUME EmailCore, NEW p \in Processes, Daily!ListDue(p)
    PROVE  EmailCore'
<1>. DEFINE lead == Daily!Nearest(v4[p].leads)
            due == {m \in {ann} : Daily!DueOn(m, lead, v4[p].today)}
            x == [v4[p] EXCEPT !.stage = "mails", !.lead = lead, !.leads = v4[p].leads \ {lead},
                               !.list = due]
<1>1. /\ v4[p].stage = "lists" /\ v4[p].leads # {}
      /\ v4' = [v4 EXCEPT ![p].stage = "mails", ![p].lead = lead,
                          ![p].leads = @ \ {lead}, ![p].list = due]
      /\ UNCHANGED <<v1, v2, v3, v5, v6, v7, v8, v9, v10, v11>>
  BY DEF Daily!ListDue
<1>2. lead \in v4[p].leads BY <1>1, UnderWay, FarthestFirst
<1>3. lead \in Int /\ lead \in Leads[v2] BY <1>2, UnderWay, EmailBounds
<1>4. ann \in due <=> v3[ann] # Daily!None /\ v3[ann] = v4[p].today + lead BY DEF Daily!DueOn
<1>5. due \subseteq {ann} OBVIOUS
<1>. HIDE DEF lead, due
<1>6. v4' = [v4 EXCEPT ![p] = x] BY <1>1, UnderWay DEF EmailRun
<1>7. /\ x \in EmailRun /\ x.stage = "mails" /\ x.lead = lead /\ x.leads = v4[p].leads \ {lead}
      /\ x.list = due /\ x.today = v4[p].today
  BY <1>3, <1>5, UnderWay DEF EmailRun
<1>. HIDE DEF x
<1>8. ASSUME NEW l, NEW d, Owes(x, l, d)
      PROVE  Owes(v4[p], l, d)
  <2>1. d = v4[p].today /\ (l \in v4[p].leads \/ l = lead) BY <1>7, <1>8 DEF Owes
  <2>. QED BY <1>2, <2>1 DEF Owes
<1>9. v4[p].list = {} BY <1>1, UnderWay
<1>10. ASSUME NEW l, NEW d, Owes(v4[p], l, d), v3[ann] # Daily!None, v3[ann] = d + l
       PROVE  Owes(x, l, d)
  <2>1. d = v4[p].today /\ l \in v4[p].leads BY <1>9, <1>10 DEF Owes
  <2>2. CASE l = lead
    <3>1. ann \in due BY <1>4, <1>10, <2>1, <2>2, Zenon
    <3>. QED BY <1>7, <2>1, <2>2, <3>1 DEF Owes
  <2>3. CASE l # lead BY <1>7, <2>1, <2>3 DEF Owes
  <2>. QED BY <2>2, <2>3
<1>11. \A l, d : Owes(x, l, d) => d = v4[p].today BY <1>7 DEF Owes
<1>12. v11 = 0 /\ Single => v7' = {} /\ \A l, d : <<ann, l, d>> \in v6 => ~Owes(x, l, d)
  BY <1>1, <1>8, UnderWay
<1>13. /\ x.leads \subseteq Leads[v2] /\ x.lead \in Leads[v2] \ x.leads /\ x.today <= v1
       /\ v6' \subseteq Daily!Mails /\ v7' \subseteq Daily!Mails
       /\ v8' \subseteq Daily!Mails
  BY <1>1, <1>3, <1>7, UnderWay
<1>. QED BY <1>1, <1>6, <1>7, <1>10, <1>11, <1>12, <1>13, MailsGoOn

\* ann's e-mail is struck off the list of a run.
LEMMA StruckOff ==
    ASSUME EmailCore, NEW p \in Processes, v4[p].stage = "mails", ann \in v4[p].list,
           v4' = [v4 EXCEPT ![p].list = @ \ {ann}],
           UNCHANGED <<v1, v2, v3, v5, v9, v10, v11>>,
           \/ /\ v6' = v6 /\ v7' = v7
              /\ v8' = v8 \cup {<<ann, v4[p].lead, v4[p].today>>}
           \/ /\ v6' = v6 \cup {<<ann, v4[p].lead, v4[p].today>>} /\ v8' = v8
              /\ v7' = IF <<ann, v4[p].lead, v4[p].today>> \in v6
                       THEN v7 \cup {<<ann, v4[p].lead, v4[p].today>>} ELSE v7
    PROVE  EmailCore'
<1>. DEFINE x == [v4[p] EXCEPT !.list = {}]
<1>1. v4' = [v4 EXCEPT ![p] = x]
  <2>1. v4[p].list \ {ann} = {} /\ v4 \in [Processes -> EmailRun] BY UnderWay DEF EmailRun
  <2>. QED BY <2>1 DEF EmailRun
<1>2. /\ x \in EmailRun /\ x.stage = "mails" /\ x.list = {} /\ x.lead = v4[p].lead
      /\ x.leads = v4[p].leads /\ x.today = v4[p].today
  BY UnderWay DEF EmailRun
<1>. HIDE DEF x
<1>3. v4[p].lead \in Leads[v2] \ v4[p].leads BY UnderWay
<1>4. \A l, d : Owes(x, l, d) <=> Owes(v4[p], l, d) /\ ~(l = v4[p].lead /\ d = v4[p].today)
  BY <1>2, <1>3 DEF Owes
<1>5. Owes(v4[p], v4[p].lead, v4[p].today) BY DEF Owes
<1>6. <<ann, v4[p].lead, v4[p].today>> \in Daily!Mails BY <1>3, UnderWay
<1>7. /\ v6 \subseteq v6' /\ v6' \subseteq Daily!Mails
      /\ v7' \subseteq Daily!Mails
      /\ v8 \subseteq v8' /\ v8' \subseteq Daily!Mails
  BY <1>6, UnderWay
<1>8. \A l, d : <<ann, l, d>> \in v6' /\ <<ann, l, d>> \notin v6 =>
        Owes(v4[p], l, d) /\ ~Owes(x, l, d)
  BY <1>4, <1>5
<1>9. v11 = 0 /\ Single => v7' = {} /\ \A l, d : <<ann, l, d>> \in v6 => ~Owes(x, l, d)
  BY <1>4, <1>5, UnderWay
<1>10. \A l, d : Owes(v4[p], l, d) => <<ann, l, d>> \in v6' \cup v8' \/ Owes(x, l, d) BY <1>4
<1>11. \A l, d : Owes(x, l, d) => d = v4[p].today BY <1>2 DEF Owes
<1>12. x.leads \subseteq Leads[v2] /\ x.lead \in Leads[v2] \ x.leads /\ x.today <= v1
  BY <1>2, <1>3, UnderWay
<1>. QED BY <1>1, <1>2, <1>7, <1>8, <1>9, <1>10, <1>11, <1>12, MailsGoOn

LEMMA MailKeeps ==
    ASSUME EmailCore, NEW p \in Processes, NEW m \in {ann},
           Daily!SendEmail(p, m) \/ Daily!EmailFails(p, m)
    PROVE  EmailCore'
<1>1. m = ann OBVIOUS
<1>2. CASE Daily!SendEmail(p, m)
  <2>1. /\ v4[p].stage = "mails" /\ ann \in v4[p].list
        /\ v4' = [v4 EXCEPT ![p].list = @ \ {ann}]
        /\ v7' = IF <<ann, v4[p].lead, v4[p].today>> \in v6
                 THEN v7 \cup {<<ann, v4[p].lead, v4[p].today>>} ELSE v7
        /\ v6' = v6 \cup {<<ann, v4[p].lead, v4[p].today>>}
        /\ UNCHANGED <<v1, v2, v3, v5, v8, v9, v10, v11>>
    BY <1>1, <1>2 DEF Daily!SendEmail
  <2>. QED BY <2>1, StruckOff
<1>3. CASE Daily!EmailFails(p, m)
  <2>1. /\ v4[p].stage = "mails" /\ ann \in v4[p].list
        /\ v4' = [v4 EXCEPT ![p].list = @ \ {ann}]
        /\ v8' = v8 \cup {<<ann, v4[p].lead, v4[p].today>>}
        /\ UNCHANGED <<v1, v2, v3, v5, v6, v7, v9, v10, v11>>
    BY <1>1, <1>3 DEF Daily!EmailFails
  <2>. QED BY <2>1, StruckOff
<1>. QED BY <1>2, <1>3

\* A run that is done, or failed: what it still owed is missed.
LEMMA EndsKeep ==
    ASSUME EmailCore, NEW p \in Processes, v4[p].stage # "idle",
           v4' = [v4 EXCEPT ![p] = Daily!Idle],
           UNCHANGED <<v1, v2, v3, v5, v6, v7, v9, v10, v11>>,
           v8 \subseteq v8', v8' \subseteq Daily!Mails,
           \A l, d : Owes(v4[p], l, d) => <<ann, l, d>> \in v8'
    PROVE  EmailCore'
<1>1. \A l, d : ~Owes(Daily!Idle, l, d) BY IdleEmailRun DEF Owes
<1>2. /\ v6 \subseteq Daily!Mails /\ v7 \subseteq Daily!Mails
      /\ v1 \in 0..MaxDay /\ (v11 = 0 /\ Single => v7 = {})
  BY UnderWay
<1>3. Daily!Idle.leads \subseteq Leads[v2] /\ Daily!Idle.today <= v1 BY <1>2, IdleEmailRun
<1>. QED BY <1>1, <1>2, <1>3, IdleEmailRun, MailsGoOn

LEMMA GoOnKeeps ==
    ASSUME EmailCore, NEW p \in Processes, Daily!GoOn(p)
    PROVE  EmailCore'
<1>1. /\ v4[p].stage = "mails" /\ v4[p].list = {}
      /\ v4' = [v4 EXCEPT ![p] = IF @.leads = {} THEN Daily!Idle
                                 ELSE [@ EXCEPT !.stage = "lists"]]
      /\ UNCHANGED <<v1, v2, v3, v5, v6, v7, v8, v9, v10, v11>>
  BY DEF Daily!GoOn
<1>2. CASE v4[p].leads = {}
  <2>1. v4' = [v4 EXCEPT ![p] = Daily!Idle] BY <1>1, <1>2
  <2>2. \A l, d : ~Owes(v4[p], l, d) BY <1>1, <1>2 DEF Owes
  <2>3. v8' \subseteq Daily!Mails BY <1>1, UnderWay
  <2>. QED BY <1>1, <2>1, <2>2, <2>3, EndsKeep
<1>3. CASE v4[p].leads # {}
  <2>. DEFINE x == [v4[p] EXCEPT !.stage = "lists"]
  <2>1. v4' = [v4 EXCEPT ![p] = x] BY <1>1, <1>3
  <2>2. /\ x \in EmailRun /\ x.stage = "lists" /\ x.list = {} /\ x.leads = v4[p].leads
        /\ x.today = v4[p].today
    BY <1>1, UnderWay DEF EmailRun
  <2>. HIDE DEF x
  <2>a. v4[p].list = {} BY <1>1
  <2>3. \A l, d : Owes(x, l, d) <=> Owes(v4[p], l, d) BY <2>2, <2>a DEF Owes
  <2>4. \A l, d : Owes(x, l, d) => d = v4[p].today BY <2>2 DEF Owes
  <2>5. v11 = 0 /\ Single => v7' = {} /\ \A l, d : <<ann, l, d>> \in v6 => ~Owes(x, l, d)
    BY <1>1, <2>3, UnderWay
  <2>6. /\ x.leads \subseteq Leads[v2] /\ x.today <= v1
        /\ v6' \subseteq Daily!Mails /\ v7' \subseteq Daily!Mails
        /\ v8' \subseteq Daily!Mails
    BY <1>1, <2>2, UnderWay
  <2>. QED BY <1>1, <2>1, <2>2, <2>3, <2>4, <2>5, <2>6, MailsGoOn
<1>. QED BY <1>2, <1>3

LEMMA RunEndsKeeps ==
    ASSUME EmailCore, NEW p \in Processes, Daily!RunEnds(p)
    PROVE  EmailCore'
<1>1. /\ v4[p].stage # "idle" /\ v8' = v8 \cup Daily!Lost(v4[p])
      /\ v4' = [v4 EXCEPT ![p] = Daily!Idle]
      /\ UNCHANGED <<v1, v2, v3, v5, v6, v7, v9, v10, v11>>
  BY DEF Daily!RunEnds
<1>2. v4[p] \in EmailRun /\ v8 \subseteq Daily!Mails BY UnderWay
<1>3. \A l, d : Owes(v4[p], l, d) => <<ann, l, d>> \in v8' BY <1>1, <1>2, LostIsOwed
<1>4. ASSUME NEW y \in Daily!Lost(v4[p])
      PROVE  y \in Daily!Mails
  <2>1. PICK l : y = <<ann, l, v4[p].today>> /\ Owes(v4[p], l, v4[p].today) BY <1>2, LostIsOwed
  <2>2. l \in Leads[v2] BY <2>1, UnderWay DEF Owes
  <2>. QED BY <2>1, <2>2, UnderWay
<1>. QED BY <1>1, <1>2, <1>3, <1>4, EndsKeep

LEMMA ChangeDateKeeps ==
    ASSUME EmailCore, NEW m \in {ann},
           NEW d \in Daily!Dates \cup {Daily!None},
           Daily!ChangeDate(m, d)
    PROVE  EmailCore'
<1>1. /\ v10 < MaxChanges /\ v10' = v10 + 1 /\ v3' = [v3 EXCEPT ![m] = d]
      /\ v8' = v8 \cup ({m} \X Leads[v2] \X {v1})
      /\ UNCHANGED <<v1, v2, v4, v5, v6, v7, v9, v11>>
  BY DEF Daily!ChangeDate
<1>2. /\ Daily!TypeOK /\ InTime /\ \A e \in v1 + 1..MaxDay : v9[e] = 0
      /\ v11 = 0 /\ Single => MailsOnce
      /\ v1 \in 0..MaxDay /\ v2 \in Daily!Jobs /\ v10 \in 0..MaxChanges
      /\ v3 \in [{ann} -> Daily!Dates \cup {Daily!None}]
      /\ v8 \subseteq Daily!Mails
  BY EmailFacts, EmailTypes
<1>3. v10' \in 0..MaxChanges /\ v10' # 0 BY <1>1, <1>2, EmailBounds
<1>4. v3' \in [{ann} -> Daily!Dates \cup {Daily!None}] BY <1>1, <1>2
<1>5. v8' \subseteq Daily!Mails
  <2>1. \A l \in Leads[v2] : <<ann, l, v1>> \in Daily!Mails BY <1>2, EmailBounds, MailsOfAnn
  <2>. QED BY <1>1, <1>2, <2>1
<1>6. Daily!TypeOK' BY <1>1, <1>2, <1>3, <1>4, <1>5, EmailTypes, EmailTypesKept
<1>7. InTime' BY <1>1, <1>2 DEF InTime
<1>8. v11' = 0 /\ Single => MailsOnce' BY <1>1, <1>2 DEF MailsOnce
<1>. QED BY <1>1, <1>2, <1>3, <1>6, <1>7, <1>8, EmailFactsKept

LEMMA NextDayKeeps ==
    ASSUME EmailCore, Daily!NextDay
    PROVE  EmailCore'
<1>1. /\ v1 < MaxDay /\ v1' = v1 + 1 /\ v5' = {}
      /\ v8' = IF v9[v1] = 0 THEN v8 \cup ({ann} \X Leads[v2] \X {v1}) ELSE v8
      /\ UNCHANGED <<v2, v3, v4, v6, v7, v9, v10, v11>>
  BY DEF Daily!NextDay
<1>2. /\ Daily!TypeOK /\ InTime /\ \A d \in v1 + 1..MaxDay : v9[d] = 0
      /\ v1 \in 0..MaxDay /\ v2 \in Daily!Jobs /\ v4 \in [Processes -> EmailRun]
      /\ v9 \in [0..MaxDay -> Nat] /\ v8 \subseteq Daily!Mails
  BY EmailFacts, EmailTypes
<1>3. v1' \in 0..MaxDay BY <1>1, <1>2, EmailBounds
<1>4. \A l \in Leads[v2] : <<ann, l, v1>> \in Daily!Mails BY <1>2, EmailBounds, MailsOfAnn
<1>5. v8' \subseteq Daily!Mails /\ v8 \subseteq v8' BY <1>1, <1>2, <1>4
<1>6. Daily!TypeOK' BY <1>1, <1>2, <1>3, <1>5, EmailTypes, EmailTypesKept
<1>7. \A p \in Processes : v4[p].today \in Nat /\ v4[p].today <= v1 BY <1>2 DEF InTime, EmailRun
<1>8. InTime' /\ \A d \in v1' + 1..MaxDay : v9'[d] = 0
  <2>1. \A p \in Processes : v4[p].today <= v1' /\ v4[p].today # v1' BY <1>1, <1>2, <1>7
  <2>2. InTime' BY <1>1, <1>2, <2>1 DEF InTime
  <2>3. \A d \in v1' + 1..MaxDay : d \in v1 + 1..MaxDay BY <1>1, <1>2
  <2>. QED BY <1>1, <1>2, <2>2, <2>3
<1>9. ASSUME v11' = 0, Single
      PROVE  MailsOnce'
  <2>1. MailsOnce BY <1>1, <1>9, EmailFacts
  <2>2. \A p \in Processes : v4[p].today # v1' BY <1>1, <1>2, <1>7
  <2>3. \A l \in Distances, d \in 0..MaxDay : <<ann, l, d>> \in v6 => d <= v1' /\ d # v1'
    BY <1>1, <1>2, <2>1 DEF MailsOnce
  <2>. QED BY <1>1, <2>1, <2>2, <2>3 DEF MailsOnce
<1>10. ASSUME v10' = 0
       PROVE  Accounted'
  <2>1. Accounted BY <1>1, <1>10, EmailFacts
  <2>. SUFFICES ASSUME NEW d \in 0..v1', NEW l \in Leads[v2], d < v1' \/ v9[d] > 0,
                       v3[ann] # Daily!None, v3[ann] = d + l
                PROVE  <<ann, l, d>> \in v6 \cup v8' \/ \E p \in Processes : Owes(v4[p], l, d)
    BY <1>1 DEF Accounted
  <2>2. d \in 0..v1
    <3>1. CASE d = v1 + 1
      <4>1. d \in v1 + 1..MaxDay /\ v9[d] > 0 BY <1>1, <1>2, <1>3, <3>1
      <4>. QED BY <1>2, <4>1
    <3>2. CASE d # v1 + 1 BY <1>1, <1>2, <3>2
    <3>. QED BY <3>1, <3>2
  <2>3. CASE d < v1 \/ v9[d] > 0 BY <1>5, <2>1, <2>2, <2>3 DEF Accounted
  <2>4. CASE ~(d < v1 \/ v9[d] > 0)
    <3>1. d = v1 /\ v9[v1] = 0 BY <1>2, <2>2, <2>4
    <3>. QED BY <1>1, <3>1
  <2>. QED BY <2>3, <2>4
<1>. QED BY <1>6, <1>8, <1>9, <1>10, EmailFactsKept

LEMMA EmailsRest ==
    ASSUME EmailCore, UNCHANGED EmailVars
    PROVE  EmailCore'
<1>1. UNCHANGED <<v1, v2, v3, v4, v5, v6, v7, v8, v9, v10, v11>> BY DEF EmailVars
<1>2. Daily!TypeOK' BY <1>1, EmailFacts, EmailTypes, EmailTypesKept
<1>3. InTime' /\ (\A d \in v1' + 1..MaxDay : v9'[d] = 0) BY <1>1, EmailFacts DEF InTime
<1>4. v11' = 0 /\ Single => MailsOnce' BY <1>1, EmailFacts DEF MailsOnce
<1>5. v10' = 0 => Accounted' BY <1>1, EmailFacts DEF Accounted
<1>. QED BY <1>2, <1>3, <1>4, <1>5, EmailFactsKept

LEMMA EmailsKept ==
    ASSUME EmailCore, Daily!Next \/ UNCHANGED EmailVars
    PROVE  EmailCore'
<1>1. \/ \E p \in Processes :
           \/ Daily!Scheduled(p) \/ Daily!Trigger(p)
           \/ Daily!ListDue(p) \/ Daily!GoOn(p) \/ Daily!RunEnds(p)
           \/ \E m \in {ann} : Daily!SendEmail(p, m) \/ Daily!EmailFails(p, m)
      \/ \E m \in {ann}, d \in Daily!Dates \cup {Daily!None} :
           Daily!ChangeDate(m, d)
      \/ Daily!NextDay
      \/ UNCHANGED EmailVars
  BY Zenon DEF Daily!Next, Daily!SendBirthdayEmails, Daily!SendSubscriptionReminders,
   Daily!SendEventReminders, Daily!SendFollowUpEmails
<1>. QED
  BY <1>1, StartsKeep, ListDueKeeps, GoOnKeeps, RunEndsKeeps, MailKeeps, ChangeDateKeeps,
   NextDayKeeps, EmailsRest, Zenon

\* Who was due on a day that is over is accounted for, and no run owes it any more.
LEMMA EmailsFollow ==
    ASSUME EmailCore
    PROVE  Daily!DueAreMailed
<1>1. Daily!TypeOK /\ (v10 = 0 => Accounted) /\ v1 \in 0..MaxDay /\ InTime
  BY EmailFacts, EmailTypes
<1>. SUFFICES ASSUME NEW d \in 0..v1 - 1, NEW l \in Leads[v2], ~Daily!Running(d),
                     v10 = 0, v3[ann] # Daily!None, v3[ann] = d + l,
                     <<ann, l, d>> \notin v8
              PROVE  <<ann, l, d>> \in v6
  BY DEF Daily!DueAreMailed
<1>2. d \in 0..v1 /\ d < v1 BY <1>1
<1>3. <<ann, l, d>> \in v6 \/ \E p \in Processes : Owes(v4[p], l, d) BY <1>1, <1>2 DEF Accounted
<1>4. \A p \in Processes : Owes(v4[p], l, d) => v4[p].stage # "idle" /\ v4[p].today = d
  BY <1>1 DEF InTime, Owes
<1>. QED BY <1>3, <1>4 DEF Daily!Running

(* Volunteering: shift is v1, applicants v2, candidates v3, closing v4,    *)
(* active v5, call v6, marked v7, crowded v8, shifted v9, twice v10 and    *)
(* calls v11.                                                              *)

VolunteeringVars == <<v1, v2, v3, v4, v5, v6, v7, v8, v9, v10, v11>>

Volunteers == A \cup {ann}
Places == [user : Volunteers \cup {Jobs!Nobody}, status : Jobs!Statuses]
Requests == [kind : Jobs!Kinds, member : Volunteers, index : Nat]
                \cup {Jobs!IdleCall}

LEMMA VolunteeringTypes ==
    ASSUME Jobs!TypeOK
    PROVE  /\ v1 \in Seq(Places) /\ v2 \in Seq(Volunteers) /\ v3 \subseteq Volunteers
           /\ v4 \in BOOLEAN /\ v5 \in BOOLEAN /\ v6 \in [B -> Requests]
           /\ v7 \subseteq Volunteers /\ v10 \subseteq Volunteers
           /\ v8 \in BOOLEAN /\ v9 \in BOOLEAN /\ v11 \in 0 .. MaxCalls
           /\ MaxCalls \in Nat /\ MaxVolunteers \in Nat /\ Len(v1) \in Nat
BY VolunteeringAssumed DEF Jobs!TypeOK, Jobs!VolunteeringAssumption, Volunteers, Places, Requests

LEMMA VolunteeringStarts ==
    ASSUME Jobs!Init
    PROVE  Jobs!VolunteeringInv
<1>1. Jobs!Init /\ MaxCalls \in Nat /\ MaxVolunteers \in Nat
  BY VolunteeringAssumed DEF Jobs!VolunteeringAssumption
<1>2. /\ v1 = <<>> /\ v2 = <<>> /\ v9 = FALSE /\ v8 = FALSE /\ v11 = 0
      /\ \A c \in B : v6[c].kind = "idle"
  BY <1>1 DEF Jobs!Init, Jobs!IdleCall
<1>3. Jobs!TypeOK
  <2>1. v6 \in [B -> [kind : Jobs!Kinds, member : A \cup {ann}, index : Nat]
                        \cup {Jobs!IdleCall}]
    BY <1>1 DEF Jobs!Init
  <2>2. /\ v1 \in Seq([user : A \cup {ann} \cup {Jobs!Nobody},
                       status : Jobs!Statuses])
        /\ v2 \in Seq(A \cup {ann})
    BY <1>2
  <2>3. v3 = {} /\ v7 = {} /\ v10 = {} /\ v4 = FALSE /\ v5 = TRUE /\ v11 \in 0 .. MaxCalls
    BY <1>1, <1>2 DEF Jobs!Init
  <2>. QED BY <1>2, <2>1, <2>2, <2>3 DEF Jobs!TypeOK
<1>4. Jobs!ShiftsAreNotOverbooked /\ Jobs!StatusesAreTheirOwn
      /\ Jobs!AppliedOnce
  BY <1>1, <1>2 DEF Jobs!ShiftsAreNotOverbooked, Jobs!StatusesAreTheirOwn, Jobs!AppliedOnce
<1>5. Jobs!SignUpsHavePlaces /\ Jobs!MarksAreAimed
      /\ Jobs!ApplicationsAreNew
  BY <1>2 DEF Jobs!SignUpsHavePlaces, Jobs!MarksAreAimed, Jobs!ApplicationsAreNew, Jobs!Doing
<1>. QED BY <1>3, <1>4, <1>5 DEF Jobs!VolunteeringInv

LEMMA RequestBegins ==
    ASSUME Jobs!TypeOK, NEW c \in B, NEW kind \in Jobs!Kinds,
           NEW m \in Volunteers, NEW index \in Nat, Jobs!Start(c, kind, m, index)
    PROVE  /\ v6' \in [B -> Requests] /\ v11' \in 0 .. MaxCalls
           /\ v6[c].kind = "idle"
           /\ v6'[c].kind = kind /\ v6'[c].member = m /\ v6'[c].index = index
           /\ \A d \in B : d # c => v6'[d] = v6[d]
<1>1. [kind |-> kind, member |-> m, index |-> index] \in Requests BY DEF Requests
<1>. QED BY <1>1, VolunteeringTypes DEF Jobs!Start

LEMMA RequestEnds ==
    ASSUME Jobs!TypeOK, NEW c \in B, Jobs!End(c)
    PROVE  /\ v6' \in [B -> Requests]
           /\ v6'[c].kind = "idle"
           /\ \A d \in B : d # c => v6'[d] = v6[d]
<1>1. Jobs!IdleCall \in Requests /\ Jobs!IdleCall.kind = "idle" BY DEF Requests, Jobs!IdleCall
<1>. QED BY <1>1, VolunteeringTypes DEF Jobs!End

\* Requests that do not write the shift or the list of applicants.
LEMMA RequestsComeAndGo ==
    ASSUME Jobs!VolunteeringInv, v6' \in [B -> Requests], v11' \in 0 .. MaxCalls,
           UNCHANGED <<v1, v2, v7, v8, v9, v10>>, v3' \subseteq Volunteers,
           v4' \in BOOLEAN, v5' \in BOOLEAN,
           \A d \in B : v6'[d] = v6[d] \/ v6'[d].kind \notin {"signUp", "mark", "apply"}
    PROVE  Jobs!VolunteeringInv'
<1>0. /\ Jobs!TypeOK /\ Jobs!SignUpsHavePlaces /\ Jobs!MarksAreAimed
      /\ Jobs!ApplicationsAreNew
  BY DEF Jobs!VolunteeringInv
<1>1. Jobs!TypeOK' BY <1>0 DEF Jobs!TypeOK, Requests, Volunteers
<1>2. Jobs!ShiftsAreNotOverbooked' /\ Jobs!StatusesAreTheirOwn'
      /\ Jobs!AppliedOnce'
  BY DEF Jobs!VolunteeringInv, Jobs!ShiftsAreNotOverbooked, Jobs!StatusesAreTheirOwn,
   Jobs!AppliedOnce
<1>3. Jobs!SignUpsHavePlaces' BY <1>0 DEF Jobs!SignUpsHavePlaces, Jobs!Doing
<1>4. Jobs!MarksAreAimed' BY <1>0 DEF Jobs!MarksAreAimed
<1>5. Jobs!ApplicationsAreNew' BY <1>0 DEF Jobs!ApplicationsAreNew, Jobs!Applied
<1>. QED BY <1>1, <1>2, <1>3, <1>4, <1>5 DEF Jobs!VolunteeringInv

LEMMA ReadForSignUpKeeps ==
    ASSUME Jobs!VolunteeringInv, NEW c \in B, NEW m \in Volunteers,
           Jobs!ReadForSignUp(c, m)
    PROVE  Jobs!VolunteeringInv'
<1>0. /\ Jobs!TypeOK /\ Jobs!SignUpsHavePlaces /\ Jobs!MarksAreAimed
      /\ Jobs!ApplicationsAreNew
  BY DEF Jobs!VolunteeringInv
<1>1. /\ v6' \in [B -> Requests] /\ v11' \in 0 .. MaxCalls /\ v6'[c].kind = "signUp"
      /\ \A d \in B : d # c => v6'[d] = v6[d]
  BY <1>0, RequestBegins DEF Jobs!ReadForSignUp, Jobs!Kinds
<1>2. /\ UNCHANGED <<v1, v2, v3, v4, v5, v7, v9, v10>> /\ Len(v1) < MaxVolunteers
      /\ v8' = (v8 \/ Jobs!Doing("signUp"))
  BY DEF Jobs!ReadForSignUp, Jobs!HasRoom, Jobs!Dates
<1>3. Jobs!TypeOK' BY <1>0, <1>1, <1>2 DEF Jobs!TypeOK, Requests, Volunteers
<1>4. Jobs!ShiftsAreNotOverbooked' /\ Jobs!StatusesAreTheirOwn'
      /\ Jobs!AppliedOnce'
  BY <1>2 DEF Jobs!VolunteeringInv, Jobs!ShiftsAreNotOverbooked, Jobs!StatusesAreTheirOwn,
   Jobs!AppliedOnce
<1>5. Jobs!SignUpsHavePlaces' BY <1>0, <1>1, <1>2 DEF Jobs!SignUpsHavePlaces, Jobs!Doing
<1>6. Jobs!MarksAreAimed' BY <1>0, <1>1, <1>2 DEF Jobs!MarksAreAimed
<1>7. Jobs!ApplicationsAreNew' BY <1>0, <1>1, <1>2 DEF Jobs!ApplicationsAreNew, Jobs!Applied
<1>. QED BY <1>3, <1>4, <1>5, <1>6, <1>7 DEF Jobs!VolunteeringInv

LEMMA ReadForStatusKeeps ==
    ASSUME Jobs!VolunteeringInv, NEW c \in B, NEW m \in Volunteers,
           Jobs!ReadForStatus(c, m)
    PROVE  Jobs!VolunteeringInv'
<1>0. /\ Jobs!TypeOK /\ Jobs!SignUpsHavePlaces /\ Jobs!MarksAreAimed
      /\ Jobs!ApplicationsAreNew
  BY DEF Jobs!VolunteeringInv
<1>1. v1 \in Seq(Places) BY <1>0, VolunteeringTypes
<1>. DEFINE T == {i \in DOMAIN v1 : v1[i].user = m}
<1>2. PICK x \in T : \A y \in T : x <= y
  <2>1. T \in SUBSET Nat /\ T # {} BY <1>1 DEF Jobs!ReadForStatus, Jobs!SignedUp
  <2>. HIDE DEF T
  <2>. QED BY <2>1, LeastOf
<1>3. /\ Jobs!Position(m) \in DOMAIN v1 /\ v1[Jobs!Position(m)].user = m
      /\ Jobs!Position(m) \in Nat
  <2>1. x \in DOMAIN v1 /\ v1[x].user = m /\ \A j \in 1 .. x - 1 : v1[j].user # m BY <1>1, <1>2
  <2>2. \E i \in DOMAIN v1 : v1[i].user = m /\ \A j \in 1 .. i - 1 : v1[j].user # m BY <2>1, Zenon
  <2>3. Jobs!Position(m) \in DOMAIN v1 /\ v1[Jobs!Position(m)].user = m
    BY <2>2, Zenon DEF Jobs!Position
  <2>. QED BY <1>1, <2>3
<1>4. /\ v6' \in [B -> Requests] /\ v11' \in 0 .. MaxCalls /\ v6'[c].kind = "mark"
      /\ v6'[c].member = m /\ v6'[c].index = Jobs!Position(m)
      /\ \A d \in B : d # c => v6'[d] = v6[d]
  BY <1>0, <1>3, RequestBegins DEF Jobs!ReadForStatus, Jobs!Kinds
<1>5. UNCHANGED <<v1, v2, v3, v4, v5, v7, v8, v9, v10>>
  BY DEF Jobs!ReadForStatus, Jobs!Dates, Jobs!Ghosts
<1>6. Jobs!TypeOK' BY <1>0, <1>4, <1>5 DEF Jobs!TypeOK, Requests, Volunteers
<1>7. Jobs!ShiftsAreNotOverbooked' /\ Jobs!StatusesAreTheirOwn'
      /\ Jobs!AppliedOnce'
  BY <1>5 DEF Jobs!VolunteeringInv, Jobs!ShiftsAreNotOverbooked, Jobs!StatusesAreTheirOwn,
   Jobs!AppliedOnce
<1>8. Jobs!SignUpsHavePlaces' BY <1>0, <1>4, <1>5 DEF Jobs!SignUpsHavePlaces, Jobs!Doing
<1>9. Jobs!MarksAreAimed' BY <1>0, <1>3, <1>4, <1>5 DEF Jobs!MarksAreAimed
<1>10. Jobs!ApplicationsAreNew' BY <1>0, <1>4, <1>5 DEF Jobs!ApplicationsAreNew, Jobs!Applied
<1>. QED BY <1>6, <1>7, <1>8, <1>9, <1>10 DEF Jobs!VolunteeringInv

LEMMA ReadForApplicationKeeps ==
    ASSUME Jobs!VolunteeringInv, NEW c \in B, NEW m \in Volunteers,
           Jobs!ReadForApplication(c, m)
    PROVE  Jobs!VolunteeringInv'
<1>0. /\ Jobs!TypeOK /\ Jobs!SignUpsHavePlaces /\ Jobs!MarksAreAimed
      /\ Jobs!ApplicationsAreNew /\ Jobs!AppliedOnce
  BY DEF Jobs!VolunteeringInv
<1>1. /\ v6' \in [B -> Requests] /\ v11' \in 0 .. MaxCalls /\ v6'[c].kind = "apply"
      /\ v6'[c].member = m /\ v6[c].kind = "idle"
      /\ \A d \in B : d # c => v6'[d] = v6[d]
  BY <1>0, RequestBegins DEF Jobs!ReadForApplication, Jobs!Kinds
<1>2. /\ UNCHANGED <<v1, v2, v3, v4, v5, v7, v8, v9>> /\ ~Jobs!Applied(m)
      /\ v10' = IF \E d \in B : v6[d].kind = "apply" /\ v6[d].member = m
                THEN v10 \cup {m} ELSE v10
  BY DEF Jobs!ReadForApplication, Jobs!Dates
<1>3. v10 \subseteq v10' /\ v10' \subseteq Volunteers
      /\ (m \notin v10' => ~\E d \in B : v6[d].kind = "apply" /\ v6[d].member = m)
  BY <1>0, <1>2, VolunteeringTypes
<1>4. Jobs!TypeOK' BY <1>0, <1>1, <1>2, <1>3 DEF Jobs!TypeOK, Requests, Volunteers
<1>5. Jobs!ShiftsAreNotOverbooked' /\ Jobs!StatusesAreTheirOwn'
  BY <1>2 DEF Jobs!VolunteeringInv, Jobs!ShiftsAreNotOverbooked, Jobs!StatusesAreTheirOwn
<1>6. Jobs!AppliedOnce' BY <1>0, <1>2, <1>3 DEF Jobs!AppliedOnce
<1>7. Jobs!SignUpsHavePlaces' BY <1>0, <1>1, <1>2 DEF Jobs!SignUpsHavePlaces, Jobs!Doing
<1>8. Jobs!MarksAreAimed' BY <1>0, <1>1, <1>2 DEF Jobs!MarksAreAimed
<1>9. Jobs!ApplicationsAreNew' BY <1>0, <1>1, <1>2, <1>3 DEF Jobs!ApplicationsAreNew, Jobs!Applied
<1>. QED BY <1>4, <1>5, <1>6, <1>7, <1>8, <1>9 DEF Jobs!VolunteeringInv

LEMMA SignUpForShiftKeeps ==
    ASSUME Jobs!VolunteeringInv, NEW c \in B, Jobs!SignUpForShift(c)
    PROVE  Jobs!VolunteeringInv'
<1>. DEFINE e == [user |-> v6[c].member, status |-> "signed_up"]
<1>0. /\ Jobs!TypeOK /\ Jobs!SignUpsHavePlaces /\ Jobs!MarksAreAimed
      /\ Jobs!ApplicationsAreNew /\ Jobs!StatusesAreTheirOwn
      /\ Jobs!ShiftsAreNotOverbooked
  BY DEF Jobs!VolunteeringInv
<1>1. /\ v6' \in [B -> Requests] /\ v6'[c].kind = "idle" /\ v6[c].kind = "signUp"
      /\ \A d \in B : d # c => v6'[d] = v6[d]
  BY <1>0, RequestEnds DEF Jobs!SignUpForShift
<1>2. /\ v1' = Append(v1, e) /\ UNCHANGED <<v2, v3, v4, v5, v7, v8, v9, v10, v11>>
  BY DEF Jobs!SignUpForShift, Jobs!Dates, Jobs!Ghosts
<1>3. v1 \in Seq(Places) /\ e \in Places /\ e.status = "signed_up"
  <2>1. v6[c] \in Requests BY <1>0, VolunteeringTypes
  <2>2. v6[c].member \in Volunteers BY <1>1, <2>1 DEF Requests, Jobs!IdleCall
  <2>. QED BY <1>0, <2>2, VolunteeringTypes DEF Places, Jobs!Statuses
<1>. HIDE DEF e
<1>4. /\ v1' \in Seq(Places) /\ Len(v1') = Len(v1) + 1 /\ v1'[Len(v1) + 1] = e
      /\ \A i \in DOMAIN v1 : v1'[i] = v1[i]
      /\ DOMAIN v1' = DOMAIN v1 \cup {Len(v1) + 1}
  BY <1>2, <1>3, AppendProperties
<1>5. Jobs!TypeOK' BY <1>0, <1>1, <1>2, <1>4 DEF Jobs!TypeOK, Requests, Volunteers, Places
<1>6. Jobs!ShiftsAreNotOverbooked'
  <2>1. ~v8 /\ ~v9 => Len(v1) < MaxVolunteers BY <1>0, <1>1 DEF Jobs!SignUpsHavePlaces, Jobs!Doing
  <2>2. Len(v1) \in Nat /\ MaxVolunteers \in Nat BY <1>0, VolunteeringTypes
  <2>. QED BY <1>2, <1>4, <2>1, <2>2 DEF Jobs!ShiftsAreNotOverbooked
<1>7. Jobs!StatusesAreTheirOwn' BY <1>0, <1>2, <1>3, <1>4 DEF Jobs!StatusesAreTheirOwn
<1>8. Jobs!AppliedOnce' BY <1>2 DEF Jobs!VolunteeringInv, Jobs!AppliedOnce
<1>9. Jobs!SignUpsHavePlaces' BY <1>0, <1>1, <1>2 DEF Jobs!SignUpsHavePlaces, Jobs!Doing
<1>10. Jobs!MarksAreAimed' BY <1>0, <1>1, <1>2, <1>4 DEF Jobs!MarksAreAimed
<1>11. Jobs!ApplicationsAreNew' BY <1>0, <1>1, <1>2 DEF Jobs!ApplicationsAreNew, Jobs!Applied
<1>. QED BY <1>5, <1>6, <1>7, <1>8, <1>9, <1>10, <1>11 DEF Jobs!VolunteeringInv

LEMMA WithdrawFromShiftKeeps ==
    ASSUME Jobs!VolunteeringInv, NEW c \in B, Jobs!WithdrawFromShift(c)
    PROVE  Jobs!VolunteeringInv'
<1>. DEFINE S == {i \in DOMAIN v1 : v1[i].user # v6[c].member}
<1>0. /\ Jobs!TypeOK /\ Jobs!SignUpsHavePlaces /\ Jobs!MarksAreAimed
      /\ Jobs!ApplicationsAreNew /\ Jobs!StatusesAreTheirOwn
      /\ Jobs!ShiftsAreNotOverbooked
  BY DEF Jobs!VolunteeringInv
<1>1. /\ v6' \in [B -> Requests] /\ v6'[c].kind = "idle" /\ v6[c].kind = "withdrawShift"
      /\ \A d \in B : d # c => v6'[d] = v6[d]
  BY <1>0, RequestEnds DEF Jobs!WithdrawFromShift
<1>2. /\ v1' = Rest(v1, S) /\ v7' = v7 \ {v6[c].member}
      /\ v9' = (v9 \/ Jobs!Doing("mark"))
      /\ UNCHANGED <<v2, v3, v4, v5, v8, v10, v11>> /\ (v9 => v9')
  <2>1. v1' = Rest(v1, S) BY KeptIsRest, Zenon DEF Jobs!WithdrawFromShift
  <2>2. /\ v7' = v7 \ {v6[c].member} /\ v9' = (v9 \/ Jobs!Doing("mark"))
        /\ UNCHANGED <<v2, v3, v4, v5, v8, v10, v11>>
    BY DEF Jobs!WithdrawFromShift, Jobs!Dates
  <2>. QED BY <2>1, <2>2, Zenon
<1>3. v1 \in Seq(Places) /\ S \in SUBSET DOMAIN v1 BY <1>0, VolunteeringTypes
<1>4. /\ v1' \in Seq(Places) /\ Len(v1') = Cardinality(S) /\ Cardinality(S) <= Len(v1)
      /\ \A n \in DOMAIN v1' : PlaceOf(S, n) \in S /\ v1'[n] = v1[PlaceOf(S, n)]
  <2>. HIDE DEF S
  <2>. QED BY <1>2, <1>3, RestIsThinned
<1>5. \A n \in DOMAIN v1' : \E i \in DOMAIN v1 : v1'[n] = v1[i] /\ v1[i].user # v6[c].member BY <1>4
<1>. HIDE DEF S
<1>6. Jobs!TypeOK'
  <2>1. v9' \in BOOLEAN BY <1>2
  <2>. QED BY <1>0, <1>1, <1>2, <1>4, <2>1 DEF Jobs!TypeOK, Requests, Volunteers, Places
<1>7. Len(v1') \in Nat /\ Len(v1) \in Nat /\ Len(v1') <= Len(v1) /\ MaxVolunteers \in Nat
  BY <1>0, <1>4, VolunteeringTypes
<1>8. Jobs!ShiftsAreNotOverbooked' BY <1>0, <1>2, <1>7 DEF Jobs!ShiftsAreNotOverbooked
<1>9. Jobs!StatusesAreTheirOwn' BY <1>0, <1>2, <1>5 DEF Jobs!StatusesAreTheirOwn
<1>10. Jobs!AppliedOnce' BY <1>2 DEF Jobs!VolunteeringInv, Jobs!AppliedOnce
<1>11. Jobs!SignUpsHavePlaces' BY <1>0, <1>1, <1>2, <1>7 DEF Jobs!SignUpsHavePlaces, Jobs!Doing
<1>12. Jobs!MarksAreAimed' BY <1>1, <1>2 DEF Jobs!MarksAreAimed, Jobs!Doing
<1>13. Jobs!ApplicationsAreNew' BY <1>0, <1>1, <1>2 DEF Jobs!ApplicationsAreNew, Jobs!Applied
<1>. QED BY <1>6, <1>8, <1>9, <1>10, <1>11, <1>12, <1>13 DEF Jobs!VolunteeringInv

LEMMA UpdateShiftStatusKeeps ==
    ASSUME Jobs!VolunteeringInv, NEW c \in B, Jobs!UpdateShiftStatus(c)
    PROVE  Jobs!VolunteeringInv'
<1>. DEFINE i == v6[c].index
            e == [user |-> Jobs!Nobody, status |-> "completed"]
<1>0. /\ Jobs!TypeOK /\ Jobs!SignUpsHavePlaces /\ Jobs!MarksAreAimed
      /\ Jobs!ApplicationsAreNew /\ Jobs!StatusesAreTheirOwn
      /\ Jobs!ShiftsAreNotOverbooked
  BY DEF Jobs!VolunteeringInv
<1>1. /\ v6' \in [B -> Requests] /\ v6'[c].kind = "idle" /\ v6[c].kind = "mark"
      /\ \A d \in B : d # c => v6'[d] = v6[d]
  BY <1>0, RequestEnds DEF Jobs!UpdateShiftStatus
<1>2. /\ v1' = IF i \in DOMAIN v1 THEN [v1 EXCEPT ![i].status = "completed"] ELSE Append(v1, e)
      /\ v7' = v7 \cup {v6[c].member}
      /\ UNCHANGED <<v2, v3, v4, v5, v8, v9, v10, v11>>
  BY DEF Jobs!UpdateShiftStatus, Jobs!Dates
<1>3. v1 \in Seq(Places) /\ v7 \subseteq Volunteers /\ v9 \in BOOLEAN BY <1>0, VolunteeringTypes
<1>4. ~v9 => i \in DOMAIN v1 /\ v1[i].user = v6[c].member BY <1>0, <1>1 DEF Jobs!MarksAreAimed
<1>5. v1' \in Seq(Places)
      /\ (i \in DOMAIN v1 => /\ Len(v1') = Len(v1) /\ DOMAIN v1' = DOMAIN v1
                            /\ \A k \in DOMAIN v1 : /\ v1'[k].user = v1[k].user
                                                    /\ k # i => v1'[k] = v1[k])
  <2>1. CASE i \in DOMAIN v1
    <3>1. v1[i] \in Places /\ "completed" \in Jobs!Statuses BY <1>3, <2>1 DEF Jobs!Statuses
    <3>2. \A x \in Places : [x EXCEPT !.status = "completed"] \in Places
                            /\ [x EXCEPT !.status = "completed"].user = x.user
      BY <3>1 DEF Places
    <3>3. v1' = [v1 EXCEPT ![i] = [v1[i] EXCEPT !.status = "completed"]] BY <1>2, <2>1
    <3>4. /\ v1' \in Seq(Places) /\ Len(v1') = Len(v1) /\ DOMAIN v1' = DOMAIN v1
          /\ v1'[i] = [v1[i] EXCEPT !.status = "completed"]
          /\ \A k \in DOMAIN v1 : k # i => v1'[k] = v1[k]
      BY <1>3, <2>1, <3>1, <3>2, <3>3, ExceptSeq
    <3>5. v1'[i].user = v1[i].user BY <3>1, <3>2, <3>4
    <3>. QED BY <3>4, <3>5
  <2>2. CASE i \notin DOMAIN v1
    <3>1. e \in Places BY DEF Places, Jobs!Statuses
    <3>. HIDE DEF e
    <3>. QED BY <1>2, <1>3, <2>2, <3>1, AppendProperties
  <2>. QED BY <2>1, <2>2
<1>. HIDE DEF i, e
<1>6. Jobs!TypeOK'
  <2>1. v7' \subseteq Volunteers
    <3>1. v7' = v7 \cup {v6[c].member} BY <1>2
    <3>2. v6[c].member \in Volunteers
      <4>1. v6[c] \in Requests /\ v6[c].kind # "idle" BY <1>0, <1>1, VolunteeringTypes
      <4>. QED BY <4>1 DEF Requests, Jobs!IdleCall
    <3>. QED BY <1>3, <3>1, <3>2
  <2>. QED BY <1>0, <1>1, <1>2, <1>5, <2>1 DEF Jobs!TypeOK, Requests, Volunteers, Places
<1>7. Jobs!ShiftsAreNotOverbooked' BY <1>0, <1>2, <1>4, <1>5 DEF Jobs!ShiftsAreNotOverbooked
<1>8. Jobs!StatusesAreTheirOwn' BY <1>0, <1>2, <1>4, <1>5 DEF Jobs!StatusesAreTheirOwn
<1>9. Jobs!AppliedOnce' BY <1>2 DEF Jobs!VolunteeringInv, Jobs!AppliedOnce
<1>10. Jobs!SignUpsHavePlaces'
  BY <1>0, <1>1, <1>2, <1>4, <1>5 DEF Jobs!SignUpsHavePlaces, Jobs!Doing
<1>11. Jobs!MarksAreAimed' BY <1>0, <1>1, <1>2, <1>4, <1>5 DEF Jobs!MarksAreAimed
<1>12. Jobs!ApplicationsAreNew' BY <1>0, <1>1, <1>2 DEF Jobs!ApplicationsAreNew, Jobs!Applied
<1>. QED BY <1>6, <1>7, <1>8, <1>9, <1>10, <1>11, <1>12 DEF Jobs!VolunteeringInv

LEMMA ApplyForJobKeeps ==
    ASSUME Jobs!VolunteeringInv, NEW c \in B, Jobs!ApplyForJob(c)
    PROVE  Jobs!VolunteeringInv'
<1>. DEFINE m == v6[c].member
<1>0. /\ Jobs!TypeOK /\ Jobs!SignUpsHavePlaces /\ Jobs!MarksAreAimed
      /\ Jobs!ApplicationsAreNew /\ Jobs!AppliedOnce
  BY DEF Jobs!VolunteeringInv
<1>1. /\ v6' \in [B -> Requests] /\ v6'[c].kind = "idle" /\ v6[c].kind = "apply"
      /\ \A d \in B : d # c => v6'[d] = v6[d]
  BY <1>0, RequestEnds DEF Jobs!ApplyForJob
<1>2. v2' = Append(v2, m) /\ UNCHANGED <<v1, v3, v4, v5, v7, v8, v9, v10, v11>>
  BY DEF Jobs!ApplyForJob, Jobs!Dates, Jobs!Ghosts
<1>3. v2 \in Seq(Volunteers) /\ m \in Volunteers
  <2>1. v6[c] \in Requests BY <1>0, VolunteeringTypes
  <2>2. v6[c].member \in Volunteers BY <1>1, <2>1 DEF Requests, Jobs!IdleCall
  <2>. QED BY <1>0, <2>2, VolunteeringTypes
<1>4. m \notin v10 => /\ \A i \in DOMAIN v2 : v2[i] # m
                      /\ \A d \in B : v6[d].kind = "apply" /\ v6[d].member = m => c = d
  BY <1>0, <1>1 DEF Jobs!ApplicationsAreNew, Jobs!Applied
<1>. HIDE DEF m
<1>5. /\ v2' \in Seq(Volunteers) /\ v2'[Len(v2) + 1] = m
      /\ \A i \in DOMAIN v2 : v2'[i] = v2[i]
      /\ DOMAIN v2' = DOMAIN v2 \cup {Len(v2) + 1}
  BY <1>2, <1>3, AppendProperties
<1>6. Jobs!TypeOK' BY <1>0, <1>1, <1>2, <1>5 DEF Jobs!TypeOK, Requests, Volunteers
<1>7. Jobs!ShiftsAreNotOverbooked' /\ Jobs!StatusesAreTheirOwn'
  BY <1>2 DEF Jobs!VolunteeringInv, Jobs!ShiftsAreNotOverbooked, Jobs!StatusesAreTheirOwn
<1>8. Jobs!AppliedOnce' BY <1>0, <1>2, <1>4, <1>5 DEF Jobs!AppliedOnce
<1>9. Jobs!SignUpsHavePlaces' BY <1>0, <1>1, <1>2 DEF Jobs!SignUpsHavePlaces, Jobs!Doing
<1>10. Jobs!MarksAreAimed' BY <1>0, <1>1, <1>2 DEF Jobs!MarksAreAimed
<1>11. Jobs!ApplicationsAreNew'
  <2>. SUFFICES ASSUME NEW d \in B, v6'[d].kind = "apply", v6'[d].member \notin v10'
                PROVE  /\ ~\E i \in DOMAIN v2' : v2'[i] = v6'[d].member
                       /\ \A e \in B : v6'[e].kind = "apply" /\ v6'[e].member = v6'[d].member => d = e
    BY DEF Jobs!ApplicationsAreNew, Jobs!Applied
  <2>1. d # c /\ v6'[d] = v6[d] /\ v10' = v10 BY <1>1, <1>2
  <2>2. /\ \A i \in DOMAIN v2 : v2[i] # v6[d].member
        /\ \A e \in B : v6[e].kind = "apply" /\ v6[e].member = v6[d].member => d = e
    BY <1>0, <2>1 DEF Jobs!ApplicationsAreNew, Jobs!Applied
  <2>3. v6[d].member # m BY <1>1, <2>1, <2>2 DEF m
  <2>. QED BY <1>1, <1>5, <2>1, <2>2, <2>3
<1>. QED BY <1>6, <1>7, <1>8, <1>9, <1>10, <1>11 DEF Jobs!VolunteeringInv

LEMMA WithdrawApplicationKeeps ==
    ASSUME Jobs!VolunteeringInv, NEW c \in B, Jobs!WithdrawApplication(c)
    PROVE  Jobs!VolunteeringInv'
<1>. DEFINE S == {i \in DOMAIN v2 : v2[i] # v6[c].member}
<1>0. /\ Jobs!TypeOK /\ Jobs!SignUpsHavePlaces /\ Jobs!MarksAreAimed
      /\ Jobs!ApplicationsAreNew /\ Jobs!AppliedOnce
  BY DEF Jobs!VolunteeringInv
<1>1. /\ v6' \in [B -> Requests] /\ v6'[c].kind = "idle" /\ v6[c].kind = "withdrawJob"
      /\ \A d \in B : d # c => v6'[d] = v6[d]
  BY <1>0, RequestEnds DEF Jobs!WithdrawApplication
<1>2. v2' = Rest(v2, S) /\ UNCHANGED <<v1, v3, v4, v5, v7, v8, v9, v10, v11>>
  <2>1. v2' = Rest(v2, S) BY KeptIsRest, Zenon DEF Jobs!WithdrawApplication
  <2>2. UNCHANGED <<v1, v3, v4, v5, v7, v8, v9, v10, v11>>
    BY DEF Jobs!WithdrawApplication, Jobs!Dates, Jobs!Ghosts
  <2>. QED BY <2>1, <2>2, Zenon
<1>3. v2 \in Seq(Volunteers) /\ S \in SUBSET DOMAIN v2 BY <1>0, VolunteeringTypes
<1>4. v2' \in Seq(Volunteers) /\ Thinned(v2', v2)
  <2>. HIDE DEF S
  <2>. QED BY <1>2, <1>3, RestIsThinned
<1>. HIDE DEF S
<1>5. PICK f \in [DOMAIN v2' -> DOMAIN v2] :
          /\ \A i, j \in DOMAIN v2' : f[i] = f[j] => i = j
          /\ \A i \in DOMAIN v2' : v2'[i] = v2[f[i]]
  BY <1>4 DEF Thinned
<1>6. Jobs!TypeOK' BY <1>0, <1>1, <1>2, <1>4 DEF Jobs!TypeOK, Requests, Volunteers
<1>7. Jobs!ShiftsAreNotOverbooked' /\ Jobs!StatusesAreTheirOwn'
  BY <1>2 DEF Jobs!VolunteeringInv, Jobs!ShiftsAreNotOverbooked, Jobs!StatusesAreTheirOwn
<1>8. Jobs!AppliedOnce' BY <1>0, <1>2, <1>5 DEF Jobs!AppliedOnce
<1>9. Jobs!SignUpsHavePlaces' BY <1>0, <1>1, <1>2 DEF Jobs!SignUpsHavePlaces, Jobs!Doing
<1>10. Jobs!MarksAreAimed' BY <1>0, <1>1, <1>2 DEF Jobs!MarksAreAimed
<1>11. Jobs!ApplicationsAreNew'
  <2>1. \A m : Jobs!Applied(m)' => Jobs!Applied(m) BY <1>5 DEF Jobs!Applied
  <2>. QED BY <1>0, <1>1, <1>2, <2>1 DEF Jobs!ApplicationsAreNew
<1>. QED BY <1>6, <1>7, <1>8, <1>9, <1>10, <1>11 DEF Jobs!VolunteeringInv

LEMMA VolunteeringKept ==
    ASSUME Jobs!VolunteeringInv, Jobs!Next
    PROVE  Jobs!VolunteeringInv'
<1>0. Jobs!TypeOK BY DEF Jobs!VolunteeringInv
<1>1. /\ v3 \subseteq Volunteers /\ v4 \in BOOLEAN /\ v5 \in BOOLEAN /\ v6 \in [B -> Requests]
      /\ v11 \in 0 .. MaxCalls
  BY <1>0, VolunteeringTypes
<1>2. ASSUME NEW c \in B, NEW m \in Volunteers,
             \/ Jobs!ReadForWithdrawal(c, m) \/ Jobs!ReadApplication(c, m)
             \/ Jobs!ReadVacancy(c, m)
      PROVE  Jobs!VolunteeringInv'
  <2>1. /\ \E kind \in {"withdrawShift", "withdrawJob", "register"} :
              Jobs!Start(c, kind, m, 0)
        /\ UNCHANGED <<v1, v2, v3, v4, v5, v7, v8, v9, v10>>
    BY <1>2 DEF Jobs!ReadForWithdrawal, Jobs!ReadApplication, Jobs!ReadVacancy, Jobs!Dates,
     Jobs!Ghosts
  <2>2. PICK kind \in {"withdrawShift", "withdrawJob", "register"} :
            Jobs!Start(c, kind, m, 0)
    BY <2>1
  <2>3. /\ v6' \in [B -> Requests] /\ v11' \in 0 .. MaxCalls /\ v6'[c].kind = kind
        /\ \A d \in B : d # c => v6'[d] = v6[d]
    BY <1>0, <2>2, RequestBegins DEF Jobs!Kinds
  <2>. QED BY <1>1, <2>1, <2>3, RequestsComeAndGo
<1>3. ASSUME NEW c \in B, Jobs!RegisterForJob(c) \/ Jobs!CallBreaksOff(c)
      PROVE  Jobs!VolunteeringInv'
  <2>1. Jobs!End(c) /\ UNCHANGED <<v1, v2, v4, v5, v7, v8, v9, v10, v11>>
    BY <1>3 DEF Jobs!RegisterForJob, Jobs!CallBreaksOff, Jobs!Dates, Jobs!Ghosts
  <2>2. v3' \subseteq Volunteers
    <3>1. CASE Jobs!CallBreaksOff(c) BY <1>1, <3>1 DEF Jobs!CallBreaksOff
    <3>2. CASE Jobs!RegisterForJob(c)
      <4>1. v6[c] \in Requests /\ v6[c].kind # "idle" /\ v3' = v3 \cup {v6[c].member}
        BY <1>1, <3>2 DEF Jobs!RegisterForJob
      <4>2. v6[c].member \in Volunteers BY <4>1 DEF Requests, Jobs!IdleCall
      <4>. QED BY <1>1, <4>1, <4>2
    <3>. QED BY <1>3, <3>1, <3>2
  <2>3. /\ v6' \in [B -> Requests] /\ v6'[c].kind = "idle"
        /\ \A d \in B : d # c => v6'[d] = v6[d]
    BY <1>0, <2>1, RequestEnds
  <2>. QED BY <1>1, <2>1, <2>2, <2>3, RequestsComeAndGo
<1>4. CASE Jobs!DatePasses \/ Jobs!ExtendDate \/ Jobs!FindAll
  <2>1. /\ UNCHANGED <<v1, v2, v3, v6, v7, v8, v9, v10, v11>>
        /\ v4' \in BOOLEAN /\ v5' \in BOOLEAN
    BY <1>1, <1>4 DEF Jobs!DatePasses, Jobs!ExtendDate, Jobs!FindAll, Jobs!Ghosts
  <2>. QED BY <1>1, <2>1, RequestsComeAndGo
<1>. QED
  BY <1>2, <1>3, <1>4, ReadForSignUpKeeps, ReadForStatusKeeps, ReadForApplicationKeeps,
   SignUpForShiftKeeps, WithdrawFromShiftKeeps, UpdateShiftStatusKeeps, ApplyForJobKeeps,
   WithdrawApplicationKeeps DEF Jobs!Next, Volunteers

LEMMA VolunteeringGoesOn ==
    ASSUME Jobs!VolunteeringInv, Jobs!Next \/ UNCHANGED VolunteeringVars
    PROVE  Jobs!VolunteeringInv'
<1>1. CASE Jobs!Next BY <1>1, VolunteeringKept
<1>2. CASE UNCHANGED VolunteeringVars
  <2>1. UNCHANGED <<v1, v2, v3, v4, v5, v6, v7, v8, v9, v10, v11>> BY <1>2 DEF VolunteeringVars
  <2>2. Jobs!TypeOK BY DEF Jobs!VolunteeringInv
  <2>. QED BY <2>1, <2>2, VolunteeringTypes, RequestsComeAndGo
<1>. QED BY <1>1, <1>2

(* Casework: kind is v1, doc v2, template v3, send v4, mailed v5, begun v6, *)
(* changes v7 and faults v8.                                               *)

CaseworkVars == <<v1, v2, v3, v4, v5, v6, v7, v8>>

Papers    == [there : BOOLEAN, status : {"pending", "completed"}, completedAt : BOOLEAN]
BulkSends == [stage : {"idle", "template", "count", "mail", "log", "done"}, left : SUBSET A,
              total : 0 .. Cases!Cardinality(A), sent : Nat, failed : Nat, usage : Nat]

LEMMA CaseworkCounts ==
    /\ IsFiniteSet(A) /\ IsFiniteSet(B) /\ MaxChanges \in Nat /\ MaxFaults \in Nat
    /\ \A S : Cases!Cardinality(S) = Cardinality(S)
<1>1. Cases!IsFiniteSet(A) /\ Cases!IsFiniteSet(B) /\ MaxChanges \in Nat /\ MaxFaults \in Nat
  BY CaseworkAssumed, Zenon DEF Cases!CaseworkAssumption
<1>2. IsFiniteSet(A) /\ IsFiniteSet(B) BY <1>1 DEF Cases!IsFiniteSet, IsFiniteSet
<1>3. \A S : Cases!Cardinality(S) = Cardinality(S) BY Zenon DEF Cases!Cardinality, Cardinality
<1>. QED BY <1>1, <1>2, <1>3

LEMMA CaseworkTypes ==
    ASSUME Cases!TypeOK
    PROVE  /\ v1 \in Cases!Kinds /\ v2 \in Papers
           /\ v3 \in [there : BOOLEAN, usage : Nat]
           /\ v4 \in [B -> BulkSends] /\ v5 \in [B -> [A -> Nat]]
           /\ v6 \in 0 .. Cases!Cardinality(B)
           /\ v7 \in 0 .. MaxChanges /\ v8 \in 0 .. MaxFaults
BY DEF Cases!TypeOK, Papers, BulkSends

LEMMA UncountedAreFew ==
    /\ Cases!Uncounted \in SUBSET B /\ IsFiniteSet(Cases!Uncounted)
    /\ Cardinality(Cases!Uncounted) \in Nat /\ Cardinality(B) \in Nat
<1>1. Cases!Uncounted \in SUBSET B BY DEF Cases!Uncounted
<1>. QED BY <1>1, CaseworkCounts, FS_Subset, FS_CardinalityType

LEMMA CaseworkStarts ==
    ASSUME Cases!Init
    PROVE  Cases!CaseworkInv
<1>1. Cases!Init OBVIOUS
<1>2. Cardinality(A) \in Nat /\ Cardinality(B) \in Nat /\ {} \in SUBSET A
  BY CaseworkCounts, FS_CardinalityType
<1>3. Cases!Idle \in BulkSends BY <1>2, CaseworkCounts DEF Cases!Idle, BulkSends
<1>4. Cases!NoDoc \in Papers /\ [Cases!NoDoc EXCEPT !.there = TRUE] \in Papers
  BY DEF Cases!NoDoc, Papers
<1>5. v2 \in Papers /\ v4 \in [B -> BulkSends] /\ v6 = 0 BY <1>1, <1>3, <1>4 DEF Cases!Init
<1>6. /\ v3 \in [there : BOOLEAN, usage : Nat] /\ v5 \in [B -> [A -> Nat]]
      /\ v6 \in 0 .. Cases!Cardinality(B) /\ v7 \in 0 .. MaxChanges /\ v8 \in 0 .. MaxFaults
  BY <1>1, <1>2, CaseworkCounts DEF Cases!Init
<1>7. Cases!TypeOK BY <1>1, <1>5, <1>6 DEF Cases!TypeOK, Cases!Init, Papers, BulkSends
<1>8. Cases!UsesAreCounted BY <1>1 DEF Cases!Init, Cases!UsesAreCounted
<1>9. Cardinality(Cases!Uncounted) <= Cardinality(B) BY CaseworkCounts, UncountedAreFew, FS_Subset
<1>10. Cases!BeginsAreSends
  BY <1>2, <1>5, <1>9, CaseworkCounts, UncountedAreFew DEF Cases!BeginsAreSends
<1>. QED BY <1>7, <1>8, <1>10 DEF Cases!CaseworkInv

\* A document, or a template: no bulk e-mail moves.
LEMMA PapersChange ==
    ASSUME Cases!CaseworkInv, v1' = v1, v2' \in Papers, v7' \in 0 .. MaxChanges,
           v3' = v3 \/ v3' = [v3 EXCEPT !.there = FALSE],
           UNCHANGED <<v4, v5, v6, v8>>
    PROVE  Cases!CaseworkInv'
<1>1. Cases!TypeOK /\ Cases!UsesAreCounted /\ Cases!BeginsAreSends BY DEF Cases!CaseworkInv
<1>2. v3' \in [there : BOOLEAN, usage : Nat] /\ v3'.usage = v3.usage /\ (v3'.there => v3.there)
  BY <1>1, CaseworkTypes
<1>3. Cases!TypeOK' BY <1>1, <1>2 DEF Cases!TypeOK, Papers
<1>4. Cases!UsesAreCounted' /\ Cases!BeginsAreSends'
  BY <1>1, <1>2 DEF Cases!UsesAreCounted, Cases!BeginsAreSends, Cases!Uncounted
<1>. QED BY <1>3, <1>4 DEF Cases!CaseworkInv

\* A bulk e-mail takes a step that leaves the template alone.
LEMMA SendGoesOn ==
    ASSUME Cases!CaseworkInv, NEW s \in B, NEW x \in BulkSends,
           v4' = [v4 EXCEPT ![s] = x],
           x.stage \in {"idle", "template", "count"} =>
             v4[s].stage \in {"idle", "template", "count"},
           UNCHANGED <<v1, v2, v3, v6, v7>>, v5' \in [B -> [A -> Nat]], v8' \in 0 .. MaxFaults
    PROVE  Cases!CaseworkInv'
<1>1. Cases!TypeOK /\ Cases!UsesAreCounted /\ Cases!BeginsAreSends BY DEF Cases!CaseworkInv
<1>2. v4 \in [B -> BulkSends] BY <1>1, CaseworkTypes
<1>3. v4' \in [B -> BulkSends] BY <1>2
<1>4. Cases!TypeOK' BY <1>1, <1>3 DEF Cases!TypeOK, BulkSends
<1>5. Cases!UsesAreCounted' BY <1>1 DEF Cases!UsesAreCounted
<1>6. Cases!Uncounted' \in SUBSET Cases!Uncounted BY <1>2 DEF Cases!Uncounted
<1>7. Cardinality(Cases!Uncounted') <= Cardinality(Cases!Uncounted)
      /\ Cardinality(Cases!Uncounted') \in Nat
  BY <1>6, UncountedAreFew, FS_Subset, FS_CardinalityType
<1>8. v6 \in Nat /\ v6 + Cardinality(Cases!Uncounted) <= Cardinality(B)
  BY <1>1, CaseworkCounts, UncountedAreFew, CaseworkTypes DEF Cases!BeginsAreSends
<1>9. v6' + Cardinality(Cases!Uncounted') <= Cardinality(B) BY <1>7, <1>8, UncountedAreFew
<1>10. Cases!BeginsAreSends' BY <1>9, CaseworkCounts DEF Cases!BeginsAreSends
<1>. QED BY <1>4, <1>5, <1>10 DEF Cases!CaseworkInv

LEMMA UsageIsIncremented ==
    ASSUME Cases!CaseworkInv, NEW s \in B, Cases!IncrementUsage(s)
    PROVE  Cases!CaseworkInv'
<1>1. Cases!TypeOK /\ Cases!UsesAreCounted /\ Cases!BeginsAreSends BY DEF Cases!CaseworkInv
<1>2. /\ v4 \in [B -> BulkSends] /\ v3 \in [there : BOOLEAN, usage : Nat]
      /\ v6 \in Nat /\ v6 + Cardinality(Cases!Uncounted) <= Cardinality(B)
  BY <1>1, CaseworkCounts, UncountedAreFew, CaseworkTypes DEF Cases!BeginsAreSends
<1>3. /\ v4[s].stage = "count" /\ v6' = v6 + 1 /\ UNCHANGED <<v1, v2, v5, v7, v8>>
      /\ v4' = [v4 EXCEPT ![s].stage = "mail"]
      /\ v3' = [v3 EXCEPT !.usage = IF v3.there THEN v3.usage + 1 ELSE @]
  BY DEF Cases!IncrementUsage, Cases!Counted, Cases!Documents
<1>4. v4' \in [B -> BulkSends] /\ v4'[s].stage = "mail" /\ \A r \in B : r # s => v4'[r] = v4[r]
  BY <1>2, <1>3 DEF BulkSends
<1>5. /\ v3' \in [there : BOOLEAN, usage : Nat] /\ v3'.there = v3.there
      /\ (v3.there => v3'.usage = v3.usage + 1)
  BY <1>2, <1>3
<1>6. s \in Cases!Uncounted /\ Cases!Uncounted' = Cases!Uncounted \ {s}
  BY <1>3, <1>4 DEF Cases!Uncounted
<1>7. Cardinality(Cases!Uncounted') = Cardinality(Cases!Uncounted) - 1
  BY <1>6, UncountedAreFew, FS_RemoveElement
<1>8. Cardinality(Cases!Uncounted) # 0 BY <1>6, UncountedAreFew, FS_EmptySet
<1>9. v6' + Cardinality(Cases!Uncounted') <= Cardinality(B) /\ v6' \in 0 .. Cardinality(B)
  BY <1>2, <1>3, <1>7, <1>8, UncountedAreFew
<1>10. Cases!TypeOK' BY <1>1, <1>3, <1>4, <1>5, <1>9, CaseworkCounts DEF Cases!TypeOK, BulkSends
<1>11. Cases!UsesAreCounted' BY <1>1, <1>3, <1>5 DEF Cases!UsesAreCounted
<1>12. Cases!BeginsAreSends' BY <1>9, CaseworkCounts DEF Cases!BeginsAreSends
<1>. QED BY <1>10, <1>11, <1>12 DEF Cases!CaseworkInv

LEMMA SendsGoOn ==
    ASSUME Cases!CaseworkInv, NEW s \in B,
           \/ \E recipients \in SUBSET A, templated \in BOOLEAN :
                Cases!SendBulkEmail(s, recipients, templated)
           \/ Cases!FindTemplate(s) \/ Cases!LogRecipient(s) \/ Cases!EndSend(s)
           \/ \E m \in A, leaves \in BOOLEAN : Cases!EmailRecipient(s, m, leaves)
    PROVE  Cases!CaseworkInv'
<1>0. Cases!TypeOK BY DEF Cases!CaseworkInv
<1>1. /\ v4 \in [B -> BulkSends] /\ v3 \in [there : BOOLEAN, usage : Nat]
      /\ v5 \in [B -> [A -> Nat]] /\ v8 \in 0 .. MaxFaults
  BY <1>0, CaseworkTypes
<1>2. /\ v4[s] \in BulkSends /\ MaxFaults \in Nat
      /\ Cases!Idle \in BulkSends /\ Cases!Idle.stage = "idle"
  <2>1. Cardinality(A) \in Nat /\ {} \in SUBSET A BY CaseworkCounts, FS_CardinalityType
  <2>. QED BY <1>1, <2>1, CaseworkCounts DEF Cases!Idle, BulkSends
<1>3. ASSUME NEW recipients \in SUBSET A, NEW templated \in BOOLEAN,
             Cases!SendBulkEmail(s, recipients, templated)
      PROVE  Cases!CaseworkInv'
  <2>. DEFINE x == [Cases!Idle EXCEPT !.stage = IF templated THEN "template" ELSE "mail",
                       !.left = recipients, !.total = Cases!Cardinality(recipients)]
  <2>1. /\ v4[s].stage = "idle" /\ v4' = [v4 EXCEPT ![s] = x]
        /\ UNCHANGED <<v1, v2, v3, v5, v6, v7, v8>>
    BY <1>2, <1>3 DEF Cases!SendBulkEmail, Cases!Documents
  <2>2. Cases!Cardinality(recipients) \in 0 .. Cases!Cardinality(A)
    BY CaseworkCounts, FS_Subset, FS_CardinalityType
  <2>3. x \in BulkSends BY <1>2, <2>2 DEF BulkSends
  <2>. HIDE DEF x
  <2>. QED BY <1>1, <2>1, <2>3, SendGoesOn
<1>4. CASE Cases!FindTemplate(s)
  <2>. DEFINE x == IF v3.there THEN [v4[s] EXCEPT !.stage = "count", !.usage = v3.usage]
                              ELSE Cases!Idle
  <2>1. /\ v4[s].stage = "template" /\ v4' = [v4 EXCEPT ![s] = x]
        /\ UNCHANGED <<v1, v2, v3, v5, v6, v7, v8>>
    BY <1>1, <1>4 DEF Cases!FindTemplate, Cases!Documents
  <2>2. x \in BulkSends BY <1>1, <1>2 DEF BulkSends
  <2>. HIDE DEF x
  <2>. QED BY <1>1, <2>1, <2>2, SendGoesOn
<1>5. CASE Cases!LogRecipient(s)
  <2>. DEFINE x == [v4[s] EXCEPT !.stage = "mail", !.failed = @ + 1]
  <2>1. /\ v4' = [v4 EXCEPT ![s] = [v4[s] EXCEPT !.stage = "mail", !.sent = @,
                                                !.failed = @ + 1]]
        /\ UNCHANGED <<v1, v2, v3, v5, v6, v7, v8>>
    BY <1>1, <1>5 DEF Cases!LogRecipient, Cases!Documents, Cases!ManagerKnown
  <2>a. x = [v4[s] EXCEPT !.stage = "mail", !.sent = @, !.failed = @ + 1] BY <1>2 DEF BulkSends
  <2>2. x \in BulkSends /\ x.stage = "mail"
    <3>1. v4[s].failed \in Nat BY <1>2 DEF BulkSends
    <3>2. PICK n \in Nat : n = v4[s].failed + 1 BY <3>1
    <3>3. x = [v4[s] EXCEPT !.stage = "mail", !.failed = n] BY <3>2
    <3>. HIDE DEF x
    <3>. QED BY <1>2, <3>3 DEF BulkSends
  <2>. HIDE DEF x
  <2>. QED BY <1>1, <2>1, <2>a, <2>2, SendGoesOn
<1>6. CASE Cases!EndSend(s)
  <2>. DEFINE x == [v4[s] EXCEPT !.stage = "done"]
  <2>1. /\ v4' = [v4 EXCEPT ![s] = x] /\ UNCHANGED <<v1, v2, v3, v5, v6, v7, v8>>
    BY <1>1, <1>6 DEF Cases!EndSend, Cases!Documents
  <2>2. x \in BulkSends /\ x.stage = "done" BY <1>2 DEF BulkSends
  <2>. HIDE DEF x
  <2>. QED BY <1>1, <2>1, <2>2, SendGoesOn
<1>7. ASSUME NEW m \in A, NEW leaves \in BOOLEAN, Cases!EmailRecipient(s, m, leaves)
      PROVE  Cases!CaseworkInv'
  <2>. DEFINE x == [v4[s] EXCEPT !.stage = "log", !.left = @ \ {m}]
  <2>1. /\ v4' = [v4 EXCEPT ![s] = x] /\ UNCHANGED <<v1, v2, v3, v6, v7>>
        /\ v8' = (IF leaves THEN v8 ELSE v8 + 1) /\ (~leaves => v8 < MaxFaults)
        /\ v5' = [v5 EXCEPT ![s][m] = IF leaves THEN @ + 1 ELSE @]
    BY <1>1, <1>7 DEF Cases!EmailRecipient, Cases!Documents
  <2>2. x \in BulkSends /\ x.stage = "log" BY <1>2 DEF BulkSends
  <2>3. v8' \in 0 .. MaxFaults BY <1>1, <1>2, <2>1
  <2>4. v5' \in [B -> [A -> Nat]] BY <1>1, <2>1
  <2>. HIDE DEF x
  <2>. QED BY <1>1, <2>1, <2>2, <2>3, <2>4, SendGoesOn
<1>. QED BY <1>3, <1>4, <1>5, <1>6, <1>7

LEMMA CaseworkKept ==
    ASSUME Cases!CaseworkInv, Cases!Next
    PROVE  Cases!CaseworkInv'
<1>0. /\ v2 \in Papers /\ v7 \in 0 .. MaxChanges /\ MaxChanges \in Nat
      /\ [Cases!NoDoc EXCEPT !.there = TRUE] \in Papers /\ Cases!NoDoc \in Papers
  <2>1. [Cases!NoDoc EXCEPT !.there = TRUE] \in Papers /\ Cases!NoDoc \in Papers
    BY DEF Cases!NoDoc, Papers
  <2>. QED BY <2>1, CaseworkTypes, CaseworkCounts DEF Cases!CaseworkInv
<1>1. ASSUME NEW d \in Papers, Cases!Change(d)
      PROVE  Cases!CaseworkInv'
  <2>1. /\ v1' = v1 /\ v2' = d /\ v3' = v3 /\ v7 < MaxChanges /\ v7' = v7 + 1
        /\ UNCHANGED <<v4, v5, v6, v8>>
    BY <1>1 DEF Cases!Change, Cases!Sending
  <2>2. v7' \in 0 .. MaxChanges BY <1>0, <2>1
  <2>. QED BY <2>1, <2>2, PapersChange
<1>2. ASSUME \/ Cases!CreateNote \/ Cases!CreateFollowUp \/ Cases!CreateTicket
             \/ Cases!CreateTask \/ Cases!CreateAnnouncement \/ Cases!ModerateContent
             \/ Cases!LogCommunication
      PROVE  Cases!CaseworkInv'
  BY <1>0, <1>1, <1>2 DEF Cases!CreateNote, Cases!CreateFollowUp, Cases!CreateTicket,
   Cases!CreateTask, Cases!CreateAnnouncement, Cases!ModerateContent, Cases!LogCommunication,
   Cases!Create
<1>3. ASSUME NEW k, NEW status \in {"pending", "completed"}, Cases!Update(k, status)
      PROVE  Cases!CaseworkInv'
  <2>1. [v2 EXCEPT !.status = status] \in Papers BY <1>0 DEF Papers
  <2>. QED BY <1>1, <1>3, <2>1 DEF Cases!Update
<1>4. ASSUME Cases!UpdateNote \/ Cases!UpdateAnnouncement
      PROVE  Cases!CaseworkInv'
  <2>1. v2.status \in {"pending", "completed"} BY <1>0 DEF Papers
  <2>. QED BY <1>3, <1>4, <2>1 DEF Cases!UpdateNote, Cases!UpdateAnnouncement
<1>5. ASSUME NEW status \in {"pending", "completed"},
             \/ Cases!UpdateFollowUp(status) \/ Cases!UpdateTicket(status)
             \/ Cases!UpdateTask(status)
      PROVE  Cases!CaseworkInv'
  BY <1>3, <1>5 DEF Cases!UpdateFollowUp, Cases!UpdateTicket, Cases!UpdateTask
<1>6. ASSUME Cases!CompleteFollowUp \/ Cases!CompleteTask
      PROVE  Cases!CaseworkInv'
  <2>1. [v2 EXCEPT !.status = "completed", !.completedAt = TRUE] \in Papers BY <1>0 DEF Papers
  <2>. QED BY <1>1, <1>6, <2>1 DEF Cases!CompleteFollowUp, Cases!CompleteTask, Cases!Complete
<1>7. ASSUME Cases!DeleteNote \/ Cases!DeleteTask \/ Cases!DeleteAnnouncement
             \/ Cases!AddTicketComment
      PROVE  Cases!CaseworkInv'
  BY <1>0, <1>1, <1>7 DEF Cases!DeleteNote, Cases!DeleteTask, Cases!DeleteAnnouncement,
   Cases!Delete, Cases!AddTicketComment
<1>8. ASSUME \/ Cases!CreateEmailTemplate \/ Cases!UpdateEmailTemplate
             \/ Cases!DeleteEmailTemplate
      PROVE  Cases!CaseworkInv'
  <2>1. /\ v1' = v1 /\ v2' = v2 /\ v7 < MaxChanges /\ v7' = v7 + 1
        /\ UNCHANGED <<v4, v5, v6, v8>>
        /\ v3' = v3 \/ v3' = [v3 EXCEPT !.there = FALSE]
    BY <1>8 DEF Cases!CreateEmailTemplate, Cases!UpdateEmailTemplate, Cases!DeleteEmailTemplate,
     Cases!Sending
  <2>2. v7' \in 0 .. MaxChanges BY <1>0, <2>1
  <2>. QED BY <1>0, <2>1, <2>2, PapersChange
<1>. QED
  BY <1>2, <1>4, <1>5, <1>6, <1>7, <1>8, SendsGoOn, UsageIsIncremented DEF Cases!Next,
   Cases!Recipients

LEMMA CaseworkGoesOn ==
    ASSUME Cases!CaseworkInv, Cases!Next \/ UNCHANGED CaseworkVars
    PROVE  Cases!CaseworkInv'
<1>1. CASE Cases!Next BY <1>1, CaseworkKept
<1>2. CASE UNCHANGED CaseworkVars
  <2>1. UNCHANGED <<v1, v2, v3, v4, v5, v6, v7, v8>> BY <1>2 DEF CaseworkVars
  <2>. QED BY <2>1, CaseworkTypes, PapersChange DEF Cases!CaseworkInv
<1>. QED BY <1>1, <1>2

(* Content: kind is v1, doc v2, source v3, call v4, overlapped v5, told v6, *)
(* answered v7, calls v8 and faults v9.                                    *)

ContentVars == <<v1, v2, v3, v4, v5, v6, v7, v8, v9>>

EntryCalls    == [op : {"update"}, stage : {"read"},
                  arg : [by : {ann, admin}, asks : {"yes", "no", none}], read : Content!Entries]
ResourceCalls == [op : {"refresh"}, stage : {"read", "fetched"}, arg : Nat, read : Nat]
                   \cup [op : {"download"}, stage : {"read", "counted"}, arg : Nat, read : Nat]
TrainingCalls == [op : {"complete"}, stage : {"read", "notify"}, arg : SUBSET A, read : {none}]
ChapterCalls  == [op : {"create"}, stage : {"read"}, arg : {none}, read : {none}]

LEMMA ContentKinds ==
    /\ Content!Documents["entry"] = Content!Entries /\ Content!Requests["entry"] = EntryCalls
    /\ Content!Documents["resource"] = Content!Resources
    /\ Content!Requests["resource"] = ResourceCalls
    /\ Content!Documents["training"] = Content!Trainings
    /\ Content!Requests["training"] = TrainingCalls
    /\ Content!Documents["chapter"] = Content!Chapters
    /\ Content!Requests["chapter"] = ChapterCalls
<1>1. /\ Content!Documents["entry"] = Content!Entries
      /\ Content!Documents["resource"] = Content!Resources
      /\ Content!Documents["training"] = Content!Trainings
      /\ Content!Documents["chapter"] = Content!Chapters
  BY DEF Content!Documents
<1>2. Content!Requests["entry"] = EntryCalls BY DEF Content!Requests, EntryCalls, Content!Users
<1>3. Content!Requests["resource"] = ResourceCalls BY DEF Content!Requests, ResourceCalls
<1>4. Content!Requests["training"] = TrainingCalls BY DEF Content!Requests, TrainingCalls
<1>5. Content!Requests["chapter"] = ChapterCalls BY DEF Content!Requests, ChapterCalls
<1>. QED BY <1>1, <1>2, <1>3, <1>4, <1>5

\* A document of each kind has its own fields and its own requests.
LEMMA ContentTypes ==
    ASSUME Content!TypeOK
    PROVE  /\ v1 \in {"entry", "resource", "training", "chapter"}
           /\ v1 = "entry" => /\ v2 \in Content!Entries \cup {none}
                              /\ v4 \in [B -> {Content!Idle} \cup EntryCalls]
           /\ v1 = "resource" => /\ v2 \in Content!Resources \cup {none}
                                 /\ v4 \in [B -> {Content!Idle} \cup ResourceCalls]
           /\ v1 = "training" => /\ v2 \in Content!Trainings \cup {none}
                                 /\ v4 \in [B -> {Content!Idle} \cup TrainingCalls]
           /\ v1 = "chapter" => /\ v2 \in Content!Chapters \cup {none}
                                /\ v4 \in [B -> {Content!Idle} \cup ChapterCalls]
           /\ v3 \in Nat /\ v7 \in Nat /\ v5 \in BOOLEAN /\ v6 \in [A -> Nat]
           /\ v8 \in 0 .. MaxRequested /\ v9 \in 0 .. MaxFaults
           /\ MaxRequested \in Nat /\ MaxFaults \in Nat
<1>1. MaxRequested \in Nat /\ MaxFaults \in Nat BY ContentAssumed DEF Content!ContentAssumption
<1>. QED BY <1>1, ContentKinds DEF Content!TypeOK

LEMMA ContentIsTyped ==
    ASSUME v1' \in {"entry", "resource", "training", "chapter"},
           v1' = "entry" => /\ v2' \in Content!Entries \cup {none}
                            /\ v4' \in [B -> {Content!Idle} \cup EntryCalls],
           v1' = "resource" => /\ v2' \in Content!Resources \cup {none}
                               /\ v4' \in [B -> {Content!Idle} \cup ResourceCalls],
           v1' = "training" => /\ v2' \in Content!Trainings \cup {none}
                               /\ v4' \in [B -> {Content!Idle} \cup TrainingCalls],
           v1' = "chapter" => /\ v2' \in Content!Chapters \cup {none}
                              /\ v4' \in [B -> {Content!Idle} \cup ChapterCalls],
           v3' \in Nat, v7' \in Nat, v5' \in BOOLEAN, v6' \in [A -> Nat],
           v8' \in 0 .. MaxRequested, v9' \in 0 .. MaxFaults
    PROVE  Content!TypeOK'
BY ContentKinds DEF Content!TypeOK

(* Downloads: those that were counted and not yet answered.                *)

Pending(copy, f) ==
    {c \in B : f[c].op = "download" /\ f[c].stage = "counted" /\ f[c].arg = copy}

\* n were answered.
Exact(resource, n, f, broken) ==
    /\ n + Cardinality(Pending(resource.copy, f)) <= resource.downloads
    /\ resource.downloads <= n + Cardinality(Pending(resource.copy, f)) + broken

LEMMA DownloadsAreExact ==
    ASSUME v1 = "resource"
    PROVE  Content!DownloadsAreCounted <=> (v2 # none => Exact(v2, v7, v4, v9))
<1>1. \A S : Content!Cardinality(S) = Cardinality(S) BY Zenon DEF Content!Cardinality, Cardinality
<1>2. Cardinality(Pending(v2.copy, v4))
        = Content!Cardinality({c \in B : /\ v4[c].op = "download" /\ v4[c].stage = "counted"
                                         /\ v4[c].arg = v2.copy})
  BY <1>1 DEF Pending
<1>. QED BY <1>2 DEF Content!DownloadsAreCounted, Content!There, Exact

LEMMA NextDownloadsAreExact ==
    ASSUME v1' = "resource", v2' # none => Exact(v2', v7', v4', v9')
    PROVE  Content!DownloadsAreCounted'
<1>1. \A S : Content!Cardinality(S) = Cardinality(S) BY Zenon DEF Content!Cardinality, Cardinality
<1>2. Cardinality(Pending(v2'.copy, v4'))
        = Content!Cardinality({c \in B : /\ v4'[c].op = "download" /\ v4'[c].stage = "counted"
                                         /\ v4'[c].arg = v2'.copy})
  BY <1>1 DEF Pending
<1>. QED BY <1>2 DEF Content!DownloadsAreCounted, Content!There, Exact

LEMMA PendingAreFew ==
    ASSUME NEW k, NEW f
    PROVE  IsFiniteSet(Pending(k, f)) /\ Cardinality(Pending(k, f)) \in Nat
<1>1. IsFiniteSet(B) BY ContentAssumed DEF Content!ContentAssumption, Content!IsFiniteSet, IsFiniteSet
<1>2. Pending(k, f) \in SUBSET B BY DEF Pending
<1>. QED BY <1>1, <1>2, FS_Subset, FS_CardinalityType

\* One request goes on: it is counted, answered, or neither.
LEMMA PendingChange ==
    ASSUME NEW k, NEW f, NEW g, NEW c \in B, \A d \in B : d # c => g[d] = f[d]
    PROVE  /\ (c \in Pending(k, f) <=> c \in Pending(k, g)) =>
                Cardinality(Pending(k, g)) = Cardinality(Pending(k, f))
           /\ c \notin Pending(k, f) /\ c \in Pending(k, g) =>
                Cardinality(Pending(k, g)) = Cardinality(Pending(k, f)) + 1
           /\ c \in Pending(k, f) /\ c \notin Pending(k, g) =>
                Cardinality(Pending(k, f)) = Cardinality(Pending(k, g)) + 1
<1>1. IsFiniteSet(Pending(k, f)) /\ IsFiniteSet(Pending(k, g)) BY PendingAreFew
<1>2. \A d \in B : d # c => (d \in Pending(k, g) <=> d \in Pending(k, f)) BY DEF Pending
<1>3. Pending(k, f) \subseteq B /\ Pending(k, g) \subseteq B BY DEF Pending
<1>4. (c \in Pending(k, f) <=> c \in Pending(k, g)) => Pending(k, g) = Pending(k, f)
  BY <1>2, <1>3
<1>5. c \notin Pending(k, f) /\ c \in Pending(k, g) => Pending(k, g) = Pending(k, f) \cup {c}
  BY <1>2, <1>3
<1>6. c \in Pending(k, f) /\ c \notin Pending(k, g) => Pending(k, f) = Pending(k, g) \cup {c}
  BY <1>2, <1>3
<1>. QED BY <1>1, <1>4, <1>5, <1>6, FS_AddElement

LEMMA ContentStarts ==
    ASSUME Content!Init
    PROVE  Content!ContentInv
<1>1. Content!Init /\ MaxRequested \in Nat /\ MaxFaults \in Nat
  BY ContentAssumed DEF Content!ContentAssumption
<1>. DEFINE idle == [c \in B |-> Content!Idle]
<1>2. /\ idle \in [B -> {Content!Idle} \cup EntryCalls]
      /\ idle \in [B -> {Content!Idle} \cup ResourceCalls]
      /\ idle \in [B -> {Content!Idle} \cup TrainingCalls]
      /\ idle \in [B -> {Content!Idle} \cup ChapterCalls]
  OBVIOUS
<1>3. /\ v4 = idle /\ v6 \in [A -> Nat] /\ v3 = 0 /\ v7 = 0 /\ v5 = FALSE /\ v8 = 0 /\ v9 = 0
      /\ \A m \in A : v6[m] = 0
  BY <1>1 DEF Content!Init
<1>4. \A c \in B : v4[c].stage = "idle" BY <1>3 DEF Content!Idle
<1>. HIDE DEF idle
<1>5. \/ /\ v1 = "entry" /\ v2 \in Content!Entries
         /\ IF v2.anonymous THEN v2.user = none ELSE v2.user = ann /\ v2.owner \in {ann, none}
      \/ v1 = "resource" /\ v2 \in Content!Resources /\ v2.downloads = 0 /\ v2.copy = 0
      \/ v1 = "training" /\ v2 \in Content!Trainings /\ v2.completed = {}
      \/ v1 = "chapter" /\ v2 \in Content!Chapters
  <2>1. CASE v1 = "entry" /\ v2 \in {Content!CreateEntry(a) : a \in BOOLEAN}
                                      \cup {Content!OldEntry(a) : a \in BOOLEAN}
    BY <2>1 DEF Content!CreateEntry, Content!OldEntry, Content!Entries, Content!Users
  <2>2. CASE v1 = "resource" /\ v2 = Content!Resource(0, 0)
    BY <2>2 DEF Content!Resource, Content!Resources
  <2>3. CASE v1 = "training" /\ v2 = [completed |-> {}] BY <2>3 DEF Content!Trainings
  <2>4. CASE v1 = "chapter" /\ v2 = [chapters |-> 0] BY <2>4 DEF Content!Chapters
  <2>. QED BY <1>1, <2>1, <2>2, <2>3, <2>4 DEF Content!Init
<1>6. Content!TypeOK
  <2>1. v1 \in {"entry", "resource", "training", "chapter"} /\ v4 = idle BY <1>3, <1>5
  <2>2. v2 \in Content!Documents[v1] /\ v4 \in [B -> {Content!Idle} \cup Content!Requests[v1]]
    BY <1>2, <1>5, <2>1, ContentKinds
  <2>a. v3 = 0 /\ v7 = 0 /\ v8 = 0 /\ v9 = 0 BY <1>3, Zenon
  <2>b. v5 \in BOOLEAN BY <1>3, Zenon
  <2>3. v3 \in Nat /\ v7 \in Nat /\ v8 \in 0 .. MaxRequested /\ v9 \in 0 .. MaxFaults BY <1>1, <2>a
  <2>. QED BY <1>3, <2>b, <2>1, <2>2, <2>3, Zenon DEF Content!TypeOK
<1>7. Content!AnonymousIsNobodys
  <2>1. ann # none BY ContentAssumed DEF Content!ContentAssumption
  <2>. QED BY <1>5, <2>1 DEF Content!AnonymousIsNobodys, Content!OwnerOf
<1>8. Content!CompletedAreToldOnce
  <2>1. v1 = "training" => v2.completed = {} BY <1>5
  <2>2. (\A m \in A : v6[m] = 0) /\ v5 = FALSE BY <1>3
  <2>. SUFFICES ASSUME v1 = "training", NEW m \in A
                PROVE  v6[m] <= 1 /\ v6[m] # 1 /\ m \notin v2.completed
    BY Zenon DEF Content!CompletedAreToldOnce
  <2>. QED BY <2>1, <2>2
<1>11. Content!DownloadsAreCounted /\ Content!CopiesAreNew
  <2>. SUFFICES ASSUME v1 = "resource"
                PROVE  Content!DownloadsAreCounted /\ Content!CopiesAreNew
    BY DEF Content!DownloadsAreCounted, Content!CopiesAreNew
  <2>1. v2.downloads = 0 /\ v2.copy = 0 BY <1>5
  <2>2. Exact(v2, v7, v4, v9)
    <3>1. Pending(v2.copy, v4) = {} BY <1>4 DEF Pending
    <3>2. Cardinality(Pending(v2.copy, v4)) = 0 BY <3>1, FS_EmptySet
    <3>. QED BY <1>3, <2>1, <3>2 DEF Exact
  <2>3. Content!DownloadsAreCounted BY <2>2, DownloadsAreExact
  <2>4. Content!CopiesAreNew BY <1>3, <1>4, <2>1 DEF Content!CopiesAreNew
  <2>. QED BY <2>3, <2>4
<1>9. Content!NotifiedAreCompleted /\ Content!ChapterIsThere
  BY <1>4, <1>5 DEF Content!NotifiedAreCompleted, Content!ChapterIsThere
<1>. QED BY <1>6, <1>7, <1>8, <1>9, <1>11 DEF Content!ContentInv, Content!ContentIsTrue

LEMMA RequestGoes ==
    ASSUME NEW c \in B, NEW S, NEW x \in S, v4 \in [B -> S], v4' = [v4 EXCEPT ![c] = x]
    PROVE  v4' \in [B -> S] /\ v4'[c] = x /\ \A d \in B : d # c => v4'[d] = v4[d]
OBVIOUS

LEMMA OneMoreRequest ==
    ASSUME Content!TypeOK, v8 < MaxRequested, v8' = v8 + 1
    PROVE  v8' \in 0 .. MaxRequested
BY ContentTypes

(* Testimonies. *)

LEMMA EntryHolds ==
    ASSUME v1' = "entry", v2' \in Content!Entries \cup {none},
           v4' \in [B -> {Content!Idle} \cup EntryCalls],
           v3' \in Nat, v7' \in Nat, v5' \in BOOLEAN, v6' \in [A -> Nat],
           v8' \in 0 .. MaxRequested, v9' \in 0 .. MaxFaults, Content!AnonymousIsNobodys'
    PROVE  Content!ContentInv'
<1>1. Content!TypeOK' BY ContentIsTyped
<1>2. /\ Content!DownloadsAreCounted' /\ Content!CompletedAreToldOnce'
      /\ Content!NotifiedAreCompleted' /\ Content!CopiesAreNew' /\ Content!ChapterIsThere'
  BY DEF Content!DownloadsAreCounted, Content!CompletedAreToldOnce, Content!NotifiedAreCompleted,
   Content!CopiesAreNew, Content!ChapterIsThere
<1>. QED BY <1>1, <1>2 DEF Content!ContentInv, Content!ContentIsTrue

\* What an update makes of the entry it read.
LEMMA UpdatedEntry ==
    ASSUME NEW e \in Content!Entries, NEW r \in Content!Entries,
           NEW arg \in [by : {ann, admin}, asks : {"yes", "no", none}]
    PROVE  /\ Content!Updated(e, r, arg) \in Content!Entries
           /\ e = r => LET u == Content!Updated(e, r, arg) IN
                         IF u.anonymous THEN u.user = none
                         ELSE u.user # none /\ u.user = Content!OwnerOf(u)
<1>1. ann # none /\ admin # none BY ContentAssumed DEF Content!ContentAssumption
<1>. DEFINE owner == IF Content!OwnerOf(r) # none THEN Content!OwnerOf(r) ELSE arg.by
            next  == IF arg.asks = none THEN r.anonymous ELSE arg.asks = "yes"
            shown == IF arg.asks = none THEN e.anonymous ELSE next
            u     == Content!Updated(e, r, arg)
<1>2. owner \in {ann, admin} BY <1>1 DEF Content!OwnerOf, Content!Entries, Content!Users
<1>3. next \in BOOLEAN /\ shown \in BOOLEAN /\ (e = r => shown = next) BY DEF Content!Entries
<1>4. u = [anonymous |-> shown, user |-> IF next THEN none ELSE owner, owner |-> owner]
  BY DEF Content!Updated
<1>. HIDE DEF owner, next, shown, u
<1>5. u \in Content!Entries BY <1>2, <1>3, <1>4 DEF Content!Entries, Content!Users
<1>6. e = r => IF u.anonymous THEN u.user = none
               ELSE u.user # none /\ u.user = Content!OwnerOf(u)
  BY <1>1, <1>2, <1>3, <1>4 DEF Content!OwnerOf
<1>. QED BY <1>5, <1>6 DEF u

LEMMA EntryKept ==
    ASSUME Content!ContentInv, v1 = "entry", Content!Next
    PROVE  Content!ContentInv'
<1>1. /\ Content!TypeOK /\ Content!AnonymousIsNobodys
      /\ v2 \in Content!Entries \cup {none} /\ v4 \in [B -> {Content!Idle} \cup EntryCalls]
      /\ v3 \in Nat /\ v7 \in Nat /\ v5 \in BOOLEAN /\ v6 \in [A -> Nat]
      /\ v8 \in 0 .. MaxRequested /\ v9 \in 0 .. MaxFaults
      /\ MaxRequested \in Nat /\ MaxFaults \in Nat
  BY ContentTypes DEF Content!ContentInv, Content!ContentIsTrue
<1>2. \A c \in B : v4[c].stage = "idle" \/ v4[c] \in EntryCalls BY <1>1 DEF Content!Idle
<1>3. \A c \in B : v4[c].stage \in {"read", "fetched", "counted", "notify"} =>
        /\ v4[c] \in EntryCalls /\ v4[c].op = "update" /\ v4[c].stage = "read"
        /\ v4[c].arg \in [by : {ann, admin}, asks : {"yes", "no", none}]
        /\ v4[c].read \in Content!Entries
  BY <1>2 DEF EntryCalls
<1>4. ASSUME NEW c \in B, NEW by \in {ann, admin}, NEW asks \in {"yes", "no", none},
             Content!FindEntry(c, by, asks)
      PROVE  Content!ContentInv'
  <2>. DEFINE x == [op |-> "update", stage |-> "read", arg |-> [by |-> by, asks |-> asks],
                    read |-> v2]
  <2>1. /\ v4' = [v4 EXCEPT ![c] = x] /\ v8 < MaxRequested /\ v8' = v8 + 1 /\ v2 # none
        /\ UNCHANGED <<v1, v2, v3, v5, v6, v7, v9>>
    BY <1>4 DEF Content!FindEntry, Content!Begin, Content!There
  <2>2. x \in {Content!Idle} \cup EntryCalls BY <1>1, <2>1 DEF EntryCalls
  <2>. HIDE DEF x
  <2>3. v4' \in [B -> {Content!Idle} \cup EntryCalls] BY <1>1, <2>1, <2>2, RequestGoes
  <2>4. Content!AnonymousIsNobodys'
    BY <1>1, <2>1 DEF Content!AnonymousIsNobodys, Content!There, Content!OwnerOf
  <2>. QED BY <1>1, <2>1, <2>3, <2>4, OneMoreRequest, EntryHolds
<1>5. ASSUME NEW c \in B, Content!UpdateEntry(c)
      PROVE  Content!ContentInv'
  <2>1. /\ v4[c].stage = "read" /\ v4' = [v4 EXCEPT ![c] = Content!Idle]
        /\ v2' = IF v2 # none THEN Content!Updated(v2, v4[c].read, v4[c].arg) ELSE none
        /\ v5' = (v5 \/ v2 # v4[c].read)
        /\ UNCHANGED <<v1, v3, v6, v7, v8, v9>>
    BY <1>5 DEF Content!UpdateEntry, Content!At, Content!Answered, Content!There
  <2>2. v4' \in [B -> {Content!Idle} \cup EntryCalls] BY <1>1, <2>1, RequestGoes
  <2>3. v5' \in BOOLEAN /\ (~v5' => v2 = v4[c].read) BY <2>1
  <2>4. CASE v2 = none
    <3>1. v2' = none BY <2>1, <2>4
    <3>2. Content!AnonymousIsNobodys' BY <3>1 DEF Content!AnonymousIsNobodys, Content!There
    <3>. QED BY <1>1, <2>1, <2>2, <2>3, <3>1, <3>2, EntryHolds
  <2>5. CASE v2 # none
    <3>1. v2 \in Content!Entries /\ v2' = Content!Updated(v2, v4[c].read, v4[c].arg)
      BY <1>1, <2>1, <2>5
    <3>2. /\ v4[c].read \in Content!Entries
          /\ v4[c].arg \in [by : {ann, admin}, asks : {"yes", "no", none}]
      BY <1>3, <2>1
    <3>3. /\ v2' \in Content!Entries
          /\ ~v5' => IF v2'.anonymous THEN v2'.user = none
                     ELSE v2'.user # none /\ v2'.user = Content!OwnerOf(v2')
      BY <2>3, <3>1, <3>2, UpdatedEntry
    <3>4. Content!AnonymousIsNobodys' BY <3>3 DEF Content!AnonymousIsNobodys, Content!OwnerOf
    <3>. QED BY <1>1, <2>1, <2>2, <2>3, <3>3, <3>4, EntryHolds
  <2>. QED BY <2>4, <2>5
<1>6. ASSUME NEW c \in B, Content!BreaksOff(c)
      PROVE  Content!ContentInv'
  <2>1. /\ v4' = [v4 EXCEPT ![c] = Content!Idle] /\ v9 < MaxFaults /\ v9' = v9 + 1
        /\ UNCHANGED <<v1, v2, v3, v5, v6, v7, v8>>
    BY <1>6 DEF Content!BreaksOff, Content!Answered
  <2>2. v4' \in [B -> {Content!Idle} \cup EntryCalls] BY <1>1, <2>1, RequestGoes
  <2>3. v9' \in 0 .. MaxFaults BY <1>1, <2>1
  <2>4. Content!AnonymousIsNobodys'
    BY <1>1, <2>1 DEF Content!AnonymousIsNobodys, Content!There, Content!OwnerOf
  <2>. QED BY <1>1, <2>1, <2>2, <2>3, <2>4, EntryHolds
<1>7. CASE Content!Remove
  <2>1. v2' = none /\ v8 < MaxRequested /\ v8' = v8 + 1 /\ UNCHANGED <<v1, v3, v4, v5, v6, v7, v9>>
    BY <1>7 DEF Content!Remove
  <2>2. Content!AnonymousIsNobodys' BY <2>1 DEF Content!AnonymousIsNobodys, Content!There
  <2>. QED BY <1>1, <2>1, <2>2, OneMoreRequest, EntryHolds
<1>. QED
  BY <1>3, <1>4, <1>5, <1>6, <1>7 DEF Content!Next, Content!FetchPost, Content!UpdateResource,
   Content!FindResource, Content!FindDownload, Content!CountDownload, Content!AnswerDownload,
   Content!FindUsers, Content!AddCompleted, Content!NotifyCompleted, Content!FindChapter,
   Content!CreateChapter, Content!PostChanges, Content!CreateFromUrl, Content!RemoveChapter,
   Content!Begin, Content!At, Content!Users

(* Resources. *)

\* Every request is about a copy there was.
Past(resource, f, n) ==
    /\ resource # none => resource.copy <= n
    /\ \A c \in B : f[c].stage # "idle" => f[c].arg < n

LEMMA ResourceHolds ==
    ASSUME v1' = "resource", v2' \in Content!Resources \cup {none},
           v4' \in [B -> {Content!Idle} \cup ResourceCalls],
           v3' \in Nat, v7' \in Nat, v5' \in BOOLEAN, v6' \in [A -> Nat],
           v8' \in 0 .. MaxRequested, v9' \in 0 .. MaxFaults,
           v2' # none => Exact(v2', v7', v4', v9'), Past(v2', v4', v8')
    PROVE  Content!ContentInv'
<1>1. Content!TypeOK' BY ContentIsTyped
<1>2. /\ Content!AnonymousIsNobodys' /\ Content!CompletedAreToldOnce'
      /\ Content!NotifiedAreCompleted' /\ Content!ChapterIsThere'
  BY DEF Content!AnonymousIsNobodys, Content!CompletedAreToldOnce, Content!NotifiedAreCompleted,
   Content!ChapterIsThere
<1>3. Content!DownloadsAreCounted' BY NextDownloadsAreExact
<1>4. Content!CopiesAreNew' BY DEF Content!CopiesAreNew, Content!There, Past
<1>. QED BY <1>1, <1>2, <1>3, <1>4 DEF Content!ContentInv, Content!ContentIsTrue

LEMMA ResourceKept ==
    ASSUME Content!ContentInv, v1 = "resource", Content!Next
    PROVE  Content!ContentInv'
<1>1. /\ Content!TypeOK
      /\ v2 \in Content!Resources \cup {none} /\ v4 \in [B -> {Content!Idle} \cup ResourceCalls]
      /\ v3 \in Nat /\ v7 \in Nat /\ v5 \in BOOLEAN /\ v6 \in [A -> Nat]
      /\ v8 \in 0 .. MaxRequested /\ v9 \in 0 .. MaxFaults
      /\ MaxRequested \in Nat /\ MaxFaults \in Nat
  BY ContentTypes DEF Content!ContentInv
<1>0. (v2 # none => Exact(v2, v7, v4, v9)) /\ Past(v2, v4, v8)
  <2>1. Content!DownloadsAreCounted /\ Content!CopiesAreNew
    BY DEF Content!ContentInv, Content!ContentIsTrue
  <2>2. Past(v2, v4, v8) BY <2>1 DEF Content!CopiesAreNew, Content!There, Past
  <2>. QED BY <2>1, <2>2, DownloadsAreExact
<1>2. \A c \in B : v4[c].stage = "idle" \/ v4[c] \in ResourceCalls BY <1>1 DEF Content!Idle
<1>3. \A c \in B : v4[c].stage \in {"read", "fetched", "counted", "notify"} =>
        /\ v4[c] \in ResourceCalls /\ v4[c].op \in {"refresh", "download"}
        /\ v4[c].stage \in {"read", "fetched", "counted"} /\ v4[c].arg \in Nat
        /\ v4[c].read \in Nat
  BY <1>2 DEF ResourceCalls
<1>i. Content!Idle.stage = "idle" BY DEF Content!Idle
\* A request goes on that is neither counted before nor after.
<1>s. ASSUME NEW c \in B, NEW x \in {Content!Idle} \cup ResourceCalls, v4' = [v4 EXCEPT ![c] = x],
             v4[c].stage # "counted", x.stage # "counted",
             x.stage # "idle" => x.arg < v8', v8 <= v8', v8' \in Nat,
             v2' # none => v2 # none /\ v2'.copy = v2.copy /\ v2'.downloads = v2.downloads,
             UNCHANGED <<v7, v9>>
      PROVE  /\ v4' \in [B -> {Content!Idle} \cup ResourceCalls]
             /\ v2' # none => Exact(v2', v7', v4', v9')
             /\ Past(v2', v4', v8')
  <2>1. v4' \in [B -> {Content!Idle} \cup ResourceCalls] /\ v4'[c] = x
        /\ \A d \in B : d # c => v4'[d] = v4[d]
    BY <1>1, <1>s, RequestGoes
  <2>2. v2' # none => Exact(v2', v7', v4', v9')
    <3>. SUFFICES ASSUME v2' # none
                  PROVE  Exact(v2', v7', v4', v9')
      OBVIOUS
    <3>1. PICK k : k = v2.copy OBVIOUS
    <3>2. c \notin Pending(k, v4) /\ c \notin Pending(k, v4') BY <1>s, <2>1 DEF Pending
    <3>3. Cardinality(Pending(k, v4')) = Cardinality(Pending(k, v4))
      BY <2>1, <3>2, PendingChange
    <3>4. Exact(v2, v7, v4, v9) BY <1>0, <1>s
    <3>5. v2'.copy = k /\ v2'.downloads = v2.downloads /\ v7' = v7 /\ v9' = v9 BY <1>s, <3>1
    <3>. QED BY <3>1, <3>3, <3>4, <3>5 DEF Exact
  <2>3. Past(v2', v4', v8')
    <3>1. v8 \in Nat /\ v8 <= v8' BY <1>1, <1>s
    <3>2. \A d \in B : v4[d].stage # "idle" => v4[d].arg \in Nat /\ v4[d].arg < v8
      BY <1>0, <1>2 DEF Past, ResourceCalls
    <3>3. \A d \in B : v4'[d].stage # "idle" => v4'[d].arg < v8'
      <4>. TAKE d \in B
      <4>1. CASE d = c BY <1>s, <2>1, <4>1
      <4>2. CASE d # c BY <1>s, <2>1, <3>1, <3>2, <4>2
      <4>. QED BY <4>1, <4>2
    <3>4. v2' # none => v2'.copy <= v8'
      <4>. SUFFICES ASSUME v2' # none
                    PROVE  v2'.copy <= v8'
        OBVIOUS
      <4>1. v2 # none /\ v2'.copy = v2.copy BY <1>s
      <4>2. v2.copy \in Nat /\ v2.copy <= v8 BY <1>0, <1>1, <4>1 DEF Past, Content!Resources
      <4>. QED BY <1>s, <3>1, <4>1, <4>2
    <3>. QED BY <3>3, <3>4 DEF Past
  <2>. QED BY <2>1, <2>2, <2>3
<1>4. ASSUME NEW c \in B, Content!FindResource(c) \/ Content!FindDownload(c)
      PROVE  Content!ContentInv'
  <2>0. v2 \in Content!Resources /\ v2 # none
    BY <1>1, <1>4 DEF Content!FindResource, Content!FindDownload, Content!There
  <2>1. PICK x \in ResourceCalls :
          v4' = [v4 EXCEPT ![c] = x] /\ x.stage = "read" /\ x.arg = v2.copy
    <3>1. /\ [op |-> "refresh", stage |-> "read", arg |-> v2.copy, read |-> v2.version]
               \in ResourceCalls
          /\ [op |-> "download", stage |-> "read", arg |-> v2.copy, read |-> v2.downloads]
               \in ResourceCalls
      BY <2>0 DEF Content!Resources, ResourceCalls
    <3>. QED BY <1>4, <3>1 DEF Content!FindResource, Content!FindDownload, Content!Begin
  <2>2. /\ v8 < MaxRequested /\ v8' = v8 + 1 /\ v4[c].stage = "idle"
        /\ UNCHANGED <<v1, v2, v3, v5, v6, v7, v9>>
    BY <1>4 DEF Content!FindResource, Content!FindDownload, Content!Begin
  <2>3. v2.copy < v8' /\ v8 <= v8' /\ v8' \in Nat
    <3>1. v2.copy \in Nat /\ v2.copy <= v8 BY <1>0, <2>0 DEF Past, Content!Resources
    <3>. QED BY <1>1, <2>2, <3>1
  <2>4. /\ v4' \in [B -> {Content!Idle} \cup ResourceCalls]
        /\ v2' # none => Exact(v2', v7', v4', v9')
        /\ Past(v2', v4', v8')
    BY <1>s, <2>1, <2>2, <2>3
  <2>. QED BY <1>1, <2>2, <2>4, OneMoreRequest, ResourceHolds
<1>5. ASSUME NEW c \in B, Content!FetchPost(c)
      PROVE  Content!ContentInv'
  <2>. DEFINE x == [v4[c] EXCEPT !.stage = "fetched", !.read = v3]
  <2>1. /\ v4' = [v4 EXCEPT ![c] = x] /\ v4[c].op = "refresh" /\ v4[c].stage = "read"
        /\ UNCHANGED <<v1, v2, v3, v5, v6, v7, v8, v9>>
    BY <1>1, <1>5 DEF Content!FetchPost, Content!At
  <2>2. x \in ResourceCalls /\ x.stage = "fetched" /\ x.arg = v4[c].arg
    BY <1>1, <1>3, <2>1 DEF ResourceCalls
  <2>. HIDE DEF x
  <2>3. x.arg < v8' /\ v8' \in Nat /\ v8 <= v8' BY <1>0, <1>1, <2>1, <2>2 DEF Past
  <2>4. /\ v4' \in [B -> {Content!Idle} \cup ResourceCalls]
        /\ v2' # none => Exact(v2', v7', v4', v9')
        /\ Past(v2', v4', v8')
    BY <1>s, <2>1, <2>2, <2>3
  <2>. QED BY <1>1, <2>1, <2>4, ResourceHolds
<1>6. ASSUME NEW c \in B, Content!UpdateResource(c)
      PROVE  Content!ContentInv'
  <2>. DEFINE same == v2 # none /\ v2.copy = v4[c].arg
  <2>1. /\ v4[c].stage = "fetched" /\ v4' = [v4 EXCEPT ![c] = Content!Idle]
        /\ v2' = IF same THEN [v2 EXCEPT !.version = v4[c].read] ELSE v2
        /\ v5' = (v5 \/ (same /\ v2.version > v4[c].read))
        /\ UNCHANGED <<v1, v3, v6, v7, v8, v9>>
    BY <1>6 DEF Content!UpdateResource, Content!Answered, Content!There
  <2>2. v5' \in BOOLEAN BY <2>1
  <2>3. v4[c].read \in Nat BY <1>3, <2>1
  <2>4. /\ v2' \in Content!Resources \cup {none}
        /\ v2' # none => v2 # none /\ v2'.copy = v2.copy /\ v2'.downloads = v2.downloads
    BY <1>1, <2>1, <2>3 DEF Content!Resources
  <2>5. v8' \in Nat /\ v8 <= v8' BY <1>1, <2>1
  <2>6. /\ v4' \in [B -> {Content!Idle} \cup ResourceCalls]
        /\ v2' # none => Exact(v2', v7', v4', v9')
        /\ Past(v2', v4', v8')
    BY <1>i, <1>s, <2>1, <2>4, <2>5
  <2>. QED BY <1>1, <2>1, <2>2, <2>4, <2>6, ResourceHolds
<1>7. ASSUME NEW c \in B, Content!CountDownload(c)
      PROVE  Content!ContentInv'
  <2>0. v4[c].op = "download" /\ v4[c].stage = "read" /\ UNCHANGED <<v1, v3, v5, v6, v7, v8, v9>>
    BY <1>7 DEF Content!CountDownload, Content!At
  <2>1. CASE v2 # none /\ v2.copy = v4[c].arg
    <3>. DEFINE x == [v4[c] EXCEPT !.stage = "counted"]
    <3>1. v4' = [v4 EXCEPT ![c] = x] /\ v2' = [v2 EXCEPT !.downloads = @ + 1]
      BY <1>1, <1>7, <2>1 DEF Content!CountDownload, Content!There
    <3>2. x \in ResourceCalls /\ x.op = "download" /\ x.stage = "counted" /\ x.arg = v2.copy
      BY <1>3, <2>0, <2>1 DEF ResourceCalls
    <3>. HIDE DEF x
    <3>3. v4' \in [B -> {Content!Idle} \cup ResourceCalls] /\ v4'[c] = x
          /\ \A d \in B : d # c => v4'[d] = v4[d]
      BY <1>1, <3>1, <3>2, RequestGoes
    <3>4. /\ v2 \in Content!Resources /\ v2' \in Content!Resources /\ v2'.copy = v2.copy
          /\ v2'.downloads = v2.downloads + 1 /\ v2.downloads \in Nat
      BY <1>1, <2>1, <3>1 DEF Content!Resources
    <3>5. Exact(v2', v7', v4', v9')
      <4>1. PICK k : k = v2.copy OBVIOUS
      <4>2. c \notin Pending(k, v4) /\ c \in Pending(k, v4')
        BY <2>0, <3>2, <3>3, <4>1 DEF Pending
      <4>3. Cardinality(Pending(k, v4')) = Cardinality(Pending(k, v4)) + 1
        BY <3>3, <4>2, PendingChange
      <4>4. Exact(v2, v7, v4, v9) BY <1>0, <2>1
      <4>5. PICK n \in Nat : n = Cardinality(Pending(k, v4)) BY PendingAreFew
      <4>6. v7 + n <= v2.downloads /\ v2.downloads <= (v7 + n) + v9
        BY <4>1, <4>4, <4>5 DEF Exact
      <4>7. v7 + (n + 1) <= v2.downloads + 1 /\ v2.downloads + 1 <= (v7 + (n + 1)) + v9
        BY <1>1, <3>4, <4>6
      <4>. QED BY <2>0, <3>4, <4>1, <4>3, <4>5, <4>7 DEF Exact
    <3>6. Past(v2', v4', v8')
      <4>1. v4[c].arg < v8 BY <1>0, <2>0 DEF Past
      <4>. QED BY <1>0, <2>0, <2>1, <3>2, <3>3, <3>4, <4>1 DEF Past
    <3>. QED BY <1>1, <2>0, <3>3, <3>4, <3>5, <3>6, ResourceHolds
  <2>2. CASE ~(v2 # none /\ v2.copy = v4[c].arg)
    <3>1. v4' = [v4 EXCEPT ![c] = Content!Idle] /\ v2' = v2
      BY <1>7, <2>2 DEF Content!CountDownload, Content!There, Content!Answered
    <3>2. v8' \in Nat /\ v8 <= v8' BY <1>1, <2>0
    <3>3. /\ v4' \in [B -> {Content!Idle} \cup ResourceCalls]
          /\ v2' # none => Exact(v2', v7', v4', v9')
          /\ Past(v2', v4', v8')
      BY <1>i, <1>s, <2>0, <3>1, <3>2
    <3>. QED BY <1>1, <2>0, <3>1, <3>3, ResourceHolds
  <2>. QED BY <2>1, <2>2
\* A request is answered or breaks off.
<1>8. ASSUME NEW c \in B, Content!AnswerDownload(c) \/ Content!BreaksOff(c)
      PROVE  Content!ContentInv'
  <2>1. /\ v4' = [v4 EXCEPT ![c] = Content!Idle] /\ UNCHANGED <<v1, v2, v3, v5, v6, v8>>
        /\ \/ /\ v4[c].op = "download" /\ v4[c].stage = "counted" /\ v9' = v9
              /\ v7' = IF v2 # none /\ v2.copy = v4[c].arg THEN v7 + 1 ELSE v7
           \/ v9 < MaxFaults /\ v9' = v9 + 1 /\ v7' = v7
    BY <1>8 DEF Content!AnswerDownload, Content!BreaksOff, Content!Answered, Content!There
  <2>2. v4' \in [B -> {Content!Idle} \cup ResourceCalls] /\ v4'[c] = Content!Idle
        /\ \A d \in B : d # c => v4'[d] = v4[d]
    BY <1>1, <2>1, RequestGoes
  <2>3. v9' \in 0 .. MaxFaults /\ v7' \in Nat BY <1>1, <2>1
  <2>4. v2' # none => Exact(v2', v7', v4', v9')
    <3>. SUFFICES ASSUME v2 # none
                  PROVE  Exact(v2, v7', v4', v9')
      BY <2>1
    <3>1. PICK k, d : k = v2.copy /\ d = v2.downloads OBVIOUS
    <3>2. PICK n \in Nat : n = Cardinality(Pending(k, v4)) BY PendingAreFew
    <3>3. PICK n2 \in Nat : n2 = Cardinality(Pending(k, v4')) BY PendingAreFew
    <3>4. d \in Nat /\ v7 + n <= d /\ d <= (v7 + n) + v9
      BY <1>0, <1>1, <3>1, <3>2 DEF Exact, Content!Resources
    <3>5. c \notin Pending(k, v4') BY <1>i, <2>2 DEF Pending
    <3>6. /\ c \in Pending(k, v4) => n = n2 + 1
          /\ c \notin Pending(k, v4) => n = n2
      BY <2>2, <3>2, <3>3, <3>5, PendingChange
    <3>7. v7' + n2 <= d /\ d <= (v7' + n2) + v9'
      <4>1. CASE /\ v4[c].op = "download" /\ v4[c].stage = "counted" /\ v9' = v9
                 /\ v7' = IF v2 # none /\ v2.copy = v4[c].arg THEN v7 + 1 ELSE v7
        <5>1. c \in Pending(k, v4) <=> v4[c].arg = k BY <4>1 DEF Pending
        <5>2. CASE v4[c].arg = k
          <6>1. n = n2 + 1 /\ v7' = v7 + 1 BY <3>1, <3>6, <4>1, <5>1, <5>2
          <6>. QED BY <1>1, <3>4, <4>1, <6>1
        <5>3. CASE v4[c].arg # k
          <6>1. n = n2 /\ v7' = v7 BY <3>1, <3>6, <4>1, <5>1, <5>3
          <6>. QED BY <1>1, <3>4, <4>1, <6>1
        <5>. QED BY <5>2, <5>3
      <4>2. CASE v9' = v9 + 1 /\ v7' = v7
        <5>1. n = n2 \/ n = n2 + 1 BY <3>6
        <5>. QED BY <1>1, <3>4, <4>2, <5>1
      <4>. QED BY <2>1, <4>1, <4>2
    <3>. QED BY <3>1, <3>3, <3>7 DEF Exact
  <2>5. Past(v2', v4', v8') BY <1>0, <1>i, <2>1, <2>2 DEF Past
  <2>. QED BY <1>1, <2>1, <2>2, <2>3, <2>4, <2>5, ResourceHolds
<1>9. CASE Content!Remove \/ Content!PostChanges
  <2>1. /\ v8 < MaxRequested /\ v8' = v8 + 1 /\ UNCHANGED <<v1, v4, v5, v6, v7, v9>>
        /\ v2' = none \/ v2' = v2
        /\ v3' = v3 \/ v3' = v3 + 1
    BY <1>9 DEF Content!Remove, Content!PostChanges
  <2>2. v3' \in Nat /\ v2' \in Content!Resources \cup {none} BY <1>1, <2>1
  <2>3. v2' # none => Exact(v2', v7', v4', v9') BY <1>0, <2>1
  <2>4. Past(v2', v4', v8')
    <3>1. \A c \in B : v4[c].stage # "idle" => v4[c].arg \in Nat /\ v4[c].arg < v8
      BY <1>0, <1>2 DEF Past, ResourceCalls
    <3>2. v2 # none => v2.copy \in Nat /\ v2.copy <= v8
      BY <1>0, <1>1 DEF Past, Content!Resources
    <3>. QED BY <1>1, <2>1, <3>1, <3>2 DEF Past
  <2>. QED BY <1>1, <2>1, <2>2, <2>3, <2>4, OneMoreRequest, ResourceHolds
<1>10. CASE Content!CreateFromUrl(v8)
  <2>1. /\ v2' = Content!Resource(v8, v3) /\ v7' = 0 /\ v5' = FALSE
        /\ UNCHANGED <<v1, v3, v4, v6, v8, v9>>
    BY <1>10 DEF Content!CreateFromUrl
  <2>2. v2' \in Content!Resources /\ v2'.downloads = 0 /\ v2'.copy = v8
    BY <1>1, <2>1 DEF Content!Resource, Content!Resources
  <2>3. Exact(v2', v7', v4', v9')
    <3>1. \A c \in B : v4[c].stage = "counted" => v4[c].arg \in Nat /\ v4[c].arg < v8
      BY <1>0, <1>3 DEF Past
    <3>2. Pending(v8, v4) = {} BY <1>1, <3>1 DEF Pending
    <3>3. Cardinality(Pending(v8, v4)) = 0 BY <3>2, FS_EmptySet
    <3>. QED BY <1>1, <2>1, <2>2, <3>3 DEF Exact
  <2>4. Past(v2', v4', v8') BY <1>0, <1>1, <2>1, <2>2 DEF Past
  <2>5. v5' \in BOOLEAN /\ v7' \in Nat BY <2>1
  <2>. QED BY <1>1, <2>1, <2>2, <2>3, <2>4, <2>5, ResourceHolds
<1>. QED
  BY <1>3, <1>4, <1>5, <1>6, <1>7, <1>8, <1>9, <1>10 DEF Content!Next, Content!FindEntry,
   Content!UpdateEntry, Content!FindUsers, Content!AddCompleted, Content!NotifyCompleted,
   Content!FindChapter, Content!CreateChapter, Content!RemoveChapter, Content!Begin, Content!At

(* Trainings. *)

\* Who is on the list was told, or is about to be, unless a request broke off.
ToldOrTelling ==
    \A m \in A :
      /\ v6[m] <= 1
      /\ v2 # none /\ v6[m] = 1 => m \in v2.completed
      /\ v2 # none /\ m \in v2.completed =>
           \/ v6[m] = 1 \/ v9 > 0
           \/ \E c \in B : v4[c].stage = "notify" /\ m \in v4[c].arg

Notified == v2 # none => \A c \in B : v4[c].stage = "notify" => v4[c].arg \subseteq v2.completed

LEMMA TrainingHolds ==
    ASSUME v1' = "training", v2' \in Content!Trainings \cup {none},
           v4' \in [B -> {Content!Idle} \cup TrainingCalls],
           v3' \in Nat, v7' \in Nat, v5' \in BOOLEAN, v6' \in [A -> Nat],
           v8' \in 0 .. MaxRequested, v9' \in 0 .. MaxFaults,
           ToldOrTelling', Notified'
    PROVE  Content!ContentInv'
<1>1. Content!TypeOK' BY ContentIsTyped
<1>2. /\ Content!AnonymousIsNobodys' /\ Content!DownloadsAreCounted' /\ Content!CopiesAreNew'
      /\ Content!ChapterIsThere'
  BY DEF Content!AnonymousIsNobodys, Content!DownloadsAreCounted, Content!CopiesAreNew,
   Content!ChapterIsThere
<1>3. Content!CompletedAreToldOnce'
  BY DEF Content!CompletedAreToldOnce, Content!There, ToldOrTelling
<1>4. Content!NotifiedAreCompleted' BY DEF Content!NotifiedAreCompleted, Content!There, Notified
<1>. QED BY <1>1, <1>2, <1>3, <1>4 DEF Content!ContentInv, Content!ContentIsTrue

LEMMA TrainingKept ==
    ASSUME Content!ContentInv, v1 = "training", Content!Next
    PROVE  Content!ContentInv'
<1>1. /\ Content!TypeOK
      /\ v2 \in Content!Trainings \cup {none} /\ v4 \in [B -> {Content!Idle} \cup TrainingCalls]
      /\ v3 \in Nat /\ v7 \in Nat /\ v5 \in BOOLEAN /\ v6 \in [A -> Nat]
      /\ v8 \in 0 .. MaxRequested /\ v9 \in 0 .. MaxFaults
      /\ MaxRequested \in Nat /\ MaxFaults \in Nat
  BY ContentTypes DEF Content!ContentInv
<1>0. ToldOrTelling /\ Notified
  BY DEF Content!ContentInv, Content!ContentIsTrue, Content!CompletedAreToldOnce,
   Content!NotifiedAreCompleted, Content!There, ToldOrTelling, Notified
<1>2. \A c \in B : v4[c].stage = "idle" \/ v4[c] \in TrainingCalls BY <1>1 DEF Content!Idle
<1>3. \A c \in B : v4[c].stage \in {"read", "fetched", "counted", "notify"} =>
        /\ v4[c] \in TrainingCalls /\ v4[c].op = "complete"
        /\ v4[c].stage \in {"read", "notify"} /\ v4[c].arg \in SUBSET A
  BY <1>2 DEF TrainingCalls
<1>i. Content!Idle.stage = "idle" BY DEF Content!Idle
<1>4. ASSUME NEW c \in B, NEW users \in SUBSET A, Content!FindUsers(c, users)
      PROVE  Content!ContentInv'
  <2>. DEFINE x == [op |-> "complete", stage |-> "read", arg |-> users, read |-> none]
  <2>1. /\ v4' = [v4 EXCEPT ![c] = x] /\ v8 < MaxRequested /\ v8' = v8 + 1
        /\ v4[c].stage = "idle" /\ UNCHANGED <<v1, v2, v3, v5, v6, v7, v9>>
    BY <1>4 DEF Content!FindUsers, Content!Begin
  <2>2. x \in TrainingCalls /\ x.stage = "read" BY DEF TrainingCalls
  <2>. HIDE DEF x
  <2>3. /\ v4' \in [B -> {Content!Idle} \cup TrainingCalls] /\ v4'[c].stage = "read"
        /\ \A d \in B : d # c => v4'[d] = v4[d]
    BY <1>1, <2>1, <2>2, RequestGoes
  <2>4. ToldOrTelling' BY <1>0, <2>1, <2>3 DEF ToldOrTelling
  <2>5. Notified' BY <1>0, <2>1, <2>3 DEF Notified
  <2>. QED BY <1>1, <2>1, <2>3, <2>4, <2>5, OneMoreRequest, TrainingHolds
<1>5. ASSUME NEW c \in B, Content!AddCompleted(c)
      PROVE  Content!ContentInv'
  <2>. DEFINE x == [v4[c] EXCEPT !.stage = "notify"]
  <2>1. /\ v4[c].stage = "read" /\ v4' = [v4 EXCEPT ![c] = x]
        /\ v2' = IF v2 # none THEN [completed |-> v2.completed \cup v4[c].arg] ELSE none
        /\ UNCHANGED <<v1, v3, v5, v6, v7, v8, v9>>
    BY <1>1, <1>5 DEF Content!AddCompleted, Content!At, Content!There
  <2>2. x \in TrainingCalls /\ x.stage = "notify" /\ x.arg = v4[c].arg /\ v4[c].arg \in SUBSET A
    BY <1>1, <1>3, <2>1 DEF TrainingCalls
  <2>. HIDE DEF x
  <2>3. /\ v4' \in [B -> {Content!Idle} \cup TrainingCalls] /\ v4'[c].stage = "notify"
        /\ v4'[c].arg = v4[c].arg /\ \A d \in B : d # c => v4'[d] = v4[d]
    BY <1>1, <2>1, <2>2, RequestGoes
  <2>4. /\ v2' \in Content!Trainings \cup {none}
        /\ v2' # none => v2 # none /\ v2'.completed = v2.completed \cup v4[c].arg
    BY <1>1, <2>1, <2>2 DEF Content!Trainings
  <2>5. ToldOrTelling' BY <1>0, <2>1, <2>3, <2>4 DEF ToldOrTelling
  <2>6. Notified' BY <1>0, <2>3, <2>4 DEF Notified
  <2>. QED BY <1>1, <2>1, <2>3, <2>4, <2>5, <2>6, TrainingHolds
<1>6. ASSUME NEW c \in B, Content!NotifyCompleted(c)
      PROVE  Content!ContentInv'
  <2>1. /\ v4[c].stage = "notify" /\ v4' = [v4 EXCEPT ![c] = Content!Idle]
        /\ v6' = [m \in A |-> IF m \in v4[c].arg /\ v6[m] = 0 THEN 1 ELSE v6[m]]
        /\ UNCHANGED <<v1, v2, v3, v5, v7, v8, v9>>
    BY <1>6 DEF Content!NotifyCompleted, Content!Answered
  <2>2. /\ v4' \in [B -> {Content!Idle} \cup TrainingCalls] /\ v4'[c].stage = "idle"
        /\ \A d \in B : d # c => v4'[d] = v4[d]
    BY <1>1, <1>i, <2>1, RequestGoes
  <2>3. v6' \in [A -> Nat] /\ \A m \in A : v6[m] \in Nat /\ v6[m] <= 1
    BY <1>0, <1>1, <2>1 DEF ToldOrTelling
  <2>4. \A m \in A : /\ v6'[m] <= 1
                     /\ v6[m] = 1 => v6'[m] = 1
                     /\ m \in v4[c].arg => v6'[m] = 1
                     /\ v6'[m] = 1 => v6[m] = 1 \/ m \in v4[c].arg
    BY <2>1, <2>3
  <2>5. ToldOrTelling'
    <3>1. v2 # none => v4[c].arg \subseteq v2.completed BY <1>0, <2>1 DEF Notified
    <3>. SUFFICES ASSUME NEW m \in A
                  PROVE  /\ v6'[m] <= 1
                         /\ v2' # none /\ v6'[m] = 1 => m \in v2'.completed
                         /\ v2' # none /\ m \in v2'.completed =>
                              \/ v6'[m] = 1 \/ v9' > 0
                              \/ \E d \in B : v4'[d].stage = "notify" /\ m \in v4'[d].arg
      BY Zenon DEF ToldOrTelling
    <3>2. /\ v2 # none /\ v6[m] = 1 => m \in v2.completed
          /\ v2 # none /\ m \in v2.completed =>
               \/ v6[m] = 1 \/ v9 > 0
               \/ \E d \in B : v4[d].stage = "notify" /\ m \in v4[d].arg
      BY <1>0 DEF ToldOrTelling
    <3>. QED BY <2>1, <2>2, <2>4, <3>1, <3>2
  <2>6. Notified' BY <1>0, <2>1, <2>2 DEF Notified
  <2>. QED BY <1>1, <2>1, <2>2, <2>3, <2>5, <2>6, TrainingHolds
<1>7. ASSUME NEW c \in B, Content!BreaksOff(c)
      PROVE  Content!ContentInv'
  <2>1. /\ v4' = [v4 EXCEPT ![c] = Content!Idle] /\ v9 < MaxFaults /\ v9' = v9 + 1
        /\ UNCHANGED <<v1, v2, v3, v5, v6, v7, v8>>
    BY <1>7 DEF Content!BreaksOff, Content!Answered
  <2>2. /\ v4' \in [B -> {Content!Idle} \cup TrainingCalls] /\ v4'[c].stage = "idle"
        /\ \A d \in B : d # c => v4'[d] = v4[d]
    BY <1>1, <1>i, <2>1, RequestGoes
  <2>3. v9' \in 0 .. MaxFaults /\ v9' > 0 BY <1>1, <2>1
  <2>4. ToldOrTelling' BY <1>0, <2>1, <2>3 DEF ToldOrTelling
  <2>5. Notified' BY <1>0, <2>1, <2>2 DEF Notified
  <2>. QED BY <1>1, <2>1, <2>2, <2>3, <2>4, <2>5, TrainingHolds
<1>8. CASE Content!Remove
  <2>1. v2' = none /\ v8 < MaxRequested /\ v8' = v8 + 1 /\ UNCHANGED <<v1, v3, v4, v5, v6, v7, v9>>
    BY <1>8 DEF Content!Remove
  <2>2. ToldOrTelling' /\ Notified' BY <1>0, <2>1 DEF ToldOrTelling, Notified
  <2>. QED BY <1>1, <2>1, <2>2, OneMoreRequest, TrainingHolds
<1>. QED
  BY <1>3, <1>4, <1>5, <1>6, <1>7, <1>8 DEF Content!Next, Content!FindEntry, Content!UpdateEntry,
   Content!FindResource, Content!FetchPost, Content!UpdateResource, Content!FindDownload,
   Content!CountDownload, Content!AnswerDownload, Content!FindChapter, Content!CreateChapter,
   Content!PostChanges, Content!CreateFromUrl, Content!RemoveChapter, Content!Begin, Content!At

(* Chapters. *)

LEMMA ChapterKept ==
    ASSUME Content!ContentInv, v1 = "chapter", Content!Next
    PROVE  Content!ContentInv'
<1>1. /\ Content!TypeOK /\ v2 \in Content!Chapters
      /\ v4 \in [B -> {Content!Idle} \cup ChapterCalls]
      /\ v3 \in Nat /\ v7 \in Nat /\ v5 \in BOOLEAN /\ v6 \in [A -> Nat]
      /\ v8 \in 0 .. MaxRequested /\ v9 \in 0 .. MaxFaults
      /\ MaxRequested \in Nat /\ MaxFaults \in Nat
  BY ContentTypes DEF Content!ContentInv, Content!ChapterIsThere
<1>2. \A c \in B : v4[c].stage = "idle" \/ v4[c] \in ChapterCalls BY <1>1 DEF Content!Idle
<1>3. \A c \in B : v4[c].stage \in {"read", "fetched", "counted", "notify"} =>
        v4[c].op = "create" /\ v4[c].stage = "read"
  BY <1>2 DEF ChapterCalls
<1>4. ASSUME v1' = "chapter", v2' \in Content!Chapters,
             v4' \in [B -> {Content!Idle} \cup ChapterCalls], UNCHANGED <<v3, v5, v6, v7>>,
             v8' \in 0 .. MaxRequested, v9' \in 0 .. MaxFaults
      PROVE  Content!ContentInv'
  <2>1. Content!TypeOK' BY <1>1, <1>4, ContentIsTyped
  <2>2. /\ Content!AnonymousIsNobodys' /\ Content!DownloadsAreCounted'
        /\ Content!CompletedAreToldOnce' /\ Content!NotifiedAreCompleted'
        /\ Content!CopiesAreNew' /\ Content!ChapterIsThere'
    BY <1>4 DEF Content!AnonymousIsNobodys, Content!DownloadsAreCounted, Content!CopiesAreNew,
     Content!CompletedAreToldOnce, Content!NotifiedAreCompleted, Content!ChapterIsThere
  <2>. QED BY <2>1, <2>2 DEF Content!ContentInv, Content!ContentIsTrue
<1>5. ASSUME NEW c \in B, Content!FindChapter(c)
      PROVE  Content!ContentInv'
  <2>1. PICK x \in ChapterCalls : v4' = [v4 EXCEPT ![c] = x]
    BY <1>5 DEF Content!FindChapter, Content!Begin, ChapterCalls
  <2>2. v4' \in [B -> {Content!Idle} \cup ChapterCalls] BY <1>1, <2>1, RequestGoes
  <2>3. v8 < MaxRequested /\ v8' = v8 + 1 /\ UNCHANGED <<v1, v2, v3, v5, v6, v7, v9>>
    BY <1>5 DEF Content!FindChapter, Content!Begin
  <2>. QED BY <1>1, <1>4, <2>2, <2>3, OneMoreRequest
<1>6. ASSUME NEW c \in B, Content!CreateChapter(c) \/ Content!BreaksOff(c)
      PROVE  Content!ContentInv'
  <2>1. /\ v4' = [v4 EXCEPT ![c] = Content!Idle] /\ UNCHANGED <<v1, v3, v5, v6, v7, v8>>
        /\ v2' = v2 \/ v2' = [v2 EXCEPT !.chapters = @ + 1]
        /\ v9' = v9 \/ (v9 < MaxFaults /\ v9' = v9 + 1)
    BY <1>6 DEF Content!CreateChapter, Content!BreaksOff, Content!Answered
  <2>2. v4' \in [B -> {Content!Idle} \cup ChapterCalls] BY <1>1, <2>1, RequestGoes
  <2>3. v2' \in Content!Chapters /\ v9' \in 0 .. MaxFaults BY <1>1, <2>1 DEF Content!Chapters
  <2>. QED BY <1>1, <1>4, <2>1, <2>2, <2>3
<1>7. CASE Content!RemoveChapter
  <2>1. /\ v2.chapters > 0 /\ v2' = [v2 EXCEPT !.chapters = @ - 1]
        /\ v8 < MaxRequested /\ v8' = v8 + 1 /\ UNCHANGED <<v1, v3, v4, v5, v6, v7, v9>>
    BY <1>7 DEF Content!RemoveChapter
  <2>2. v2' \in Content!Chapters BY <1>1, <2>1 DEF Content!Chapters
  <2>. QED BY <1>1, <1>4, <2>1, <2>2, OneMoreRequest
<1>. QED
  BY <1>3, <1>5, <1>6, <1>7 DEF Content!Next, Content!FindEntry, Content!UpdateEntry,
   Content!FindResource, Content!FetchPost, Content!UpdateResource, Content!FindDownload,
   Content!CountDownload, Content!AnswerDownload, Content!FindUsers, Content!AddCompleted,
   Content!NotifyCompleted, Content!PostChanges, Content!CreateFromUrl, Content!Remove,
   Content!Begin, Content!At

LEMMA ContentGoesOn ==
    ASSUME Content!ContentInv, Content!Next \/ UNCHANGED ContentVars
    PROVE  Content!ContentInv'
<1>1. CASE Content!Next
  <2>1. v1 \in {"entry", "resource", "training", "chapter"}
    BY DEF Content!ContentInv, Content!TypeOK
  <2>. QED BY <1>1, <2>1, EntryKept, ResourceKept, TrainingKept, ChapterKept
<1>2. CASE UNCHANGED ContentVars
  <2>1. UNCHANGED <<v1, v2, v3, v4, v5, v6, v7, v8, v9>> BY <1>2 DEF ContentVars
  <2>2. Content!TypeOK /\ Content!AnonymousIsNobodys /\ Content!DownloadsAreCounted
        /\ Content!CompletedAreToldOnce /\ Content!NotifiedAreCompleted /\ Content!CopiesAreNew
        /\ Content!ChapterIsThere
    BY DEF Content!ContentInv, Content!ContentIsTrue
  <2>3. /\ Content!TypeOK' /\ Content!AnonymousIsNobodys' /\ Content!CopiesAreNew'
    BY <2>1, <2>2 DEF Content!TypeOK, Content!AnonymousIsNobodys, Content!There, Content!OwnerOf,
     Content!CopiesAreNew
  <2>5. Content!DownloadsAreCounted'
    BY <2>1, <2>2 DEF Content!DownloadsAreCounted, Content!There
  <2>4. /\ Content!CompletedAreToldOnce' /\ Content!NotifiedAreCompleted'
        /\ Content!ChapterIsThere'
    BY <2>1, <2>2 DEF Content!CompletedAreToldOnce, Content!There, Content!NotifiedAreCompleted,
     Content!ChapterIsThere
  <2>. QED BY <2>3, <2>4, <2>5 DEF Content!ContentInv, Content!ContentIsTrue
<1>. QED BY <1>1, <1>2

(* Invoices: invoice is v1, form v2, payment v3, given v4, outOfTurn v5,   *)
(* disturbed v6, edits v7, undone v8 and decided v9.                       *)

InvoicesVars == <<v1, v2, v3, v4, v5, v6, v7, v8, v9>>

Givens == [A -> [paid : Nat, history : Nat]]

LEMMA InvoicesCounts ==
    /\ IsFiniteSet(A) /\ IsFiniteSet(B) /\ MaxEdits \in Nat
    /\ Totals \subseteq Nat /\ Amounts \subseteq Nat
    /\ \A S : Invoices!Cardinality(S) = Cardinality(S)
<1>1. /\ Invoices!IsFiniteSet(A) /\ Invoices!IsFiniteSet(B) /\ MaxEdits \in Nat
      /\ Totals \subseteq Nat /\ Amounts \subseteq Nat
  BY InvoicesAssumed, Zenon DEF Invoices!InvoicesAssumption
<1>2. IsFiniteSet(A) /\ IsFiniteSet(B) BY <1>1 DEF Invoices!IsFiniteSet, IsFiniteSet
<1>3. \A S : Invoices!Cardinality(S) = Cardinality(S) BY Zenon DEF Invoices!Cardinality, Cardinality
<1>. QED BY <1>1, <1>2, <1>3

LEMMA NoInvoiceIsNone == Invoices!NoInvoice \notin Invoices!Records
BY DEF Invoices!NoInvoice, Invoices!Records, Invoices!Statuses

LEMMA InvoicesTypes ==
    ASSUME Invoices!TypeOK
    PROVE  /\ v1 \in [A -> Invoices!Records \cup {Invoices!NoInvoice}]
           /\ v2 \in [A -> 0 .. Cardinality(A)] /\ v3 \in [B -> Invoices!Readings]
           /\ v4 \in Givens /\ v5 \in BOOLEAN /\ v6 \in SUBSET A
           /\ v7 \in 0 .. MaxEdits /\ v8 \in SUBSET A /\ v9 \in SUBSET A
           /\ Invoices!Made \in SUBSET A /\ IsFiniteSet(Invoices!Made)
           /\ Cardinality(Invoices!Made) \in Nat /\ Cardinality(A) \in Nat
           /\ \A i \in A : i \in Invoices!Made <=> v1[i] \in Invoices!Records
           /\ \A i \in A : i \notin Invoices!Made <=> v1[i] = Invoices!NoInvoice
<1>1. /\ v1 \in [A -> Invoices!Records \cup {Invoices!NoInvoice}]
      /\ v2 \in [A -> 0 .. Cardinality(A)] /\ v3 \in [B -> Invoices!Readings]
      /\ v4 \in Givens /\ v5 \in BOOLEAN /\ v6 \in SUBSET A
      /\ v7 \in 0 .. MaxEdits /\ v8 \in SUBSET A /\ v9 \in SUBSET A
  BY InvoicesCounts DEF Invoices!TypeOK, Givens
<1>2. Invoices!Made \in SUBSET A BY DEF Invoices!Made
<1>3. /\ IsFiniteSet(Invoices!Made) /\ Cardinality(Invoices!Made) \in Nat
      /\ Cardinality(A) \in Nat
  BY <1>2, InvoicesCounts, FS_Subset, FS_CardinalityType
<1>. QED BY <1>1, <1>2, <1>3, NoInvoiceIsNone DEF Invoices!Made, Invoices!There

LEMMA InvoicesTyped ==
    ASSUME v1' \in [A -> Invoices!Records \cup {Invoices!NoInvoice}],
           v2' \in [A -> 0 .. Cardinality(A)], v3' \in [B -> Invoices!Readings],
           v4' \in Givens, v5' \in BOOLEAN, v6' \in SUBSET A,
           v7' \in 0 .. MaxEdits, v8' \in SUBSET A, v9' \in SUBSET A
    PROVE  Invoices!TypeOK'
BY InvoicesCounts DEF Invoices!TypeOK, Givens

(* The invariant of one invoice and of one payment that has read it.       *)

Balanced(x, g, d, u, e) ==
    /\ ~d => x.paid + g.history = g.paid + x.history
    /\ ~u => x.paid + g.history <= g.paid + x.history
    /\ e => (x.status = "paid" <=> x.paid >= x.total)

Same(r, x) ==
    /\ r.paid = x.paid /\ r.total = x.total /\ r.history = x.history
    /\ \/ x.status = r.status
       \/ x.status = "overdue" /\ r.status \in {"sent", "partially_paid"}

HasRead(r, late, x, g, u) ==
    /\ r \in Invoices!Records
    /\ late = "no" => Same(r, x)
    /\ late # "edit" => /\ r.history <= x.history
                        /\ ~u => r.paid + g.history <= g.paid + r.history

\* The invariant, in the words of this section.
NumbersHold ==
    /\ ~v5 => /\ \A i, j \in Invoices!Made : v1[i].number = v1[j].number => i = j
              /\ \A i \in Invoices!Made : v1[i].number <= Cardinality(Invoices!Made)
              /\ \A i \in A \ Invoices!Made : v2[i] # 0 => v2[i] = Cardinality(Invoices!Made) + 1
    /\ \A i \in A \ Invoices!Made : v2[i] <= Cardinality(Invoices!Made) + 1

SumsHold ==
    /\ \A i \in Invoices!Made : Balanced(v1[i], v4[i], i \in v6, i \in v8, i \in v9)
    /\ \A p \in B : v3[p].stage = "read" =>
         /\ v3[p].on \in Invoices!Made
         /\ HasRead(v3[p].read, v3[p].late, v1[v3[p].on], v4[v3[p].on], v3[p].on \in v8)
    /\ v8 \subseteq v6 /\ v9 \subseteq Invoices!Made

LEMMA InvoicesHold ==
    ASSUME Invoices!InvoicesInv
    PROVE  Invoices!TypeOK /\ NumbersHold /\ SumsHold
<1>1. Invoices!TypeOK /\ Invoices!NumbersAreTheirOwn /\ Invoices!SumsAreTrue
      /\ Invoices!NumbersAreNext /\ Invoices!ReadsAreTrue
      /\ v8 \subseteq v6 /\ v9 \subseteq Invoices!Made
  BY DEF Invoices!InvoicesInv, Invoices!InvoicesAreTrue
<1>2. Invoices!NextNumber = Cardinality(Invoices!Made) + 1 BY InvoicesCounts DEF Invoices!NextNumber
<1>3. NumbersHold
  <2>1. /\ ~v5 => \A i \in Invoices!Made : v1[i].number <= Cardinality(Invoices!Made)
        /\ \A i \in A \ Invoices!Made : v2[i] <= Cardinality(Invoices!Made) + 1
        /\ ~v5 => \A i \in A \ Invoices!Made : v2[i] # 0 => v2[i] = Cardinality(Invoices!Made) + 1
    BY <1>1, <1>2, InvoicesCounts DEF Invoices!NumbersAreNext
  <2>. QED BY <1>1, <2>1 DEF NumbersHold, Invoices!NumbersAreTheirOwn
<1>4. \A i \in Invoices!Made : Balanced(v1[i], v4[i], i \in v6, i \in v8, i \in v9)
  BY <1>1 DEF Invoices!SumsAreTrue, Balanced
<1>5. ASSUME NEW p \in B, v3[p].stage = "read"
      PROVE  /\ v3[p].on \in Invoices!Made
             /\ HasRead(v3[p].read, v3[p].late, v1[v3[p].on], v4[v3[p].on], v3[p].on \in v8)
  <2>1. v3[p].read \in Invoices!Records \cup {Invoices!NoInvoice}
    BY <1>1, <1>5, InvoicesTypes DEF Invoices!Readings
  <2>2. PICK i, r, late : i = v3[p].on /\ r = v3[p].read /\ late = v3[p].late OBVIOUS
  <2>3. /\ i \in Invoices!Made /\ r # Invoices!NoInvoice
        /\ late = "no" => Same(r, v1[i])
        /\ late # "edit" =>
             /\ r.history <= v1[i].history
             /\ i \notin v8 => r.paid + v4[i].history <= v4[i].paid + r.history
    BY <1>1, <1>5, <2>2 DEF Invoices!ReadsAreTrue, Same
  <2>4. HasRead(r, late, v1[i], v4[i], i \in v8) BY <2>1, <2>2, <2>3 DEF HasRead
  <2>. QED BY <2>2, <2>3, <2>4
<1>. QED BY <1>1, <1>3, <1>4, <1>5 DEF SumsHold

LEMMA NextInvoicesHold ==
    ASSUME Invoices!TypeOK', NumbersHold', SumsHold'
    PROVE  Invoices!InvoicesInv'
<1>1. Invoices!NextNumber' = Cardinality(Invoices!Made') + 1
  BY InvoicesCounts DEF Invoices!NextNumber
<1>2. Invoices!NumbersAreTheirOwn' /\ Invoices!NumbersAreNext'
  <2>1. Invoices!NumbersAreTheirOwn' BY DEF NumbersHold, Invoices!NumbersAreTheirOwn
  <2>2. Invoices!NumbersAreNext' BY <1>1, InvoicesCounts DEF NumbersHold, Invoices!NumbersAreNext
  <2>. QED BY <2>1, <2>2
<1>3. Invoices!SumsAreTrue' BY DEF SumsHold, Balanced, Invoices!SumsAreTrue
<1>4. Invoices!ReadsAreTrue'
  BY NoInvoiceIsNone DEF SumsHold, HasRead, Same, Invoices!ReadsAreTrue
<1>. QED
  BY <1>2, <1>3, <1>4 DEF SumsHold, Invoices!InvoicesInv, Invoices!InvoicesAreTrue

LEMMA InvoicesStart ==
    ASSUME Invoices!Init
    PROVE  Invoices!InvoicesInv
<1>1. /\ v1 = [i \in A |-> Invoices!NoInvoice] /\ v2 = [i \in A |-> 0]
      /\ v3 = [p \in B |-> Invoices!NoPayment] /\ v4 = [i \in A |-> [paid |-> 0, history |-> 0]]
      /\ v5 = FALSE /\ v6 = {} /\ v7 = 0 /\ v8 = {} /\ v9 = {}
  BY DEF Invoices!Init
<1>2. Invoices!NoPayment \in Invoices!Readings /\ Invoices!NoPayment.stage = "idle"
  BY DEF Invoices!NoPayment, Invoices!Readings
<1>3. Invoices!Made = {} BY <1>1 DEF Invoices!Made, Invoices!There
<1>4. Cardinality(A) \in Nat /\ Cardinality(Invoices!Made) = 0
  BY <1>3, InvoicesCounts, FS_CardinalityType, FS_EmptySet
<1>5. v2 \in [A -> 0 .. Cardinality(A)] BY <1>1, <1>4
<1>6. v4 \in Givens BY <1>1 DEF Givens
<1>7. Invoices!TypeOK
  <2>1. v1 \in [A -> Invoices!Records \cup {Invoices!NoInvoice}] BY <1>1
  <2>2. v3 \in [B -> Invoices!Readings] BY <1>1, <1>2
  <2>3. v6 \in SUBSET A /\ v8 \in SUBSET A /\ v9 \in SUBSET A BY <1>1
  <2>4. v5 \in BOOLEAN BY <1>1, Zenon
  <2>5. v7 \in 0 .. MaxEdits BY <1>1, InvoicesCounts
  <2>. QED
    BY <1>5, <1>6, <2>1, <2>2, <2>3, <2>4, <2>5, InvoicesCounts DEF Invoices!TypeOK, Givens
<1>8. Invoices!NextNumber = 1 BY <1>4, InvoicesCounts DEF Invoices!NextNumber
<1>9. Invoices!NumbersAreTheirOwn /\ Invoices!SumsAreTrue
  BY <1>3 DEF Invoices!NumbersAreTheirOwn, Invoices!SumsAreTrue
<1>10. Invoices!NumbersAreNext BY <1>1, <1>3, <1>8 DEF Invoices!NumbersAreNext
<1>11. Invoices!ReadsAreTrue BY <1>1, <1>2 DEF Invoices!ReadsAreTrue
<1>. QED
  BY <1>1, <1>7, <1>9, <1>10, <1>11 DEF Invoices!InvoicesInv, Invoices!InvoicesAreTrue

(* Numbers.  They are kept by what writes neither a number nor a form.     *)

LEMMA NumbersKept ==
    ASSUME NumbersHold, Invoices!Made \in SUBSET A, Invoices!Made' = Invoices!Made, v2' = v2,
           v5 => v5',
           ~v5' => \A i \in Invoices!Made : v1'[i].number = v1[i].number
    PROVE  NumbersHold'
<1>1. Cardinality(Invoices!Made') = Cardinality(Invoices!Made) OBVIOUS
<1>. QED BY <1>1 DEF NumbersHold

\* A form is opened.
LEMMA NumberGenerated ==
    ASSUME Invoices!TypeOK, NumbersHold, NEW i \in A, Invoices!GenerateInvoiceNumber(i)
    PROVE  v2' \in [A -> 0 .. Cardinality(A)] /\ NumbersHold'
<1>. DEFINE n == Cardinality(Invoices!Made)
<1>1. v2' = [v2 EXCEPT ![i] = n + 1] /\ i \notin Invoices!Made /\ UNCHANGED <<v1, v5>>
  BY InvoicesCounts DEF Invoices!GenerateInvoiceNumber, Invoices!NextNumber, Invoices!Made,
   Invoices!There
<1>2. n \in Nat /\ n + 1 <= Cardinality(A) /\ Cardinality(A) \in Nat
  <2>1. /\ Invoices!Made \cup {i} \in SUBSET A /\ IsFiniteSet(Invoices!Made) /\ n \in Nat
        /\ Cardinality(A) \in Nat
    BY InvoicesTypes
  <2>2. Cardinality(Invoices!Made \cup {i}) = n + 1 BY <1>1, <2>1, FS_AddElement
  <2>3. Cardinality(Invoices!Made \cup {i}) <= Cardinality(A) BY <2>1, InvoicesCounts, FS_Subset
  <2>. QED BY <2>1, <2>2, <2>3
<1>. HIDE DEF n
<1>3. v2' \in [A -> 0 .. Cardinality(A)] /\ v2'[i] = n + 1 /\ \A j \in A : j # i => v2'[j] = v2[j]
  BY <1>1, <1>2, InvoicesTypes
<1>4. Invoices!Made' = Invoices!Made /\ Cardinality(Invoices!Made) = n
      /\ Cardinality(Invoices!Made') = n
  BY <1>1 DEF Invoices!Made, Invoices!There, n
<1>5. /\ \A j \in A \ Invoices!Made : v2'[j] <= n + 1
      /\ ~v5 => \A j \in A \ Invoices!Made : v2'[j] # 0 => v2'[j] = n + 1
  <2>1. /\ \A j \in A \ Invoices!Made : v2[j] <= n + 1
        /\ ~v5 => \A j \in A \ Invoices!Made : v2[j] # 0 => v2[j] = n + 1
    BY <1>4 DEF NumbersHold
  <2>. QED BY <1>2, <1>3, <2>1
<1>. QED BY <1>1, <1>3, <1>4, <1>5 DEF NumbersHold

(* Sums.  They are kept where one invoice is written, with its balance,    *)
(* and those that have read it have read it still.                         *)

LEMMA SumsKept ==
    ASSUME SumsHold, NEW i \in A, Invoices!Made \in SUBSET A, Invoices!Made' = Invoices!Made \cup {i},
           \A j \in A \ {i} : v1'[j] = v1[j] /\ v4'[j] = v4[j],
           \A j \in A \ {i} : /\ j \in v6' <=> j \in v6
                              /\ j \in v8' <=> j \in v8
                              /\ j \in v9' => j \in v9,
           Balanced(v1'[i], v4'[i], i \in v6', i \in v8', i \in v9'),
           v6' \in SUBSET A, v8' \in SUBSET A, v9' \in SUBSET A, i \in v8' => i \in v6',
           \A p \in B : v3'[p].stage = "read" /\ v3'[p].on # i => v3'[p] = v3[p],
           \A p \in B : v3'[p].stage = "read" /\ v3'[p].on = i =>
             HasRead(v3'[p].read, v3'[p].late, v1'[i], v4'[i], i \in v8')
    PROVE  SumsHold'
<1>1. \A j \in Invoices!Made' : Balanced(v1'[j], v4'[j], j \in v6', j \in v8', j \in v9')
  <2>. TAKE j \in Invoices!Made'
  <2>1. CASE j = i BY <2>1
  <2>2. CASE j # i
    <3>1. j \in Invoices!Made /\ j \in A BY <2>2
    <3>2. Balanced(v1[j], v4[j], j \in v6, j \in v8, j \in v9) BY <3>1 DEF SumsHold
    <3>3. v1'[j] = v1[j] /\ v4'[j] = v4[j] /\ (j \in v6' <=> j \in v6) /\ (j \in v8' <=> j \in v8)
          /\ (j \in v9' => j \in v9)
      BY <2>2, <3>1
    <3>. QED BY <3>2, <3>3 DEF Balanced
  <2>. QED BY <2>1, <2>2
<1>2. ASSUME NEW p \in B, v3'[p].stage = "read"
      PROVE  /\ v3'[p].on \in Invoices!Made'
             /\ HasRead(v3'[p].read, v3'[p].late, v1'[v3'[p].on], v4'[v3'[p].on], v3'[p].on \in v8')
  <2>1. CASE v3'[p].on = i BY <1>2, <2>1
  <2>2. CASE v3'[p].on # i
    <3>1. v3'[p] = v3[p] BY <1>2, <2>2
    <3>2. PICK j : j = v3[p].on OBVIOUS
    <3>3. j \in Invoices!Made /\ HasRead(v3[p].read, v3[p].late, v1[j], v4[j], j \in v8)
      BY <1>2, <3>1, <3>2 DEF SumsHold
    <3>4. j \in A /\ j # i /\ v1'[j] = v1[j] /\ v4'[j] = v4[j] /\ (j \in v8' <=> j \in v8)
      BY <2>2, <3>1, <3>2, <3>3
    <3>. QED BY <3>1, <3>2, <3>3, <3>4 DEF HasRead
  <2>. QED BY <2>1, <2>2
<1>3. v8' \subseteq v6' BY DEF SumsHold
<1>4. v9' \subseteq Invoices!Made' BY DEF SumsHold
<1>. QED BY <1>1, <1>2, <1>3, <1>4 DEF SumsHold

\* Nothing but payments changes, each of which has read what stands or reads no more.
LEMMA SumsStay ==
    ASSUME SumsHold, UNCHANGED <<v1, v4, v6, v8, v9>>,
           \A p \in B : v3'[p].stage = "read" =>
             \/ v3'[p] = v3[p]
             \/ /\ v3'[p].on \in Invoices!Made /\ v3'[p].late = "no"
                /\ v3'[p].read = v1[v3'[p].on] /\ v1[v3'[p].on] \in Invoices!Records
    PROVE  SumsHold'
<1>1. Invoices!Made' = Invoices!Made BY DEF Invoices!Made, Invoices!There
<1>2. ASSUME NEW p \in B, v3'[p].stage = "read"
      PROVE  /\ v3'[p].on \in Invoices!Made
             /\ HasRead(v3'[p].read, v3'[p].late, v1[v3'[p].on], v4[v3'[p].on], v3'[p].on \in v8)
  <2>1. CASE v3'[p] = v3[p] BY <1>2, <2>1 DEF SumsHold
  <2>2. CASE /\ v3'[p].on \in Invoices!Made /\ v3'[p].late = "no"
             /\ v3'[p].read = v1[v3'[p].on] /\ v1[v3'[p].on] \in Invoices!Records
    <3>1. PICK i : i = v3'[p].on OBVIOUS
    <3>2. Balanced(v1[i], v4[i], i \in v6, i \in v8, i \in v9) BY <2>2, <3>1 DEF SumsHold
    <3>3. PICK x : x = v1[i] OBVIOUS
    <3>4. x.history \in Nat BY <2>2, <3>1, <3>3 DEF Invoices!Records
    <3>5. HasRead(x, "no", x, v4[i], i \in v8) BY <2>2, <3>1, <3>2, <3>3, <3>4 DEF Balanced, HasRead, Same
    <3>. QED BY <2>2, <3>1, <3>3, <3>5
  <2>. QED BY <1>2, <2>1, <2>2
<1>. QED BY <1>1, <1>2 DEF SumsHold

LEMMA InvoiceCreated ==
    ASSUME Invoices!TypeOK, NumbersHold, SumsHold, NEW i \in A, Invoices!Create(i)
    PROVE  Invoices!TypeOK' /\ NumbersHold' /\ SumsHold'
<1>. DEFINE n == Cardinality(Invoices!Made)
<1>1. PICK status \in Invoices!Statuses, number \in Invoices!Numbers, total \in Totals,
           paid \in Amounts \cup {0} :
         /\ (status \in {"draft", "sent"} /\ number = v2[i] /\ paid = 0) \/ v7 < MaxEdits
         /\ v7' = IF status \in {"draft", "sent"} /\ number = v2[i] /\ paid = 0 THEN v7 ELSE v7 + 1
         /\ v1' = [v1 EXCEPT ![i] = [status |-> status, number |-> number, total |-> total,
                                     paid |-> paid, history |-> 0, active |-> TRUE]]
         /\ v4' = [v4 EXCEPT ![i] = [paid |-> paid, history |-> 0]]
         /\ v5' = \/ v5 \/ number # v2[i]
                  \/ \E j \in A \ {i} : ~Invoices!There(j) /\ v2[j] # 0
         /\ v2' = [v2 EXCEPT ![i] = 0] /\ ~Invoices!There(i)
         /\ UNCHANGED <<v3, v6, v8, v9>>
  BY DEF Invoices!Create, Invoices!Marks
<1>. DEFINE x == [status |-> status, number |-> number, total |-> total, paid |-> paid,
                  history |-> 0, active |-> TRUE]
            g == [paid |-> paid, history |-> 0]
<1>2. /\ v1 \in [A -> Invoices!Records \cup {Invoices!NoInvoice}]
      /\ v2 \in [A -> 0 .. Cardinality(A)] /\ v3 \in [B -> Invoices!Readings] /\ v5 \in BOOLEAN
      /\ v4 \in Givens /\ v7 \in 0 .. MaxEdits
      /\ v6 \in SUBSET A /\ v8 \in SUBSET A /\ v9 \in SUBSET A
      /\ Invoices!Made \in SUBSET A /\ IsFiniteSet(Invoices!Made) /\ n \in Nat
      /\ Cardinality(A) \in Nat /\ MaxEdits \in Nat
  BY InvoicesTypes, InvoicesCounts
<1>3. total \in Nat /\ paid \in Nat /\ number \in 1 .. Cardinality(A)
  BY <1>1, InvoicesCounts DEF Invoices!Numbers
<1>4. /\ x \in Invoices!Records /\ g \in [paid : Nat, history : Nat]
      /\ x.number = number /\ x.paid = paid /\ x.history = 0 /\ g.paid = paid /\ g.history = 0
  BY <1>1, <1>3 DEF Invoices!Records
<1>5. v1' = [v1 EXCEPT ![i] = x] /\ v4' = [v4 EXCEPT ![i] = g] BY <1>1
<1>. HIDE DEF x, n, g
<1>6. i \notin Invoices!Made BY <1>1 DEF Invoices!Made
<1>7. /\ v1' \in [A -> Invoices!Records \cup {Invoices!NoInvoice}] /\ v1'[i] = x
      /\ \A j \in A : j # i => v1'[j] = v1[j]
  BY <1>2, <1>4, <1>5
<1>8. v4' \in Givens /\ v4'[i] = g /\ \A j \in A : j # i => v4'[j] = v4[j]
  BY <1>2, <1>4, <1>5 DEF Givens
<1>9. v2' \in [A -> 0 .. Cardinality(A)] /\ \A j \in A : j # i => v2'[j] = v2[j] BY <1>1, <1>2
<1>10. v7' \in 0 .. MaxEdits BY <1>1, <1>2
<1>11. v5' \in BOOLEAN /\ (v5' \/ (~v5 /\ number = v2[i] /\ \A j \in A \ {i} :
                                    j \notin Invoices!Made => v2[j] = 0))
  BY <1>1, <1>2 DEF Invoices!Made
<1>12. Invoices!TypeOK'
  <2>1. UNCHANGED <<v3, v6, v8, v9>> BY <1>1
  <2>. QED BY <1>2, <1>7, <1>8, <1>9, <1>10, <1>11, <2>1, InvoicesTyped
<1>13. Invoices!Made' = Invoices!Made \cup {i}
  <2>1. Invoices!Made' = {j \in A : v1'[j] # Invoices!NoInvoice}
    BY DEF Invoices!Made, Invoices!There
  <2>2. Invoices!Made = {j \in A : v1[j] # Invoices!NoInvoice} BY DEF Invoices!Made, Invoices!There
  <2>. QED BY <1>4, <1>7, <2>1, <2>2, NoInvoiceIsNone
<1>14. Cardinality(Invoices!Made) = n /\ Cardinality(Invoices!Made') = n + 1
  BY <1>2, <1>6, <1>13, FS_AddElement DEF n
<1>15. NumbersHold'
  <2>1. /\ \A j \in A \ Invoices!Made : v2[j] <= n + 1
        /\ ~v5 => /\ \A j, k \in Invoices!Made : v1[j].number = v1[k].number => j = k
                  /\ \A j \in Invoices!Made : v1[j].number <= n
                  /\ v2[i] # 0 => v2[i] = n + 1
    BY <1>6, <1>14 DEF NumbersHold
  <2>2. \A j \in A \ Invoices!Made' : v2'[j] <= n + 2 /\ j # i /\ j \notin Invoices!Made
    BY <1>2, <1>9, <1>13, <2>1
  <2>3. ASSUME ~v5'
        PROVE  /\ \A j \in Invoices!Made : v1'[j].number <= n /\ v1'[j].number = v1[j].number
               /\ v1'[i].number = n + 1 /\ ~v5
               /\ \A j \in A \ Invoices!Made' : v2'[j] = 0
    <3>1. ~v5 /\ number = v2[i] /\ \A j \in A \ {i} : j \notin Invoices!Made => v2[j] = 0
      BY <1>11, <2>3
    <3>2. number = n + 1 BY <1>3, <2>1, <3>1
    <3>3. \A j \in Invoices!Made : v1'[j] = v1[j] BY <1>2, <1>6, <1>7
    <3>4. v1'[i].number = n + 1 BY <1>4, <1>7, <3>2
    <3>5. \A j \in Invoices!Made : v1[j].number <= n BY <2>1, <3>1
    <3>. QED BY <1>9, <2>2, <3>1, <3>3, <3>4, <3>5
  <2>4. ~v5' => \A j \in Invoices!Made' : v1'[j].number <= n + 1
    <3>1. ASSUME ~v5', NEW j \in Invoices!Made'
          PROVE  v1'[j].number <= n + 1
      <4>1. CASE j = i BY <1>2, <2>3, <3>1, <4>1
      <4>2. CASE j # i
        <5>1. j \in Invoices!Made /\ v1'[j] = v1[j] BY <1>2, <1>7, <1>13, <4>2
        <5>2. v1[j] \in Invoices!Records BY <1>2, <5>1, InvoicesTypes
        <5>3. v1[j].number \in Nat BY <5>2 DEF Invoices!Records
        <5>. QED BY <1>2, <2>3, <3>1, <5>1, <5>3
      <4>. QED BY <4>1, <4>2
    <3>. QED BY <3>1
  <2>5. ~v5' => \A j, k \in Invoices!Made' : v1'[j].number = v1'[k].number => j = k
    <3>1. ASSUME ~v5', NEW j \in Invoices!Made', NEW k \in Invoices!Made',
                 v1'[j].number = v1'[k].number
          PROVE  j = k
      <4>1. CASE j = i /\ k # i BY <1>2, <1>13, <2>3, <3>1, <4>1
      <4>2. CASE j # i /\ k = i BY <1>2, <1>13, <2>3, <3>1, <4>2
      <4>3. CASE j # i /\ k # i BY <1>13, <2>1, <2>3, <3>1, <4>3
      <4>. QED BY <4>1, <4>2, <4>3
    <3>. QED BY <3>1
  <2>6. ~v5' => \A j \in A \ Invoices!Made' : v2'[j] # 0 => v2'[j] = Cardinality(Invoices!Made') + 1
    BY <2>3
  <2>7. (n + 1) + 1 = n + 2 BY <1>2
  <2>. QED BY <1>14, <2>2, <2>4, <2>5, <2>6, <2>7 DEF NumbersHold
<1>16. SumsHold'
  <2>1. \A p \in B : v3[p].stage = "read" => v3[p].on # i BY <1>6 DEF SumsHold
  <2>2. i \notin v9 /\ (i \in v8 => i \in v6) BY <1>6 DEF SumsHold
  <2>3. Balanced(v1'[i], v4'[i], i \in v6', i \in v8', i \in v9')
    BY <1>1, <1>3, <1>4, <1>7, <1>8, <2>2 DEF Balanced
  <2>4. UNCHANGED <<v3, v6, v8, v9>> BY <1>1
  <2>5. \A j \in A \ {i} : v1'[j] = v1[j] /\ v4'[j] = v4[j] BY <1>7, <1>8
  <2>6. v6' \in SUBSET A /\ v8' \in SUBSET A /\ v9' \in SUBSET A BY <1>2, <2>4
  <2>. HIDE DEF SumsHold
  <2>. QED BY <1>2, <1>13, <2>1, <2>2, <2>3, <2>4, <2>5, <2>6, SumsKept
<1>. QED BY <1>12, <1>15, <1>16

(* What a payment comes to: r was read, a is added, s is the status.       *)

LEMMA StatusFollows ==
    ASSUME NEW r \in Invoices!Records, NEW a \in Nat
    PROVE  /\ Invoices!StatusAfter(r, a) \in Invoices!Statuses
           /\ Invoices!Decides(r, a) =>
                /\ Invoices!StatusAfter(r, a) \in {"paid", "partially_paid"}
                /\ Invoices!StatusAfter(r, a) = "paid" <=> r.paid + a >= r.total
           /\ ~Invoices!Decides(r, a) => Invoices!StatusAfter(r, a) = r.status /\ a = 0
<1>1. r.paid \in Nat /\ r.total \in Nat /\ r.status \in Invoices!Statuses
  BY DEF Invoices!Records
<1>. QED BY <1>1 DEF Invoices!StatusAfter, Invoices!Decides, Invoices!Statuses

\* y is the invoice x after that payment.
AddsTo(x, y, r, a) ==
    /\ y.history = x.history + a
    /\ y.paid = IF a # 0 THEN r.paid + a ELSE x.paid
    /\ y.status = IF Invoices!StatusAfter(r, a) # r.status THEN Invoices!StatusAfter(r, a)
                  ELSE x.status
    /\ y.total = x.total

LEMMA PaymentBalances ==
    ASSUME NEW x \in Invoices!Records, NEW y, NEW r, NEW a \in Nat, NEW g,
           g.paid \in Nat, g.history \in Nat, NEW late \in {"no", "payment", "edit"},
           NEW i, NEW D, NEW U, NEW E, AddsTo(x, y, r, a),
           HasRead(r, late, x, g, i \in U), Balanced(x, g, i \in D, i \in U, i \in E)
    PROVE  /\ late = "no" /\ i \notin D => y.paid + g.history = g.paid + y.history
           /\ late # "edit" /\ i \notin U => y.paid + g.history <= g.paid + y.history
           /\ late = "no" /\ (Invoices!Decides(r, a) \/ i \in E) =>
                (y.status = "paid" <=> y.paid >= y.total)
<1>1. /\ r \in Invoices!Records /\ r.paid \in Nat /\ r.total \in Nat /\ r.history \in Nat
      /\ x.paid \in Nat /\ x.total \in Nat /\ x.history \in Nat
  BY DEF HasRead, Invoices!Records
<1>2. late = "no" => Same(r, x) BY DEF HasRead
<1>3. /\ y.history = x.history + a /\ y.total = x.total
      /\ y.paid = IF a # 0 THEN r.paid + a ELSE x.paid
      /\ y.status = IF Invoices!StatusAfter(r, a) # r.status THEN Invoices!StatusAfter(r, a)
                    ELSE x.status
  BY DEF AddsTo
<1>4. ASSUME late = "no", i \notin D
      PROVE  y.paid + g.history = g.paid + y.history
  <2>1. r.paid = x.paid /\ x.paid + g.history = g.paid + x.history
    BY <1>2, <1>4 DEF Same, Balanced
  <2>2. y.paid = x.paid + a BY <1>1, <1>3, <2>1
  <2>. QED BY <1>1, <1>3, <2>1, <2>2
<1>5. ASSUME late # "edit", i \notin U
      PROVE  y.paid + g.history <= g.paid + y.history
  <2>1. /\ r.history <= x.history /\ r.paid + g.history <= g.paid + r.history
        /\ x.paid + g.history <= g.paid + x.history
    BY <1>5 DEF HasRead, Balanced
  <2>2. CASE a # 0
    <3>1. y.paid = r.paid + a BY <1>3, <2>2
    <3>. QED BY <1>1, <1>3, <2>1, <3>1
  <2>3. CASE a = 0
    <3>1. y.paid = x.paid BY <1>3, <2>3
    <3>. QED BY <1>1, <1>3, <2>1, <2>3, <3>1
  <2>. QED BY <2>2, <2>3
<1>6. ASSUME late = "no", Invoices!Decides(r, a) \/ i \in E
      PROVE  y.status = "paid" <=> y.paid >= y.total
  <2>1. /\ r.paid = x.paid /\ r.total = x.total
        /\ \/ x.status = r.status
           \/ x.status = "overdue" /\ r.status \in {"sent", "partially_paid"}
    BY <1>2, <1>6 DEF Same
  <2>2. y.paid = r.paid + a /\ y.total = r.total BY <1>1, <1>3, <2>1
  <2>3. CASE Invoices!Decides(r, a)
    <3>1. PICK s : s = Invoices!StatusAfter(r, a) OBVIOUS
    <3>2. s \in {"paid", "partially_paid"} /\ (s = "paid" <=> r.paid + a >= r.total)
      BY <1>1, <2>3, <3>1, StatusFollows
    <3>3. y.status = IF s # r.status THEN s ELSE x.status BY <1>3, <3>1
    <3>4. y.status = "paid" <=> s = "paid" BY <2>1, <3>2, <3>3
    <3>. QED BY <2>2, <3>2, <3>4
  <2>4. CASE ~Invoices!Decides(r, a)
    <3>1. Invoices!StatusAfter(r, a) = r.status /\ a = 0 BY <1>1, <2>4, StatusFollows
    <3>2. y.status = x.status /\ y.paid = x.paid /\ y.total = x.total BY <1>3, <3>1
    <3>3. i \in E /\ (x.status = "paid" <=> x.paid >= x.total) BY <1>6, <2>4 DEF Balanced
    <3>. QED BY <3>2, <3>3
  <2>. QED BY <2>3, <2>4
<1>. QED BY <1>4, <1>5, <1>6

LEMMA PaymentRecorded ==
    ASSUME Invoices!TypeOK, NumbersHold, SumsHold, NEW p \in B, Invoices!RecordPayment(p)
    PROVE  Invoices!TypeOK' /\ NumbersHold' /\ SumsHold'
<1>a. PICK i, r, a, late : i = v3[p].on /\ r = v3[p].read /\ a = v3[p].amount /\ late = v3[p].late
  OBVIOUS
<1>b. PICK s : s = Invoices!StatusAfter(r, a) OBVIOUS
<1>1. /\ v1 \in [A -> Invoices!Records \cup {Invoices!NoInvoice}]
      /\ v3 \in [B -> Invoices!Readings] /\ v4 \in Givens
      /\ v2 \in [A -> 0 .. Cardinality(A)] /\ v5 \in BOOLEAN /\ v7 \in 0 .. MaxEdits
      /\ v6 \in SUBSET A /\ v8 \in SUBSET A /\ v9 \in SUBSET A /\ Invoices!Made \in SUBSET A
  BY InvoicesTypes
<1>2. /\ v3[p].stage = "read"
      /\ v1' = [v1 EXCEPT ![i].history = @ + a,
                          ![i].paid = IF a # 0 THEN r.paid + a ELSE @,
                          ![i].status = IF s # r.status THEN s ELSE @]
      /\ v3' = [q \in B |->
                  IF q = p THEN [Invoices!NoPayment EXCEPT !.stage = "done"]
                  ELSE IF v3[q].stage = "read" /\ v3[q].on = i /\ v3[q].late = "no"
                  THEN [v3[q] EXCEPT !.late = "payment"] ELSE v3[q]]
      /\ v6' = IF late # "no" THEN v6 \cup {i} ELSE v6
      /\ v8' = IF late = "edit" THEN v8 \cup {i} ELSE v8
      /\ v9' = IF late # "no" THEN v9 \ {i}
               ELSE IF Invoices!Decides(r, a) THEN v9 \cup {i} ELSE v9
      /\ UNCHANGED <<v2, v4, v5, v7>>
  BY <1>a, <1>b DEF Invoices!RecordPayment, Invoices!Reads
<1>3. /\ i \in Invoices!Made /\ i \in A /\ v1[i] \in Invoices!Records
      /\ HasRead(r, late, v1[i], v4[i], i \in v8)
      /\ Balanced(v1[i], v4[i], i \in v6, i \in v8, i \in v9) /\ (i \in v8 => i \in v6)
  <2>1. i \in Invoices!Made /\ HasRead(r, late, v1[i], v4[i], i \in v8)
    BY <1>2, <1>a DEF SumsHold
  <2>. QED BY <1>1, <2>1, InvoicesTypes DEF SumsHold
<1>4. r \in Invoices!Records /\ a \in Nat /\ late \in {"no", "payment", "edit"}
  BY <1>1, <1>3, <1>a DEF HasRead, Invoices!Readings
<1>5. s \in Invoices!Statuses BY <1>4, <1>b, StatusFollows
\* The invoice.
<1>. DEFINE x == v1[i]
            status == IF s # r.status THEN s ELSE x.status
            paid == IF a # 0 THEN r.paid + a ELSE x.paid
            y == [x EXCEPT !.history = @ + a, !.paid = paid, !.status = status]
<1>6. v1' = [v1 EXCEPT ![i] = y] BY <1>1, <1>2, <1>3
<1>7. /\ y \in Invoices!Records /\ y.history = x.history + a /\ y.paid = paid
      /\ y.status = status /\ y.total = x.total /\ y.number = x.number
  <2>1. x.history + a \in Nat /\ paid \in Nat BY <1>3, <1>4 DEF Invoices!Records
  <2>2. status \in Invoices!Statuses BY <1>3, <1>5 DEF Invoices!Records
  <2>3. PICK n \in Nat : n = x.history + a BY <2>1
  <2>4. y = [x EXCEPT !.history = n, !.paid = paid, !.status = status] BY <2>3
  <2>5. x \in Invoices!Records BY <1>3
  <2>. HIDE DEF status, paid, x, y
  <2>. QED BY <2>1, <2>2, <2>3, <2>4, <2>5 DEF Invoices!Records
<1>8. AddsTo(x, y, r, a) BY <1>7, <1>b DEF AddsTo
<1>. HIDE DEF y, x, paid, status
<1>9. /\ v1' \in [A -> Invoices!Records \cup {Invoices!NoInvoice}] /\ v1'[i] = y
      /\ \A j \in A : j # i => v1'[j] = v1[j]
  BY <1>1, <1>3, <1>6, <1>7
<1>10. Invoices!Made' = Invoices!Made
  <2>1. Invoices!Made' = {j \in A : v1'[j] # Invoices!NoInvoice}
    BY DEF Invoices!Made, Invoices!There
  <2>2. Invoices!Made = {j \in A : v1[j] # Invoices!NoInvoice} BY DEF Invoices!Made, Invoices!There
  <2>. QED BY <1>3, <1>7, <1>9, <2>1, <2>2, NoInvoiceIsNone
\* The payments.
<1>11. ASSUME NEW q \in B
       PROVE  /\ v3'[q] \in Invoices!Readings
              /\ v3'[q].stage = "read" =>
                   /\ v3[q].stage = "read" /\ v3'[q].on = v3[q].on /\ v3'[q].read = v3[q].read
                   /\ v3'[q] = v3[q] \/ v3[q].on = i
                   /\ v3[q].on = i => v3'[q].late = IF v3[q].late = "no" THEN "payment"
                                                    ELSE v3[q].late
  <2>0. v3[q] \in Invoices!Readings BY <1>1
  <2>1. CASE q = p
    <3>1. v3'[q] = [Invoices!NoPayment EXCEPT !.stage = "done"] BY <1>2, <2>1
    <3>2. v3'[q] \in Invoices!Readings /\ v3'[q].stage = "done"
      BY <3>1 DEF Invoices!Readings, Invoices!NoPayment
    <3>. QED BY <3>2
  <2>2. CASE q # p /\ v3[q].stage = "read" /\ v3[q].on = i /\ v3[q].late = "no"
    <3>1. v3'[q] = [v3[q] EXCEPT !.late = "payment"] BY <1>2, <2>2
    <3>. QED BY <2>0, <2>2, <3>1 DEF Invoices!Readings
  <2>3. CASE q # p /\ ~(v3[q].stage = "read" /\ v3[q].on = i /\ v3[q].late = "no")
    <3>1. v3'[q] = v3[q] BY <1>2, <2>3
    <3>. QED BY <2>0, <2>3, <3>1
  <2>. QED BY <2>1, <2>2, <2>3
<1>12. v3' \in [B -> Invoices!Readings]
  <2>1. \A q \in B : v3'[q] \in Invoices!Readings BY <1>11
  <2>2. PICK f : v3' = [q \in B |-> f[q]] BY <1>2
  <2>. QED BY <2>1, <2>2
<1>13. /\ v6' \in SUBSET A /\ v8' \in SUBSET A /\ v9' \in SUBSET A
       /\ i \in v6' <=> (late # "no" \/ i \in v6)
       /\ i \in v8' <=> (late = "edit" \/ i \in v8)
       /\ i \in v9' <=> (late = "no" /\ (Invoices!Decides(r, a) \/ i \in v9))
       /\ \A j \in A \ {i} : /\ j \in v6' <=> j \in v6
                             /\ j \in v8' <=> j \in v8
                             /\ j \in v9' <=> j \in v9
  BY <1>1, <1>2, <1>3
<1>14. Invoices!TypeOK' BY <1>1, <1>2, <1>9, <1>12, <1>13, InvoicesTyped
<1>15. NumbersHold'
  <2>1. \A j \in Invoices!Made : v1'[j].number = v1[j].number BY <1>1, <1>7, <1>9 DEF x
  <2>. QED BY <1>1, <1>2, <1>10, <2>1, NumbersKept
<1>16. v4[i].paid \in Nat /\ v4[i].history \in Nat /\ v4' = v4 BY <1>1, <1>2, <1>3 DEF Givens
<1>17. Balanced(v1'[i], v4'[i], i \in v6', i \in v8', i \in v9')
  <2>1. PICK g : g = v4[i] OBVIOUS
  <2>2. /\ x \in Invoices!Records /\ HasRead(r, late, x, g, i \in v8)
        /\ Balanced(x, g, i \in v6, i \in v8, i \in v9)
    BY <1>3, <2>1 DEF x
  <2>3. g.paid \in Nat /\ g.history \in Nat BY <1>16, <2>1
  <2>4. /\ late = "no" /\ i \notin v6 => y.paid + g.history = g.paid + y.history
        /\ late # "edit" /\ i \notin v8 => y.paid + g.history <= g.paid + y.history
        /\ late = "no" /\ (Invoices!Decides(r, a) \/ i \in v9) =>
             (y.status = "paid" <=> y.paid >= y.total)
    BY <1>4, <1>8, <2>2, <2>3, PaymentBalances
  <2>5. /\ i \notin v6' => y.paid + g.history = g.paid + y.history
        /\ i \notin v8' => y.paid + g.history <= g.paid + y.history
        /\ i \in v9' => (y.status = "paid" <=> y.paid >= y.total)
    BY <1>13, <2>4
  <2>6. Balanced(y, g, i \in v6', i \in v8', i \in v9') BY <2>5 DEF Balanced
  <2>7. v1'[i] = y /\ v4'[i] = g BY <1>9, <1>16, <2>1
  <2>. QED BY <2>6, <2>7, Zenon
<1>18. ASSUME NEW q \in B, v3'[q].stage = "read", v3'[q].on = i
       PROVE  HasRead(v3'[q].read, v3'[q].late, v1'[i], v4'[i], i \in v8')
  <2>1. PICK t, l : t = v3[q].read /\ l = v3[q].late OBVIOUS
  <2>2. /\ v3[q].stage = "read" /\ v3[q].on = i /\ v3'[q].read = t
        /\ v3'[q].late = IF l = "no" THEN "payment" ELSE l
    BY <1>11, <1>18, <2>1
  <2>3. HasRead(t, l, v1[i], v4[i], i \in v8) BY <2>1, <2>2 DEF SumsHold
  <2>4. /\ t \in Invoices!Records /\ t.history \in Nat /\ t.paid \in Nat
        /\ l # "edit" => /\ t.history <= v1[i].history
                         /\ i \notin v8 => t.paid + v4[i].history <= v4[i].paid + t.history
    BY <2>3 DEF HasRead, Invoices!Records
  <2>5. v1'[i].history = v1[i].history + a /\ v1[i].history \in Nat
    BY <1>3, <1>7, <1>9 DEF x, Invoices!Records
  <2>6. l # "edit" => t.history <= v1'[i].history BY <1>4, <2>4, <2>5
  <2>7. i \notin v8' => i \notin v8 BY <1>13
  <2>. QED BY <1>16, <2>2, <2>4, <2>6, <2>7 DEF HasRead
<1>19. SumsHold'
  <2>1. Invoices!Made' = Invoices!Made \cup {i} BY <1>3, <1>10
  <2>2. \A j \in A \ {i} : v1'[j] = v1[j] /\ v4'[j] = v4[j] BY <1>9, <1>16
  <2>3. \A j \in A \ {i} : /\ j \in v6' <=> j \in v6
                           /\ j \in v8' <=> j \in v8
                           /\ j \in v9' => j \in v9
    BY <1>13
  <2>4. i \in v8' => i \in v6' BY <1>3, <1>13
  <2>5. \A q \in B : v3'[q].stage = "read" /\ v3'[q].on # i => v3'[q] = v3[q] BY <1>11
  <2>6. v6' \in SUBSET A /\ v8' \in SUBSET A /\ v9' \in SUBSET A BY <1>13
  <2>7. Invoices!Made \in SUBSET A /\ i \in A BY <1>1, <1>3
  <2>8. \A q \in B : v3'[q].stage = "read" /\ v3'[q].on = i =>
          HasRead(v3'[q].read, v3'[q].late, v1'[i], v4'[i], i \in v8')
    BY <1>18
  <2>. QED BY <1>17, <2>1, <2>2, <2>3, <2>4, <2>5, <2>6, <2>7, <2>8, SumsKept
<1>. QED BY <1>14, <1>15, <1>19

LEMMA InvoiceEdited ==
    ASSUME Invoices!TypeOK, NumbersHold, SumsHold, NEW i \in A, Invoices!Update(i)
    PROVE  Invoices!TypeOK' /\ NumbersHold' /\ SumsHold'
<1>1. PICK status \in Invoices!Statuses, number \in Invoices!Numbers, total \in Totals,
           paid \in Amounts \cup {0} :
         /\ v1' = [v1 EXCEPT ![i].status = status, ![i].number = number,
                             ![i].total = total, ![i].paid = paid]
         /\ v4' = [v4 EXCEPT ![i] = [paid |-> paid, history |-> v1[i].history]]
         /\ v5' = (v5 \/ number # v1[i].number)
  BY DEF Invoices!Update
<1>2. /\ Invoices!There(i) /\ v7 < MaxEdits /\ v7' = v7 + 1
      /\ v3' = [p \in B |-> IF v3[p].stage = "read" /\ v3[p].on = i
                            THEN [v3[p] EXCEPT !.late = "edit"] ELSE v3[p]]
      /\ v6' = v6 \ {i} /\ v8' = v8 \ {i} /\ v9' = v9 \ {i} /\ UNCHANGED v2
  BY DEF Invoices!Update, Invoices!Reads
<1>3. /\ v1 \in [A -> Invoices!Records \cup {Invoices!NoInvoice}]
      /\ v2 \in [A -> 0 .. Cardinality(A)] /\ v3 \in [B -> Invoices!Readings] /\ v4 \in Givens
      /\ v5 \in BOOLEAN /\ v6 \in SUBSET A /\ v7 \in 0 .. MaxEdits
      /\ v8 \in SUBSET A /\ v9 \in SUBSET A /\ Invoices!Made \in SUBSET A /\ MaxEdits \in Nat
  BY InvoicesTypes, InvoicesCounts
<1>4. i \in Invoices!Made /\ v1[i] \in Invoices!Records
  BY <1>2, InvoicesTypes DEF Invoices!Made
<1>5. total \in Nat /\ paid \in Nat /\ number \in Nat
  <2>1. Cardinality(A) \in Nat BY InvoicesTypes
  <2>. QED BY <2>1, InvoicesCounts DEF Invoices!Numbers
<1>. DEFINE x == v1[i]
            y == [x EXCEPT !.status = status, !.number = number, !.total = total, !.paid = paid]
            g == [paid |-> paid, history |-> x.history]
<1>6. v1' = [v1 EXCEPT ![i] = y] /\ v4' = [v4 EXCEPT ![i] = g] BY <1>1, <1>3, <1>4
<1>7. /\ y \in Invoices!Records /\ y.number = number /\ y.paid = paid /\ y.history = x.history
      /\ x.history \in Nat /\ g \in [paid : Nat, history : Nat]
      /\ g.paid = paid /\ g.history = x.history
  <2>1. x \in Invoices!Records BY <1>4
  <2>. HIDE DEF x
  <2>2. y \in Invoices!Records BY <1>5, <2>1 DEF Invoices!Records
  <2>3. x.history \in Nat BY <2>1 DEF Invoices!Records
  <2>4. y.number = number /\ y.paid = paid /\ y.history = x.history
    BY <2>1 DEF Invoices!Records
  <2>. QED BY <1>5, <2>2, <2>3, <2>4
<1>. HIDE DEF y, g, x
<1>8. /\ v1' \in [A -> Invoices!Records \cup {Invoices!NoInvoice}] /\ v1'[i] = y
      /\ \A j \in A : j # i => v1'[j] = v1[j]
  BY <1>3, <1>6, <1>7
<1>9. v4' \in Givens /\ v4'[i] = g /\ \A j \in A : j # i => v4'[j] = v4[j]
  BY <1>3, <1>6, <1>7 DEF Givens
<1>10. Invoices!Made' = Invoices!Made
  <2>1. Invoices!Made' = {j \in A : v1'[j] # Invoices!NoInvoice}
    BY DEF Invoices!Made, Invoices!There
  <2>2. Invoices!Made = {j \in A : v1[j] # Invoices!NoInvoice} BY DEF Invoices!Made, Invoices!There
  <2>. QED BY <1>4, <1>7, <1>8, <2>1, <2>2, NoInvoiceIsNone
<1>11. ASSUME NEW p \in B
       PROVE  /\ v3'[p] \in Invoices!Readings
              /\ v3'[p].stage = v3[p].stage /\ v3'[p].on = v3[p].on /\ v3'[p].read = v3[p].read
              /\ IF v3[p].stage = "read" /\ v3[p].on = i THEN v3'[p].late = "edit"
                 ELSE v3'[p] = v3[p]
  <2>1. v3[p] \in Invoices!Readings BY <1>3
  <2>2. CASE v3[p].stage = "read" /\ v3[p].on = i
    <3>1. v3'[p] = [v3[p] EXCEPT !.late = "edit"] BY <1>2, <2>2
    <3>. QED BY <2>1, <2>2, <3>1 DEF Invoices!Readings
  <2>3. CASE ~(v3[p].stage = "read" /\ v3[p].on = i)
    <3>1. v3'[p] = v3[p] BY <1>2, <2>3
    <3>. QED BY <2>1, <2>3, <3>1
  <2>. QED BY <2>2, <2>3
<1>12. v3' \in [B -> Invoices!Readings]
  <2>1. \A p \in B : v3'[p] \in Invoices!Readings BY <1>11
  <2>2. PICK f : v3' = [p \in B |-> f[p]] BY <1>2
  <2>. QED BY <2>1, <2>2
<1>13. /\ v6' \in SUBSET A /\ v8' \in SUBSET A /\ v9' \in SUBSET A /\ v7' \in 0 .. MaxEdits
       /\ i \notin v6' /\ i \notin v8' /\ i \notin v9'
       /\ \A j \in A \ {i} : /\ j \in v6' <=> j \in v6
                             /\ j \in v8' <=> j \in v8
                             /\ j \in v9' => j \in v9
  BY <1>2, <1>3
<1>14. v5' \in BOOLEAN /\ (v5 => v5') /\ (~v5' => number = x.number) BY <1>1, <1>3 DEF x
<1>15. Invoices!TypeOK' BY <1>2, <1>3, <1>8, <1>9, <1>12, <1>13, <1>14, InvoicesTyped
<1>16. NumbersHold'
  <2>1. ~v5' => \A j \in Invoices!Made : v1'[j].number = v1[j].number
    BY <1>3, <1>7, <1>8, <1>14 DEF x
  <2>. QED BY <1>2, <1>3, <1>10, <1>14, <2>1, NumbersKept
<1>17. Balanced(v1'[i], v4'[i], i \in v6', i \in v8', i \in v9')
  BY <1>5, <1>7, <1>8, <1>9, <1>13 DEF Balanced
<1>18. \A p \in B : v3'[p].stage = "read" /\ v3'[p].on = i =>
         HasRead(v3'[p].read, v3'[p].late, v1'[i], v4'[i], i \in v8')
  <2>1. ASSUME NEW p \in B, v3'[p].stage = "read", v3'[p].on = i
        PROVE  HasRead(v3'[p].read, v3'[p].late, v1'[i], v4'[i], i \in v8')
    <3>1. v3'[p].late = "edit" /\ v3'[p].read = v3[p].read /\ v3[p].stage = "read" BY <1>11, <2>1
    <3>2. v3[p].read \in Invoices!Records BY <3>1 DEF SumsHold, HasRead
    <3>. QED BY <3>1, <3>2 DEF HasRead
  <2>. QED BY <2>1
<1>19. SumsHold'
  <2>1. Invoices!Made' = Invoices!Made \cup {i} BY <1>4, <1>10
  <2>2. \A j \in A \ {i} : v1'[j] = v1[j] /\ v4'[j] = v4[j] BY <1>8, <1>9
  <2>3. \A j \in A \ {i} : /\ j \in v6' <=> j \in v6
                           /\ j \in v8' <=> j \in v8
                           /\ j \in v9' => j \in v9
    BY <1>13
  <2>4. i \in v8' => i \in v6' BY <1>13
  <2>5. \A p \in B : v3'[p].stage = "read" /\ v3'[p].on # i => v3'[p] = v3[p] BY <1>11
  <2>6. v6' \in SUBSET A /\ v8' \in SUBSET A /\ v9' \in SUBSET A BY <1>13
  <2>7. Invoices!Made \in SUBSET A BY <1>3
  <2>. QED BY <1>17, <1>18, <2>1, <2>2, <2>3, <2>4, <2>5, <2>6, <2>7, SumsKept
<1>. QED BY <1>15, <1>16, <1>19

(* What changes neither amounts nor payments: a status that is not paid,   *)
(* or whether the invoice is active.                                       *)

LEMMA InvoicesMarked ==
    ASSUME Invoices!TypeOK, NumbersHold, SumsHold,
           v1' \in [A -> Invoices!Records \cup {Invoices!NoInvoice}],
           \A i \in A : v1[i] = Invoices!NoInvoice => v1'[i] = v1[i],
           \A i \in Invoices!Made :
             /\ v1'[i] \in Invoices!Records /\ v1'[i].number = v1[i].number
             /\ v1'[i].paid = v1[i].paid /\ v1'[i].total = v1[i].total
             /\ v1'[i].history = v1[i].history
             /\ \/ v1'[i].status = v1[i].status
                \/ v1'[i].status = "overdue" /\ v1[i].status \in {"sent", "partially_paid"},
           UNCHANGED <<v2, v3, v4, v5, v6, v8, v9>>, v7' \in 0 .. MaxEdits
    PROVE  Invoices!TypeOK' /\ NumbersHold' /\ SumsHold'
<1>1. /\ Invoices!Made \in SUBSET A /\ v2 \in [A -> 0 .. Cardinality(A)]
      /\ v3 \in [B -> Invoices!Readings] /\ v4 \in Givens /\ v5 \in BOOLEAN
      /\ v6 \in SUBSET A /\ v8 \in SUBSET A /\ v9 \in SUBSET A
      /\ \A i \in A : i \notin Invoices!Made <=> v1[i] = Invoices!NoInvoice
  BY InvoicesTypes
<1>2. Invoices!TypeOK' BY <1>1, InvoicesTyped
<1>3. Invoices!Made' = Invoices!Made
  <2>1. Invoices!Made' = {i \in A : v1'[i] # Invoices!NoInvoice}
    BY DEF Invoices!Made, Invoices!There
  <2>. QED BY <1>1, <2>1, NoInvoiceIsNone
<1>4. NumbersHold' BY <1>1, <1>3, NumbersKept
<1>5. ASSUME NEW i \in Invoices!Made
      PROVE  Balanced(v1'[i], v4'[i], i \in v6', i \in v8', i \in v9')
  <2>1. Balanced(v1[i], v4[i], i \in v6, i \in v8, i \in v9) BY <1>5 DEF SumsHold
  <2>2. v1'[i].status = "paid" <=> v1[i].status = "paid" OBVIOUS
  <2>. QED BY <2>1, <2>2 DEF Balanced
<1>6. ASSUME NEW p \in B, v3'[p].stage = "read"
      PROVE  /\ v3'[p].on \in Invoices!Made'
             /\ HasRead(v3'[p].read, v3'[p].late, v1'[v3'[p].on], v4'[v3'[p].on], v3'[p].on \in v8')
  <2>1. PICK i, r, late : i = v3[p].on /\ r = v3[p].read /\ late = v3[p].late OBVIOUS
  <2>2. i \in Invoices!Made /\ HasRead(r, late, v1[i], v4[i], i \in v8)
    BY <1>6, <2>1 DEF SumsHold
  <2>3. late = "no" => Same(r, v1'[i])
    <3>1. late = "no" => Same(r, v1[i]) BY <2>2 DEF HasRead
    <3>. QED BY <2>2, <3>1 DEF Same
  <2>4. HasRead(r, late, v1'[i], v4[i], i \in v8) BY <2>2, <2>3 DEF HasRead
  <2>. QED BY <1>3, <2>1, <2>2, <2>4
<1>7. SumsHold' BY <1>3, <1>5, <1>6 DEF SumsHold
<1>. QED BY <1>2, <1>4, <1>7

LEMMA InvoicesKept ==
    ASSUME Invoices!TypeOK, NumbersHold, SumsHold, Invoices!Next
    PROVE  Invoices!TypeOK' /\ NumbersHold' /\ SumsHold'
<1>1. /\ v1 \in [A -> Invoices!Records \cup {Invoices!NoInvoice}]
      /\ v2 \in [A -> 0 .. Cardinality(A)] /\ v3 \in [B -> Invoices!Readings] /\ v4 \in Givens
      /\ v5 \in BOOLEAN /\ v6 \in SUBSET A /\ v7 \in 0 .. MaxEdits
      /\ v8 \in SUBSET A /\ v9 \in SUBSET A /\ Invoices!Made \in SUBSET A /\ MaxEdits \in Nat
      /\ \A i \in A : i \in Invoices!Made <=> v1[i] \in Invoices!Records
  BY InvoicesTypes, InvoicesCounts
<1>2. ASSUME NEW i \in A, Invoices!GenerateInvoiceNumber(i)
      PROVE  Invoices!TypeOK' /\ NumbersHold' /\ SumsHold'
  <2>1. UNCHANGED <<v1, v3, v4, v5, v6, v7, v8, v9>>
    BY <1>2 DEF Invoices!GenerateInvoiceNumber, Invoices!Marks
  <2>2. v2' \in [A -> 0 .. Cardinality(A)] /\ NumbersHold' BY <1>2, NumberGenerated
  <2>3. SumsHold' BY <2>1, SumsStay
  <2>4. Invoices!TypeOK' BY <1>1, <2>1, <2>2, InvoicesTyped
  <2>. QED BY <2>2, <2>3, <2>4
<1>3. ASSUME NEW i \in A, Invoices!Remove(i)
      PROVE  Invoices!TypeOK' /\ NumbersHold' /\ SumsHold'
  <2>. DEFINE y == [v1[i] EXCEPT !.active = FALSE]
  <2>1. /\ v1' = [v1 EXCEPT ![i] = y] /\ v7 < MaxEdits /\ v7' = v7 + 1
        /\ i \in Invoices!Made /\ UNCHANGED <<v2, v3, v4, v5, v6, v8, v9>>
    BY <1>1, <1>3 DEF Invoices!Remove, Invoices!Made, Invoices!Marks
  <2>2. /\ y \in Invoices!Records /\ y.status = v1[i].status /\ y.number = v1[i].number
        /\ y.paid = v1[i].paid /\ y.total = v1[i].total /\ y.history = v1[i].history
    BY <1>1, <2>1 DEF Invoices!Records
  <2>. HIDE DEF y
  <2>3. v1' \in [A -> Invoices!Records \cup {Invoices!NoInvoice}]
        /\ \A j \in A : v1'[j] = IF j = i THEN y ELSE v1[j]
    BY <1>1, <2>1, <2>2
  <2>4. v7' \in 0 .. MaxEdits BY <1>1, <2>1
  <2>5. v1[i] # Invoices!NoInvoice BY <1>1, <2>1, NoInvoiceIsNone
  <2>. QED BY <1>1, <2>1, <2>2, <2>3, <2>4, <2>5, InvoicesMarked
<1>4. ASSUME Invoices!FindAll
      PROVE  Invoices!TypeOK' /\ NumbersHold' /\ SumsHold'
  <2>. DEFINE y(i) == [v1[i] EXCEPT !.status = "overdue"]
  <2>1. PICK S \in SUBSET {i \in Invoices!Made : v1[i].status \in {"sent", "partially_paid"}} :
          v1' = [i \in A |-> IF i \in S THEN y(i) ELSE v1[i]]
    BY <1>4 DEF Invoices!FindAll
  <2>2. UNCHANGED <<v2, v3, v4, v5, v6, v7, v8, v9>> BY <1>4 DEF Invoices!FindAll, Invoices!Marks
  <2>3. ASSUME NEW i \in S
        PROVE  /\ v1[i] \in Invoices!Records /\ v1[i].status \in {"sent", "partially_paid"}
               /\ y(i) \in Invoices!Records /\ y(i).status = "overdue"
               /\ y(i).number = v1[i].number /\ y(i).paid = v1[i].paid
               /\ y(i).total = v1[i].total /\ y(i).history = v1[i].history
    <3>1. v1[i] \in Invoices!Records BY <1>1, <2>1
    <3>. QED BY <2>1, <3>1 DEF Invoices!Records, Invoices!Statuses
  <2>. HIDE DEF y
  <2>4. v1' \in [A -> Invoices!Records \cup {Invoices!NoInvoice}]
        /\ \A i \in A : v1'[i] = IF i \in S THEN y(i) ELSE v1[i]
    BY <1>1, <2>1, <2>3
  <2>5. \A i \in S : v1[i] # Invoices!NoInvoice BY <2>3, NoInvoiceIsNone
  <2>6. \A i \in Invoices!Made :
          /\ v1'[i] \in Invoices!Records /\ v1'[i].number = v1[i].number
          /\ v1'[i].paid = v1[i].paid /\ v1'[i].total = v1[i].total
          /\ v1'[i].history = v1[i].history
          /\ \/ v1'[i].status = v1[i].status
             \/ v1'[i].status = "overdue" /\ v1[i].status \in {"sent", "partially_paid"}
    BY <1>1, <2>3, <2>4
  <2>7. \A i \in A : v1[i] = Invoices!NoInvoice => v1'[i] = v1[i] BY <2>4, <2>5
  <2>8. v7' \in 0 .. MaxEdits BY <1>1, <2>2
  <2>. QED BY <2>2, <2>4, <2>6, <2>7, <2>8, InvoicesMarked
<1>5. ASSUME NEW i \in A, NEW p \in B, NEW amount \in Amounts, Invoices!FindInvoice(p, i, amount)
      PROVE  Invoices!TypeOK' /\ NumbersHold' /\ SumsHold'
  <2>. DEFINE x == [stage |-> "read", on |-> i, amount |-> amount, read |-> v1[i], late |-> "no"]
  <2>1. /\ v3' = [v3 EXCEPT ![p] = x] /\ i \in Invoices!Made /\ v1[i] \in Invoices!Records
        /\ UNCHANGED <<v1, v2, v4, v5, v6, v7, v8, v9>>
    BY <1>1, <1>5 DEF Invoices!FindInvoice, Invoices!Made, Invoices!Marks
  <2>2. x \in Invoices!Readings /\ x.on = i /\ x.late = "no" /\ x.read = v1[i]
    BY <2>1, InvoicesCounts DEF Invoices!Readings
  <2>. HIDE DEF x
  <2>3. v3' \in [B -> Invoices!Readings] /\ \A q \in B : v3'[q] = IF q = p THEN x ELSE v3[q]
    BY <1>1, <2>1, <2>2
  <2>4. Invoices!TypeOK' BY <1>1, <2>1, <2>3, InvoicesTyped
  <2>5. SumsHold' BY <2>1, <2>2, <2>3, SumsStay
  <2>6. Invoices!Made' = Invoices!Made BY <2>1 DEF Invoices!Made, Invoices!There
  <2>7. NumbersHold' BY <1>1, <2>1, <2>6, NumbersKept
  <2>. QED BY <2>4, <2>5, <2>7
<1>6. ASSUME NEW p \in B, Invoices!BreaksOff(p)
      PROVE  Invoices!TypeOK' /\ NumbersHold' /\ SumsHold'
  <2>. DEFINE x == [Invoices!NoPayment EXCEPT !.stage = "done"]
  <2>1. v3' = [v3 EXCEPT ![p] = x] /\ UNCHANGED <<v1, v2, v4, v5, v6, v7, v8, v9>>
    BY <1>6 DEF Invoices!BreaksOff, Invoices!Marks
  <2>2. x \in Invoices!Readings /\ x.stage = "done"
    BY DEF Invoices!Readings, Invoices!NoPayment
  <2>. HIDE DEF x
  <2>3. v3' \in [B -> Invoices!Readings] /\ \A q \in B : v3'[q] = IF q = p THEN x ELSE v3[q]
    BY <1>1, <2>1, <2>2
  <2>4. Invoices!TypeOK' BY <1>1, <2>1, <2>3, InvoicesTyped
  <2>5. SumsHold' BY <2>1, <2>2, <2>3, SumsStay
  <2>6. Invoices!Made' = Invoices!Made BY <2>1 DEF Invoices!Made, Invoices!There
  <2>7. NumbersHold' BY <1>1, <2>1, <2>6, NumbersKept
  <2>. QED BY <2>4, <2>5, <2>7
<1>. QED
  BY <1>2, <1>3, <1>4, <1>5, <1>6, InvoiceCreated, InvoiceEdited, PaymentRecorded DEF
   Invoices!Next

LEMMA InvoicesGoOn ==
    ASSUME Invoices!InvoicesInv, Invoices!Next \/ UNCHANGED InvoicesVars
    PROVE  Invoices!InvoicesInv'
<1>1. Invoices!TypeOK /\ NumbersHold /\ SumsHold BY InvoicesHold
<1>2. CASE Invoices!Next BY <1>1, <1>2, InvoicesKept, NextInvoicesHold
<1>3. CASE UNCHANGED InvoicesVars
  <2>1. UNCHANGED <<v1, v2, v3, v4, v5, v6, v7, v8, v9>> BY <1>3 DEF InvoicesVars
  <2>2. /\ v1 \in [A -> Invoices!Records \cup {Invoices!NoInvoice}]
        /\ \A i \in A : i \in Invoices!Made <=> v1[i] \in Invoices!Records
        /\ v7 \in 0 .. MaxEdits
    BY <1>1, InvoicesTypes
  <2>3. v1' = v1 /\ v7' = v7 /\ UNCHANGED <<v2, v3, v4, v5, v6, v8, v9>> BY <2>1
  <2>4. \A i \in Invoices!Made : v1[i] \in Invoices!Records BY <2>2 DEF Invoices!Made
  <2>5. Invoices!TypeOK' /\ NumbersHold' /\ SumsHold'
    BY <1>1, <2>2, <2>3, <2>4, InvoicesMarked
  <2>. QED BY <2>5, NextInvoicesHold
<1>. QED BY <1>2, <1>3

(* Backups: cloud is v1, made v2, byHand v3, memory v4, listing v5, call   *)
(* v6, tangled v7, lists v8 and faults v9.                                 *)

BackupsVars == <<v1, v2, v3, v4, v5, v6, v7, v8, v9>>

BackupCalls == [stage : {"idle", "exporting", "uploaded", "cleaning"}, process : Processes,
                number : 0 .. MaxBackups, old : Seq(1 .. MaxBackups)]

Descends(q)  == \A i, j \in DOMAIN q : i < j => q[i] > q[j]
Within(q, m) == \A i \in DOMAIN q : q[i] \in 1 .. m

LEMMA BackupsCounts ==
    /\ IsFiniteSet(A) /\ Processes # {} /\ Keep \in Nat /\ Keep > 0
    /\ MaxBackups \in Nat /\ MaxBackups > 0 /\ MaxLists \in Nat /\ MaxFaults \in Nat
    /\ \A S : Backups!Cardinality(S) = Cardinality(S)
<1>1. /\ Backups!IsFiniteSet(A) /\ Processes # {} /\ {Keep, MaxBackups} \subseteq Nat \ {0}
      /\ {MaxLists, MaxFaults} \subseteq Nat
  BY BackupsAssumed, Zenon DEF Backups!BackupsAssumption
<1>2. IsFiniteSet(A) BY <1>1 DEF Backups!IsFiniteSet, IsFiniteSet
<1>3. \A S : Backups!Cardinality(S) = Cardinality(S) BY Zenon DEF Backups!Cardinality, Cardinality
<1>. QED BY <1>1, <1>2, <1>3

(* Sequences that descend.                                                 *)

\* The i-th of them is smaller than the first by i - 1 at least.
LEMMA DescentIsSteep ==
    ASSUME NEW m \in Nat, NEW q \in Seq(1 .. MaxBackups), Descends(q), Within(q, m)
    PROVE  \A i \in DOMAIN q : q[i] + i <= m + 1
<1>. DEFINE T == {i \in DOMAIN q : ~(q[i] + i <= m + 1)}
<1>0. Len(q) \in Nat /\ DOMAIN q = 1 .. Len(q) /\ \A i \in DOMAIN q : q[i] \in Nat /\ q[i] <= m
  BY DEF Within
<1>1. T \in SUBSET Nat BY <1>0
<1>. SUFFICES ASSUME T # {}
              PROVE  FALSE
  OBVIOUS
<1>2. PICK x \in T : \A y \in T : x <= y
  <2>. HIDE DEF T
  <2>. QED BY <1>1, LeastOf
<1>3. x \in 1 .. Len(q) /\ q[x] \in Nat /\ q[x] <= m /\ ~(q[x] + x <= m + 1) BY <1>0, <1>2
<1>4. x # 1 BY <1>3
<1>5. PICK y \in Nat : x = y + 1
  <2>1. x - 1 \in Nat /\ x = (x - 1) + 1 BY <1>3
  <2>. QED BY <2>1
<1>6. y \in DOMAIN q /\ y \notin T /\ y < x /\ q[y] \in Nat
  <2>1. y \in DOMAIN q /\ y < x BY <1>0, <1>3, <1>4, <1>5
  <2>2. y \notin T
    <3>1. y \in T => x <= y BY <1>2
    <3>. QED BY <1>3, <1>5, <2>1, <3>1
  <2>. QED BY <1>0, <2>1, <2>2
<1>7. q[y] + y <= m + 1 /\ q[y] > q[x] BY <1>0, <1>3, <1>6 DEF Descends
<1>. QED BY <1>3, <1>5, <1>6, <1>7

LEMMA NewestFirstDescends ==
    ASSUME NEW m \in Nat, NEW S \in SUBSET (1 .. m)
    PROVE  /\ Backups!NewestFirst(S) \in Seq(S) /\ Descends(Backups!NewestFirst(S))
<1>. DEFINE n == Cardinality(S)
            s == [i \in 1 .. n |-> PlaceOf(S, n + 1 - i)]
<1>1. n \in Nat BY CountsGrow
<1>2. \A i \in 1 .. n : n + 1 - i \in 1 .. n BY <1>1
<1>3. \A i \in 1 .. n : PlaceOf(S, i) \in S /\ Cardinality(UpTo(S, PlaceOf(S, i))) = i
  BY PlacesAreThere
<1>. HIDE DEF n
<1>4. s \in [1 .. n -> S] /\ \A i \in 1 .. n : s[i] = PlaceOf(S, n + 1 - i) BY <1>2, <1>3
<1>. HIDE DEF s
<1>5. \A i, j \in 1 .. n : i < j => s[i] > s[j]
  <2>. SUFFICES ASSUME NEW i \in 1 .. n, NEW j \in 1 .. n, i < j, ~(s[i] > s[j])
                PROVE  FALSE
    OBVIOUS
  <2>0. \A x \in S : x \in Nat OBVIOUS
  <2>1. s[i] \in S /\ s[j] \in S /\ s[i] \in Nat /\ s[j] \in Nat BY <1>4, <2>0
  <2>2. Cardinality(UpTo(S, s[i])) = n + 1 - i /\ Cardinality(UpTo(S, s[j])) = n + 1 - j
    BY <1>2, <1>3, <1>4
  <2>3. s[i] < s[j] => Cardinality(UpTo(S, s[i])) < Cardinality(UpTo(S, s[j])) BY <2>1, CountsGrow
  <2>. QED BY <1>1, <2>1, <2>2, <2>3
<1>6. \E t \in [1 .. n -> S] : \A i, j \in DOMAIN t : i < j => t[i] > t[j] BY <1>4, <1>5
<1>7. Backups!NewestFirst(S)
        = CHOOSE t \in [1 .. n -> S] : \A i, j \in DOMAIN t : i < j => t[i] > t[j]
  BY BackupsCounts DEF Backups!NewestFirst, n
<1>8. /\ Backups!NewestFirst(S) \in [1 .. n -> S]
      /\ \A i, j \in DOMAIN Backups!NewestFirst(S) :
           i < j => Backups!NewestFirst(S)[i] > Backups!NewestFirst(S)[j]
  BY <1>6, <1>7, Zenon
<1>. QED BY <1>1, <1>8, IsASeq DEF Descends

LEMMA BackupsKeptIsRest ==
    ASSUME NEW q, NEW S
    PROVE  Backups!Kept(q, S) = Rest(q, S)
BY Zenon DEF Backups!Kept, Rest, PlaceOf, Cardinality, Backups!Cardinality

\* What is left of a memory that one backup is struck off.
Without(q, n) == Rest(q, {i \in DOMAIN q : q[i] # n})

LEMMA WithoutDescends ==
    ASSUME NEW V, NEW q \in Seq(V), NEW n, NEW m
    PROVE  /\ Without(q, n) \in Seq(V)
           /\ Within(q, m) => Within(Without(q, n), m)
           /\ Descends(q) => Descends(Without(q, n))
<1>. DEFINE S == {i \in DOMAIN q : q[i] # n}
            r == Rest(q, S)
<1>1. S \in SUBSET DOMAIN q OBVIOUS
<1>. HIDE DEF S
<1>2. /\ r \in Seq(V)
      /\ \A k \in DOMAIN r : PlaceOf(S, k) \in S /\ r[k] = q[PlaceOf(S, k)]
      /\ \A k, l \in DOMAIN r : k < l => PlaceOf(S, k) < PlaceOf(S, l)
  BY <1>1, RestIsThinned
<1>. HIDE DEF r
<1>3. Within(q, m) => Within(r, m) BY <1>1, <1>2 DEF Within
<1>4. Descends(q) => Descends(r) BY <1>1, <1>2 DEF Descends
<1>. QED BY <1>2, <1>3, <1>4 DEF Without, r, S

LEMMA SuffixElements ==
    ASSUME NEW S, NEW q \in Seq(S), NEW n \in 1 .. Len(q) + 1
    PROVE  /\ SubSeq(q, n, Len(q)) \in Seq(S) /\ Len(SubSeq(q, n, Len(q))) = Len(q) - n + 1
           /\ \A i \in 1 .. Len(SubSeq(q, n, Len(q))) : SubSeq(q, n, Len(q))[i] = q[n + i - 1]
BY SubSeqProperties

\* What is beyond the first Keep of a memory is older than Keep others.
LEMMA BeyondIsOld ==
    ASSUME NEW m \in Nat, NEW q \in Seq(1 .. MaxBackups)
    PROVE  /\ Backups!Old(q) \in Seq(1 .. MaxBackups)
           /\ Descends(q) /\ Within(q, m) =>
                \A i \in DOMAIN Backups!Old(q) : Backups!Old(q)[i] + Keep <= m
<1>. DEFINE t == SubSeq(q, Keep + 1, Len(q))
<1>1. Len(q) \in Nat /\ Keep \in Nat /\ DOMAIN q = 1 .. Len(q) BY BackupsCounts
<1>2. CASE Keep >= Len(q)
  <2>1. t = <<>> BY <1>1, <1>2
  <2>2. Backups!Old(q) = <<>> BY <2>1 DEF Backups!Old
  <2>. QED BY <2>2
<1>3. CASE Keep < Len(q)
  <2>0. Keep + 1 \in 1 .. Len(q) + 1 BY <1>1, <1>3
  <2>1. /\ t \in Seq(1 .. MaxBackups) /\ Len(t) = Len(q) - (Keep + 1) + 1
        /\ \A i \in 1 .. Len(t) : t[i] = q[Keep + 1 + i - 1]
    BY <2>0, SuffixElements
  <2>. HIDE DEF t
  <2>2. \A i \in DOMAIN t : t[i] = q[Keep + i] /\ Keep + i \in DOMAIN q /\ i \in Nat /\ i >= 1
    BY <1>1, <1>3, <2>1
  <2>3. ASSUME Descends(q), Within(q, m), NEW i \in DOMAIN t
        PROVE  t[i] + Keep <= m
    <3>0. PICK k \in DOMAIN q : k = Keep + i /\ t[i] = q[k] /\ i >= 1 /\ i \in Nat BY <2>2
    <3>1. q[k] + k <= m + 1 /\ q[k] \in 1 .. m BY <2>3, DescentIsSteep DEF Within
    <3>. QED BY <1>1, <3>0, <3>1
  <2>. QED BY <2>1, <2>3 DEF Backups!Old, t
<1>. QED BY <1>1, <1>2, <1>3

(* The invariant, in these words.                                          *)

BackupsFacts ==
    /\ v1 \subseteq 1 .. v2 /\ v2 \in 0 .. MaxBackups /\ v3 \in SUBSET (1 .. MaxBackups)
    /\ v4 \in [Processes -> Seq(1 .. MaxBackups)] /\ \A p \in Processes : Within(v4[p], v2)
    /\ v5 \in [Processes -> (SUBSET (1 .. MaxBackups)) \cup {{0}}]
    /\ \A p \in Processes : v5[p] # {0} => v5[p] \subseteq 1 .. v2
    /\ v6 \in [A -> BackupCalls]
    /\ \A c \in A : v6[c].stage = "uploaded" => v6[c].number \in 1 .. v2
    /\ v2 + Cardinality(Backups!Exporting) <= MaxBackups
    /\ v7 \in BOOLEAN /\ v8 \in 0 .. MaxLists /\ v9 \in 0 .. MaxFaults
    /\ ~v7 => /\ \A p \in Processes : Descends(v4[p])
              /\ \A c \in A : v6[c].stage = "cleaning" =>
                   \A i \in DOMAIN v6[c].old : v6[c].old[i] + Keep <= v2
              /\ \A n \in 1 .. v2 : n + Keep > v2 => n \in v1 \cup v3

LEMMA BackupsHold ==
    ASSUME Backups!BackupsInv
    PROVE  BackupsFacts
<1>1. /\ Backups!TypeOK /\ Backups!NewestAreKept /\ Backups!OnlyMade /\ Backups!ExportsFit
      /\ Backups!NewestComeFirst /\ Backups!OldAreOld
  BY DEF Backups!BackupsInv
<1>2. /\ v2 \in 0 .. MaxBackups /\ v3 \in SUBSET (1 .. MaxBackups)
      /\ v4 \in [Processes -> Seq(1 .. MaxBackups)]
      /\ v5 \in [Processes -> (SUBSET (1 .. MaxBackups)) \cup {{0}}]
      /\ v6 \in [A -> BackupCalls]
      /\ v7 \in BOOLEAN /\ v8 \in 0 .. MaxLists /\ v9 \in 0 .. MaxFaults
  BY <1>1 DEF Backups!TypeOK, Backups!Numbers, Backups!NoAnswer, BackupCalls
<1>3. /\ v1 \subseteq 1 .. v2 /\ \A p \in Processes : Within(v4[p], v2)
      /\ \A p \in Processes : v5[p] # {0} => v5[p] \subseteq 1 .. v2
      /\ \A c \in A : v6[c].stage = "uploaded" => v6[c].number \in 1 .. v2
  BY <1>1 DEF Backups!OnlyMade, Backups!Remembered, Within, Backups!NoAnswer
<1>4. v2 + Cardinality(Backups!Exporting) <= MaxBackups
  BY <1>1, BackupsCounts DEF Backups!ExportsFit
<1>5. ~v7 => /\ \A p \in Processes : Descends(v4[p])
             /\ \A c \in A : v6[c].stage = "cleaning" =>
                  \A i \in DOMAIN v6[c].old : v6[c].old[i] + Keep <= v2
  BY <1>1 DEF Backups!NewestComeFirst, Backups!OldAreOld, Descends
<1>6. ~v7 => \A n \in 1 .. v2 : n + Keep > v2 => n \in v1 \cup v3
  <2>1. \A n \in 1 .. v2 : n + Keep > v2 => n > v2 - Keep BY <1>2, BackupsCounts
  <2>. QED BY <1>1, <2>1 DEF Backups!NewestAreKept
<1>. QED BY <1>2, <1>3, <1>4, <1>5, <1>6 DEF BackupsFacts

LEMMA NextBackupsHold ==
    ASSUME BackupsFacts'
    PROVE  Backups!BackupsInv'
<1>0. /\ v1' \subseteq 1 .. v2' /\ v2' \in 0 .. MaxBackups /\ v3' \in SUBSET (1 .. MaxBackups)
      /\ v4' \in [Processes -> Seq(1 .. MaxBackups)]
      /\ v5' \in [Processes -> (SUBSET (1 .. MaxBackups)) \cup {{0}}]
      /\ v6' \in [A -> BackupCalls]
      /\ v7' \in BOOLEAN /\ v8' \in 0 .. MaxLists /\ v9' \in 0 .. MaxFaults
  BY DEF BackupsFacts
<1>1. Backups!TypeOK'
  <2>1. PICK m \in 0 .. MaxBackups : m = v2' BY <1>0
  <2>2. 1 .. m \subseteq 1 .. MaxBackups BY BackupsCounts
  <2>3. v1' \in SUBSET (1 .. MaxBackups) BY <1>0, <2>1, <2>2, Zenon
  <2>. QED BY <1>0, <2>3, Zenon DEF Backups!TypeOK, Backups!Numbers, Backups!NoAnswer, BackupCalls
<1>2. Backups!OnlyMade'
  BY DEF BackupsFacts, Backups!OnlyMade, Backups!Remembered, Within, Backups!NoAnswer
<1>3. Backups!ExportsFit' BY BackupsCounts DEF BackupsFacts, Backups!ExportsFit
<1>4. Backups!NewestComeFirst' /\ Backups!OldAreOld'
  BY DEF BackupsFacts, Backups!NewestComeFirst, Backups!OldAreOld, Descends
<1>5. Backups!NewestAreKept'
  <2>0. PICK m \in 0 .. MaxBackups : m = v2' BY <1>0
  <2>a. \A n \in 1 .. m : n > m - Keep => n + Keep > m BY BackupsCounts
  <2>1. \A n \in 1 .. v2' : n > v2' - Keep => n + Keep > v2' BY <2>0, <2>a, Zenon
  <2>. QED BY <2>1 DEF BackupsFacts, Backups!NewestAreKept
<1>. QED BY <1>1, <1>2, <1>3, <1>4, <1>5 DEF Backups!BackupsInv

LEMMA ExportingAreFew ==
    /\ Backups!Exporting \in SUBSET A /\ IsFiniteSet(Backups!Exporting)
    /\ Cardinality(Backups!Exporting) \in Nat
<1>1. Backups!Exporting \in SUBSET A BY DEF Backups!Exporting
<1>. QED BY <1>1, BackupsCounts, FS_Subset, FS_CardinalityType

LEMMA IdleBackup ==
    /\ Backups!Idle \in BackupCalls /\ Backups!Idle.stage = "idle"
    /\ \A p \in Processes :
         /\ [Backups!Idle EXCEPT !.stage = "exporting", !.process = p] \in BackupCalls
         /\ [Backups!Idle EXCEPT !.stage = "exporting", !.process = p].stage = "exporting"
<1>1. PICK q \in Processes : q = CHOOSE p \in Processes : TRUE BY BackupsCounts, Zenon
<1>2. PICK e \in Seq(1 .. MaxBackups) : e = <<>> BY EmptySeq, Zenon
<1>3. 0 \in 0 .. MaxBackups BY BackupsCounts
<1>4. Backups!Idle = [stage |-> "idle", process |-> q, number |-> 0, old |-> e]
  BY <1>1, <1>2, Zenon DEF Backups!Idle
<1>. QED BY <1>3, <1>4 DEF BackupCalls

LEMMA BackupsStart ==
    ASSUME Backups!Init
    PROVE  Backups!BackupsInv
<1>1. Backups!Init OBVIOUS
<1>2. /\ Backups!Exporting = {} /\ Cardinality(Backups!Exporting) = 0
      /\ \A c \in A : v6[c] = Backups!Idle /\ v6[c].stage = "idle"
  BY <1>1, IdleBackup, FS_EmptySet DEF Backups!Init, Backups!Exporting
<1>3. /\ v4 \in [Processes -> Seq(1 .. MaxBackups)] /\ \A p \in Processes : v4[p] = <<>>
  BY <1>1 DEF Backups!Init
<1>4. /\ v5 \in [Processes -> (SUBSET (1 .. MaxBackups)) \cup {{0}}]
      /\ \A p \in Processes : v5[p] = {0}
  BY <1>1 DEF Backups!Init, Backups!NoAnswer
<1>5. v6 \in [A -> BackupCalls] BY <1>1, IdleBackup DEF Backups!Init
<1>6. /\ v1 = {} /\ v2 = 0 /\ v3 = {} /\ v8 = 0 /\ v9 = 0 BY <1>1 DEF Backups!Init
<1>7. v7 = FALSE BY <1>1 DEF Backups!Init
<1>8. Backups!TypeOK
  <2>1. v1 \in SUBSET (1 .. MaxBackups) /\ v3 \in SUBSET (1 .. MaxBackups)
        /\ v2 \in 0 .. MaxBackups /\ v8 \in 0 .. MaxLists /\ v9 \in 0 .. MaxFaults
    BY <1>6, BackupsCounts
  <2>2. v7 \in BOOLEAN BY <1>7, Zenon
  <2>. QED
    BY <1>3, <1>4, <1>5, <2>1, <2>2, Zenon DEF Backups!TypeOK, Backups!Numbers, Backups!NoAnswer,
     BackupCalls
<1>9. Backups!OnlyMade
  BY <1>2, <1>3, <1>4, <1>6 DEF Backups!OnlyMade, Backups!Remembered, Backups!NoAnswer
<1>10. Backups!ExportsFit BY <1>2, <1>6, BackupsCounts DEF Backups!ExportsFit
<1>11. Backups!NewestComeFirst /\ Backups!OldAreOld /\ Backups!NewestAreKept
  BY <1>2, <1>3, <1>6 DEF Backups!NewestComeFirst, Backups!OldAreOld, Backups!NewestAreKept
<1>. QED BY <1>8, <1>9, <1>10, <1>11 DEF Backups!BackupsInv

(* Nothing is uploaded: what is there can only become less.                *)

LEMMA BackupsGoOn ==
    ASSUME BackupsFacts, v2' = v2, v1' \subseteq v1, v3 \subseteq v3',
           v3' \in SUBSET (1 .. MaxBackups),
           v4' \in [Processes -> Seq(1 .. MaxBackups)], \A p \in Processes : Within(v4'[p], v2),
           v5' \in [Processes -> (SUBSET (1 .. MaxBackups)) \cup {{0}}],
           \A p \in Processes : v5'[p] # {0} => v5'[p] \subseteq 1 .. v2,
           v6' \in [A -> BackupCalls],
           \A c \in A : /\ v6'[c].stage = "uploaded" => v6[c].stage = "uploaded"
                        /\ v6'[c].stage = "uploaded" => v6'[c].number = v6[c].number
                        /\ v6'[c].stage = "exporting" => v6[c].stage = "exporting",
           v7' \in BOOLEAN, v8' \in 0 .. MaxLists, v9' \in 0 .. MaxFaults,
           v7 => v7',
           ~v7' => /\ \A p \in Processes : Descends(v4'[p])
                   /\ \A c \in A : v6'[c].stage = "cleaning" =>
                        \A i \in DOMAIN v6'[c].old : v6'[c].old[i] + Keep <= v2
                   /\ \A n \in v1 \ v1' : n + Keep <= v2 \/ n \in v3'
    PROVE  BackupsFacts'
<1>1. Backups!Exporting' \in SUBSET Backups!Exporting BY DEF Backups!Exporting
<1>2. /\ Cardinality(Backups!Exporting') <= Cardinality(Backups!Exporting)
      /\ Cardinality(Backups!Exporting') \in Nat
  BY <1>1, ExportingAreFew, FS_Subset, FS_CardinalityType
<1>3. v2 \in Nat /\ v2 + Cardinality(Backups!Exporting) <= MaxBackups /\ v2 \in 0 .. MaxBackups
  BY DEF BackupsFacts
<1>4. v2' + Cardinality(Backups!Exporting') <= MaxBackups
  BY <1>2, <1>3, ExportingAreFew, BackupsCounts
<1>5. \A c \in A : v6'[c].stage = "uploaded" => v6'[c].number \in 1 .. v2' BY DEF BackupsFacts
<1>6. ~v7' => \A n \in 1 .. v2 : n + Keep > v2 => n \in v1' \cup v3'
  <2>1. ~v7' => \A n \in 1 .. v2 : n + Keep > v2 => n \in v1 \cup v3 BY DEF BackupsFacts
  <2>2. \A n \in 1 .. v2 : n + Keep > v2 => ~(n + Keep <= v2) BY <1>3, BackupsCounts
  <2>. QED BY <2>1, <2>2
<1>7. v1' \subseteq 1 .. v2' BY DEF BackupsFacts
<1>. QED BY <1>3, <1>4, <1>5, <1>6, <1>7 DEF BackupsFacts

LEMMA BackupBegins ==
    ASSUME BackupsFacts, NEW c \in A, NEW p \in Processes, Backups!CreateBackup(c, p)
    PROVE  BackupsFacts'
<1>. DEFINE x == [Backups!Idle EXCEPT !.stage = "exporting", !.process = p]
<1>1. /\ v6[c].stage = "idle" /\ v2 + Cardinality(Backups!Exporting) < MaxBackups
      /\ v6' = [v6 EXCEPT ![c] = x] /\ UNCHANGED <<v1, v2, v3, v4, v5, v7, v8, v9>>
  BY BackupsCounts DEF Backups!CreateBackup
<1>2. x \in BackupCalls /\ x.stage = "exporting" BY IdleBackup DEF BackupCalls
<1>. HIDE DEF x
<1>3. v6' \in [A -> BackupCalls] /\ v6'[c].stage = "exporting" /\ \A d \in A : d # c => v6'[d] = v6[d]
  BY <1>1, <1>2 DEF BackupsFacts
<1>4. Backups!Exporting' = Backups!Exporting \cup {c} /\ c \notin Backups!Exporting
  BY <1>1, <1>3 DEF Backups!Exporting
<1>5. Cardinality(Backups!Exporting') = Cardinality(Backups!Exporting) + 1
  BY <1>4, ExportingAreFew, FS_AddElement
<1>6. v2' + Cardinality(Backups!Exporting') <= MaxBackups
  BY <1>1, <1>5, ExportingAreFew, BackupsCounts DEF BackupsFacts
<1>7. \A d \in A : /\ v6'[d].stage = "uploaded" => v6'[d] = v6[d]
                   /\ v6'[d].stage = "cleaning" => v6'[d] = v6[d]
  BY <1>3
<1>. QED BY <1>1, <1>3, <1>6, <1>7 DEF BackupsFacts

LEMMA BackupIsUploaded ==
    ASSUME BackupsFacts, NEW c \in A, Backups!Upload(c)
    PROVE  BackupsFacts'
<1>1. /\ v6[c].stage = "exporting" /\ v2' = v2 + 1 /\ v1' = v1 \cup {v2 + 1}
      /\ v6' = [v6 EXCEPT ![c].stage = "uploaded", ![c].number = v2 + 1]
      /\ UNCHANGED <<v3, v4, v5, v7, v8, v9>>
  BY DEF Backups!Upload
<1>2. /\ v6 \in [A -> BackupCalls] /\ v2 \in Nat /\ v1 \subseteq 1 .. v2
      /\ v2 + Cardinality(Backups!Exporting) <= MaxBackups
  BY DEF BackupsFacts
<1>3. c \in Backups!Exporting BY <1>1 DEF Backups!Exporting
<1>4. Cardinality(Backups!Exporting) # 0 BY <1>3, ExportingAreFew, FS_EmptySet
<1>5. v2 + 1 <= MaxBackups /\ v2 + 1 \in 1 .. MaxBackups /\ v2' \in 0 .. MaxBackups
  BY <1>1, <1>2, <1>4, ExportingAreFew, BackupsCounts
<1>6. /\ v6' \in [A -> BackupCalls] /\ v6'[c].stage = "uploaded" /\ v6'[c].number = v2 + 1
      /\ \A d \in A : d # c => v6'[d] = v6[d]
  <2>1. PICK n \in 0 .. MaxBackups : n = v2 + 1 BY <1>5
  <2>2. v6' = [v6 EXCEPT ![c].stage = "uploaded", ![c].number = n] BY <1>1, <2>1
  <2>3. /\ v6' \in [A -> BackupCalls] /\ v6'[c].stage = "uploaded" /\ v6'[c].number = n
        /\ \A d \in A : d # c => v6'[d] = v6[d]
    BY <1>2, <2>2 DEF BackupCalls
  <2>. QED BY <2>1, <2>3
<1>7. Backups!Exporting' = Backups!Exporting \ {c} BY <1>6 DEF Backups!Exporting
<1>8. Cardinality(Backups!Exporting') = Cardinality(Backups!Exporting) - 1
  BY <1>3, <1>7, ExportingAreFew, FS_RemoveElement
<1>9. v2' + Cardinality(Backups!Exporting') <= MaxBackups
  BY <1>1, <1>2, <1>8, ExportingAreFew, BackupsCounts
<1>10. v1' \subseteq 1 .. v2' BY <1>1, <1>2
<1>11. \A p \in Processes : Within(v4'[p], v2')
  <2>1. \A p \in Processes : Within(v4[p], v2) BY DEF BackupsFacts
  <2>. QED BY <1>1, <1>2, <2>1 DEF Within
<1>12. \A p \in Processes : v5'[p] # {0} => v5'[p] \subseteq 1 .. v2'
  <2>1. \A p \in Processes : v5[p] # {0} => v5[p] \subseteq 1 .. v2 BY DEF BackupsFacts
  <2>2. 1 .. v2 \subseteq 1 .. v2' BY <1>1, <1>2
  <2>. QED BY <1>1, <2>1, <2>2
<1>13. \A d \in A : v6'[d].stage = "uploaded" => v6'[d].number \in 1 .. v2'
  <2>1. \A d \in A : v6[d].stage = "uploaded" => v6[d].number \in 1 .. v2 BY DEF BackupsFacts
  <2>. QED BY <1>1, <1>2, <1>6, <2>1
<1>14. ASSUME ~v7'
       PROVE  /\ \A d \in A : v6'[d].stage = "cleaning" =>
                   \A i \in DOMAIN v6'[d].old : v6'[d].old[i] + Keep <= v2'
              /\ \A n \in 1 .. v2' : n + Keep > v2' => n \in v1' \cup v3'
  <2>1. /\ \A d \in A : v6[d].stage = "cleaning" =>
             \A i \in DOMAIN v6[d].old : v6[d].old[i] + Keep <= v2
        /\ \A n \in 1 .. v2 : n + Keep > v2 => n \in v1 \cup v3
    BY <1>1, <1>14 DEF BackupsFacts
  <2>2. ASSUME NEW d \in A, v6'[d].stage = "cleaning", NEW i \in DOMAIN v6'[d].old
        PROVE  v6'[d].old[i] + Keep <= v2'
    <3>1. v6'[d] = v6[d] BY <1>6, <2>2
    <3>2. v6[d].old \in Seq(1 .. MaxBackups) BY <1>2 DEF BackupCalls
    <3>3. v6[d].old[i] + Keep <= v2 /\ v6[d].old[i] \in Nat BY <2>1, <2>2, <3>1, <3>2, BackupsCounts
    <3>. QED BY <1>1, <1>2, <3>1, <3>3, BackupsCounts
  <2>3. ASSUME NEW n \in 1 .. v2', n + Keep > v2'
        PROVE  n \in v1' \cup v3'
    <3>1. n = v2 + 1 \/ n \in 1 .. v2 BY <1>1, <1>2
    <3>2. n \in 1 .. v2 => n + Keep > v2 BY <1>1, <1>2, <2>3, BackupsCounts
    <3>. QED BY <1>1, <2>1, <3>1, <3>2
  <2>. QED BY <2>2, <2>3
<1>. QED BY <1>1, <1>5, <1>6, <1>9, <1>10, <1>11, <1>12, <1>13, <1>14 DEF BackupsFacts

\* What a call and a memory still hold after one of them changed.
LEMMA BackupEnds ==
    ASSUME BackupsFacts, NEW c \in A, v6' = [v6 EXCEPT ![c] = Backups!Idle],
           v9' \in 0 .. MaxFaults, UNCHANGED <<v1, v2, v3, v4, v5, v7, v8>>
    PROVE  BackupsFacts'
<1>1. v6 \in [A -> BackupCalls] BY DEF BackupsFacts
<1>2. /\ v6' \in [A -> BackupCalls] /\ v6'[c].stage = "idle"
      /\ \A d \in A : d # c => v6'[d] = v6[d]
  BY <1>1, IdleBackup
<1>3. \A d \in A : /\ v6'[d].stage = "uploaded" => v6[d].stage = "uploaded"
                   /\ v6'[d].stage = "uploaded" => v6'[d].number = v6[d].number
                   /\ v6'[d].stage = "exporting" => v6[d].stage = "exporting"
  BY <1>2
<1>4. \A d \in A : v6'[d].stage = "cleaning" => v6'[d] = v6[d] BY <1>2
<1>5. /\ v2' = v2 /\ v1' \subseteq v1 /\ v3 \subseteq v3' /\ v3' \in SUBSET (1 .. MaxBackups)
      /\ v4' \in [Processes -> Seq(1 .. MaxBackups)] /\ \A p \in Processes : Within(v4'[p], v2)
      /\ v5' \in [Processes -> (SUBSET (1 .. MaxBackups)) \cup {{0}}]
      /\ \A p \in Processes : v5'[p] # {0} => v5'[p] \subseteq 1 .. v2
      /\ v7' \in BOOLEAN /\ v8' \in 0 .. MaxLists /\ (v7 => v7')
  BY DEF BackupsFacts
<1>6. ~v7' => /\ \A p \in Processes : Descends(v4'[p])
              /\ \A d \in A : v6'[d].stage = "cleaning" =>
                   \A i \in DOMAIN v6'[d].old : v6'[d].old[i] + Keep <= v2
              /\ \A n \in v1 \ v1' : n + Keep <= v2 \/ n \in v3'
  BY <1>4 DEF BackupsFacts
<1>. QED BY <1>2, <1>3, <1>5, <1>6, BackupsGoOn

LEMMA BackupIsRemembered ==
    ASSUME BackupsFacts, NEW c \in A, Backups!Remember(c)
    PROVE  BackupsFacts'
<1>1. PICK p : p = v6[c].process OBVIOUS
<1>2. PICK n : n = v6[c].number OBVIOUS
<1>3. /\ v6[c].stage = "uploaded" /\ v4' = [v4 EXCEPT ![p] = <<n>> \o @]
      /\ v7' = (v7 \/ \E m \in Backups!Remembered(p) : m >= n)
      /\ v6' = [v6 EXCEPT ![c].stage = "cleaning", ![c].old = Backups!Old(v4'[p])]
      /\ UNCHANGED <<v1, v2, v3, v5, v8, v9>>
  BY <1>1, <1>2 DEF Backups!Remember
<1>4. /\ v6 \in [A -> BackupCalls] /\ p \in Processes /\ n \in 1 .. v2 /\ n \in 1 .. MaxBackups
      /\ v4 \in [Processes -> Seq(1 .. MaxBackups)] /\ Within(v4[p], v2) /\ v2 \in Nat
  <2>1. /\ v6 \in [A -> BackupCalls] /\ v4 \in [Processes -> Seq(1 .. MaxBackups)]
        /\ \A q \in Processes : Within(v4[q], v2)
        /\ v2 \in 0 .. MaxBackups /\ v6[c].number \in 1 .. v2
    BY <1>3 DEF BackupsFacts
  <2>2. v6[c].process \in Processes BY <2>1 DEF BackupCalls
  <2>3. n \in 1 .. MaxBackups BY <1>2, <2>1, BackupsCounts
  <2>. QED BY <1>1, <1>2, <2>1, <2>2, <2>3
<1>5. PICK q \in Seq(1 .. MaxBackups) :
        /\ q = <<n>> \o v4[p] /\ Len(q) = Len(v4[p]) + 1
        /\ \A i \in 1 .. Len(q) : q[i] = IF i <= 1 THEN n ELSE v4[p][i - 1]
  <2>0. PICK s \in Seq(1 .. MaxBackups) : s = <<n>> /\ Len(s) = 1 /\ s[1] = n
    <3>1. n \in 1 .. MaxBackups BY <1>4
    <3>2. <<n>> \in Seq(1 .. MaxBackups) /\ Len(<<n>>) = 1 /\ <<n>>[1] = n BY <3>1
    <3>. QED BY <3>2, Zenon
  <2>1. v4[p] \in Seq(1 .. MaxBackups) BY <1>4
  <2>2. /\ s \o v4[p] \in Seq(1 .. MaxBackups) /\ Len(s \o v4[p]) = 1 + Len(v4[p])
        /\ \A i \in 1 .. Len(s) + Len(v4[p]) :
             (s \o v4[p])[i] = IF i <= Len(s) THEN s[i] ELSE v4[p][i - Len(s)]
    BY <2>0, <2>1, ConcatProperties
  <2>3. PICK q \in Seq(1 .. MaxBackups) : q = s \o v4[p] BY <2>2
  <2>4. \A i \in 1 .. Len(q) : q[i] = IF i <= 1 THEN n ELSE v4[p][i - 1] BY <2>0, <2>1, <2>2, <2>3
  <2>5. q = <<n>> \o v4[p] /\ Len(q) = Len(v4[p]) + 1 BY <2>0, <2>1, <2>2, <2>3
  <2>. QED BY <2>4, <2>5, Zenon
<1>6. /\ Len(q) = Len(v4[p]) + 1 /\ q[1] = n
      /\ \A i \in 2 .. Len(q) : i - 1 \in DOMAIN v4[p] /\ q[i] = v4[p][i - 1]
  <2>1. v4[p] \in Seq(1 .. MaxBackups) /\ 1 \in 1 .. Len(q) BY <1>4, <1>5
  <2>2. \A i \in 2 .. Len(q) : i \in 1 .. Len(q) /\ ~(i <= 1) /\ i - 1 \in DOMAIN v4[p]
    BY <1>5, <2>1
  <2>3. \A i \in 2 .. Len(q) : q[i] = v4[p][i - 1] BY <1>5, <2>2
  <2>. QED BY <1>5, <2>1, <2>2, <2>3
<1>7. Within(q, v2)
  <2>. SUFFICES ASSUME NEW i \in DOMAIN q
                PROVE  q[i] \in 1 .. v2
    BY DEF Within
  <2>1. i = 1 \/ i \in 2 .. Len(q) BY <1>5
  <2>. QED BY <1>4, <1>6, <2>1 DEF Within
<1>8. ASSUME ~v7'
      PROVE  ~v7 /\ Descends(q)
  <2>1. ~v7 /\ \A m \in Backups!Remembered(p) : ~(m >= n) BY <1>3, <1>8, Zenon
  <2>2. \A i \in DOMAIN v4[p] : ~(v4[p][i] >= n) /\ v4[p][i] \in Nat
    <3>1. \A i \in DOMAIN v4[p] : v4[p][i] \in Backups!Remembered(p) BY DEF Backups!Remembered
    <3>. QED BY <1>4, <2>1, <3>1 DEF Within
  <2>3. Descends(v4[p]) BY <1>4, <2>1 DEF BackupsFacts
  <2>4. ASSUME NEW i \in DOMAIN q, NEW j \in DOMAIN q, i < j
        PROVE  q[i] > q[j]
    <3>1. /\ j \in 2 .. Len(q) /\ q[j] = v4[p][j - 1] /\ j - 1 \in DOMAIN v4[p]
          /\ (i = 1 \/ i \in 2 .. Len(q))
      BY <1>5, <1>6, <2>4
    <3>2. CASE i = 1 BY <1>4, <1>6, <2>2, <3>1, <3>2
    <3>3. CASE i \in 2 .. Len(q)
      <4>1. q[i] = v4[p][i - 1] /\ i - 1 \in DOMAIN v4[p] /\ i - 1 < j - 1 BY <1>6, <2>4, <3>1, <3>3
      <4>. QED BY <2>3, <3>1, <4>1 DEF Descends
    <3>. QED BY <3>1, <3>2, <3>3
  <2>. QED BY <2>1, <2>4 DEF Descends
<1>9. /\ v4' \in [Processes -> Seq(1 .. MaxBackups)] /\ v4'[p] = q
      /\ \A r \in Processes : r # p => v4'[r] = v4[r]
  BY <1>3, <1>4, <1>5
<1>10. PICK o \in Seq(1 .. MaxBackups) : o = Backups!Old(q) BY <1>4, BeyondIsOld
<1>11. /\ v6' \in [A -> BackupCalls] /\ v6'[c].stage = "cleaning" /\ v6'[c].old = o
       /\ \A d \in A : d # c => v6'[d] = v6[d]
  <2>1. v6' = [v6 EXCEPT ![c].stage = "cleaning", ![c].old = o] BY <1>3, <1>9, <1>10
  <2>. QED BY <1>4, <2>1 DEF BackupCalls
<1>12. /\ v2' = v2 /\ v1' \subseteq v1 /\ v3 \subseteq v3' /\ v3' \in SUBSET (1 .. MaxBackups)
       /\ v5' \in [Processes -> (SUBSET (1 .. MaxBackups)) \cup {{0}}]
       /\ \A r \in Processes : v5'[r] # {0} => v5'[r] \subseteq 1 .. v2
       /\ v8' \in 0 .. MaxLists /\ v9' \in 0 .. MaxFaults
  BY <1>3 DEF BackupsFacts
<1>13. \A r \in Processes : Within(v4'[r], v2) BY <1>7, <1>9 DEF BackupsFacts
<1>14. v7' \in BOOLEAN /\ (v7 => v7')
  <2>1. v7 \in BOOLEAN BY DEF BackupsFacts
  <2>. QED BY <1>3, <2>1, Zenon
<1>15. \A d \in A : /\ v6'[d].stage = "uploaded" => v6[d].stage = "uploaded"
                    /\ v6'[d].stage = "uploaded" => v6'[d].number = v6[d].number
                    /\ v6'[d].stage = "exporting" => v6[d].stage = "exporting"
  BY <1>11
<1>16. ASSUME ~v7'
       PROVE  /\ \A r \in Processes : Descends(v4'[r])
              /\ \A d \in A : v6'[d].stage = "cleaning" =>
                   \A i \in DOMAIN v6'[d].old : v6'[d].old[i] + Keep <= v2
              /\ \A m \in v1 \ v1' : m + Keep <= v2 \/ m \in v3'
  <2>1. /\ \A r \in Processes : Descends(v4[r])
        /\ \A d \in A : v6[d].stage = "cleaning" =>
             \A i \in DOMAIN v6[d].old : v6[d].old[i] + Keep <= v2
    BY <1>8, <1>16 DEF BackupsFacts
  <2>2. \A i \in DOMAIN o : o[i] + Keep <= v2 BY <1>4, <1>7, <1>8, <1>10, <1>16, BeyondIsOld
  <2>3. \A d \in A : v6'[d].stage = "cleaning" =>
             \A i \in DOMAIN v6'[d].old : v6'[d].old[i] + Keep <= v2
    BY <1>11, <2>1, <2>2
  <2>4. \A r \in Processes : Descends(v4'[r]) BY <1>8, <1>9, <1>16, <2>1
  <2>. QED BY <1>3, <2>3, <2>4
<1>. QED BY <1>9, <1>11, <1>12, <1>13, <1>14, <1>15, <1>16, BackupsGoOn

LEMMA OldBackupIsDeleted ==
    ASSUME BackupsFacts, NEW c \in A, Backups!CleanUp(c)
    PROVE  BackupsFacts'
<1>1. PICK p : p = v6[c].process OBVIOUS
<1>2. PICK o : o = v6[c].old OBVIOUS
<1>3. PICK n : n = Head(o) OBVIOUS
<1>4. /\ v6[c].stage = "cleaning" /\ o # <<>>
      /\ IF n \in Backups!Remembered(p)
         THEN v1' = v1 \ {n} /\ v4' = Backups!Forget(p, n)
         ELSE UNCHANGED <<v1, v4>>
      /\ v6' = [v6 EXCEPT ![c].old = Tail(@)]
      /\ UNCHANGED <<v2, v3, v5, v7, v8, v9>>
  BY <1>1, <1>2, <1>3 DEF Backups!CleanUp
<1>5. /\ v6 \in [A -> BackupCalls] /\ p \in Processes /\ o \in Seq(1 .. MaxBackups)
      /\ v4 \in [Processes -> Seq(1 .. MaxBackups)] /\ \A r \in Processes : Within(v4[r], v2)
  <2>1. /\ v6 \in [A -> BackupCalls] /\ v4 \in [Processes -> Seq(1 .. MaxBackups)]
        /\ \A r \in Processes : Within(v4[r], v2)
    BY DEF BackupsFacts
  <2>2. v6[c].process \in Processes /\ v6[c].old \in Seq(1 .. MaxBackups) BY <2>1 DEF BackupCalls
  <2>. QED BY <1>1, <1>2, <2>1, <2>2
<1>6. PICK t \in Seq(1 .. MaxBackups) :
        /\ t = Tail(o) /\ 1 \in DOMAIN o /\ n = o[1]
        /\ \A i \in DOMAIN t : i + 1 \in DOMAIN o /\ t[i] = o[i + 1]
  <2>1. Len(o) # 0 BY <1>4, <1>5, EmptySeq
  <2>2. /\ Tail(o) \in Seq(1 .. MaxBackups) /\ Len(Tail(o)) = Len(o) - 1
        /\ Head(o) = o[1] /\ \A i \in 1 .. Len(Tail(o)) : Tail(o)[i] = o[i + 1]
    BY <1>4, <1>5, HeadTailProperties
  <2>3. /\ 1 \in DOMAIN o /\ DOMAIN Tail(o) = 1 .. Len(Tail(o))
        /\ \A i \in 1 .. Len(Tail(o)) : i + 1 \in DOMAIN o
    BY <1>5, <2>1, <2>2
  <2>. QED BY <1>3, <2>2, <2>3
<1>7. /\ v6' \in [A -> BackupCalls] /\ v6'[c].stage = "cleaning" /\ v6'[c].old = t
      /\ \A d \in A : d # c => v6'[d] = v6[d]
  <2>1. v6' = [v6 EXCEPT ![c].old = t] BY <1>2, <1>4, <1>5, <1>6
  <2>2. v6[c] \in BackupCalls /\ [v6[c] EXCEPT !.old = t] \in BackupCalls
    BY <1>5, <1>6 DEF BackupCalls
  <2>3. /\ [v6[c] EXCEPT !.old = t].old = t
        /\ [v6[c] EXCEPT !.old = t].stage = "cleaning"
    BY <1>4, <2>2 DEF BackupCalls
  <2>4. v6' = [v6 EXCEPT ![c] = [v6[c] EXCEPT !.old = t]] BY <1>5, <2>1
  <2>. QED BY <1>5, <2>2, <2>3, <2>4
<1>8. /\ v1' \subseteq v1 /\ v1 \ v1' \subseteq {n}
      /\ v4' \in [Processes -> Seq(1 .. MaxBackups)] /\ \A r \in Processes : Within(v4'[r], v2)
      /\ \A r \in Processes : Descends(v4[r]) => Descends(v4'[r])
  <2>1. CASE n \in Backups!Remembered(p)
    <3>1. v1' = v1 \ {n} /\ v4' = Backups!Forget(p, n) BY <1>4, <2>1
    <3>2. v4' = [v4 EXCEPT ![p] = Without(v4[p], n)]
      BY <3>1, BackupsKeptIsRest DEF Backups!Forget, Without
    <3>3. /\ Without(v4[p], n) \in Seq(1 .. MaxBackups) /\ Within(Without(v4[p], n), v2)
          /\ Descends(v4[p]) => Descends(Without(v4[p], n))
      BY <1>5, WithoutDescends
    <3>. QED BY <1>5, <3>1, <3>2, <3>3
  <2>2. CASE n \notin Backups!Remembered(p) BY <1>4, <1>5, <2>2
  <2>. QED BY <2>1, <2>2
<1>9. /\ v2' = v2 /\ v3 \subseteq v3' /\ v3' \in SUBSET (1 .. MaxBackups)
      /\ v5' \in [Processes -> (SUBSET (1 .. MaxBackups)) \cup {{0}}]
      /\ \A r \in Processes : v5'[r] # {0} => v5'[r] \subseteq 1 .. v2
      /\ v8' \in 0 .. MaxLists /\ v9' \in 0 .. MaxFaults /\ v7' \in BOOLEAN /\ (v7 => v7')
  BY <1>4 DEF BackupsFacts
<1>10. \A d \in A : /\ v6'[d].stage = "uploaded" => v6[d].stage = "uploaded"
                    /\ v6'[d].stage = "uploaded" => v6'[d].number = v6[d].number
                    /\ v6'[d].stage = "exporting" => v6[d].stage = "exporting"
  BY <1>7
<1>11. ASSUME ~v7'
       PROVE  /\ \A r \in Processes : Descends(v4'[r])
              /\ \A d \in A : v6'[d].stage = "cleaning" =>
                   \A i \in DOMAIN v6'[d].old : v6'[d].old[i] + Keep <= v2
              /\ \A m \in v1 \ v1' : m + Keep <= v2 \/ m \in v3'
  <2>1. /\ \A r \in Processes : Descends(v4[r])
        /\ \A d \in A : v6[d].stage = "cleaning" =>
             \A i \in DOMAIN v6[d].old : v6[d].old[i] + Keep <= v2
    BY <1>4, <1>11 DEF BackupsFacts
  <2>2. \A i \in DOMAIN o : o[i] + Keep <= v2 BY <1>2, <1>4, <2>1
  <2>3. \A i \in DOMAIN t : t[i] + Keep <= v2 BY <1>6, <2>2
  <2>4. \A d \in A : v6'[d].stage = "cleaning" =>
             \A i \in DOMAIN v6'[d].old : v6'[d].old[i] + Keep <= v2
    BY <1>7, <2>1, <2>3
  <2>5. n + Keep <= v2 BY <1>6, <2>2
  <2>6. \A r \in Processes : Descends(v4'[r]) BY <1>8, <2>1
  <2>. QED BY <1>8, <2>4, <2>5, <2>6
<1>. QED BY <1>7, <1>8, <1>9, <1>10, <1>11, BackupsGoOn

\* Calls and uploads are untouched: only memories and listings change.
LEMMA MemoriesChange ==
    ASSUME BackupsFacts, v1' \subseteq v1, v3 \subseteq v3',
           v3' \in SUBSET (1 .. MaxBackups),
           v4' \in [Processes -> Seq(1 .. MaxBackups)],
           \A p \in Processes : Within(v4'[p], v2) /\ (Descends(v4[p]) => Descends(v4'[p])),
           v5' \in [Processes -> (SUBSET (1 .. MaxBackups)) \cup {{0}}],
           \A p \in Processes : v5'[p] # {0} => v5'[p] \subseteq 1 .. v2,
           v1 \ v1' \subseteq v3',
           v8' \in 0 .. MaxLists, v9' \in 0 .. MaxFaults,
           v6' \in [A -> BackupCalls],
           \A c \in A : v6'[c] = v6[c] \/ v6'[c].stage = "idle",
           UNCHANGED <<v2, v7>>
    PROVE  BackupsFacts'
<1>1. \A c \in A : /\ v6'[c].stage = "uploaded" => v6[c].stage = "uploaded"
                   /\ v6'[c].stage = "uploaded" => v6'[c].number = v6[c].number
                   /\ v6'[c].stage = "exporting" => v6[c].stage = "exporting"
                   /\ v6'[c].stage = "cleaning" => v6'[c] = v6[c]
  OBVIOUS
<1>2. v7' \in BOOLEAN /\ (v7 => v7') BY DEF BackupsFacts
<1>3. ~v7' => /\ \A p \in Processes : Descends(v4'[p])
              /\ \A c \in A : v6'[c].stage = "cleaning" =>
                   \A i \in DOMAIN v6'[c].old : v6'[c].old[i] + Keep <= v2
              /\ \A n \in v1 \ v1' : n + Keep <= v2 \/ n \in v3'
  BY <1>1 DEF BackupsFacts
<1>. QED BY <1>1, <1>2, <1>3, BackupsGoOn

\* An answer of Cloudinary's is a listing, and no backup has number 0.
LEMMA AnswersAreListings ==
    ASSUME BackupsFacts
    PROVE  /\ v1 \in (SUBSET (1 .. MaxBackups)) \cup {{0}} /\ v1 \subseteq 1 .. v2
           /\ v3 \subseteq v3 /\ v1 \ v1 \subseteq v3
           /\ v2 \in Nat /\ v3 \in SUBSET (1 .. MaxBackups) /\ v6 \in [A -> BackupCalls]
           /\ v4 \in [Processes -> Seq(1 .. MaxBackups)] /\ \A p \in Processes : Within(v4[p], v2)
           /\ v5 \in [Processes -> (SUBSET (1 .. MaxBackups)) \cup {{0}}]
           /\ \A p \in Processes : v5[p] # {0} => v5[p] \subseteq 1 .. v2
           /\ v8 \in 0 .. MaxLists /\ v9 \in 0 .. MaxFaults
           /\ MaxLists \in Nat /\ MaxFaults \in Nat
<1>1. v1 \subseteq 1 .. v2 /\ v2 \in 0 .. MaxBackups BY DEF BackupsFacts
<1>2. 1 .. v2 \subseteq 1 .. MaxBackups BY <1>1, BackupsCounts
<1>3. /\ v1 \in SUBSET (1 .. MaxBackups) /\ v2 \in Nat /\ v3 \subseteq v3 /\ v1 \ v1 \subseteq v3
  BY <1>1, <1>2, BackupsCounts
<1>4. /\ v3 \in SUBSET (1 .. MaxBackups) /\ v6 \in [A -> BackupCalls]
      /\ v4 \in [Processes -> Seq(1 .. MaxBackups)] /\ \A p \in Processes : Within(v4[p], v2)
      /\ v5 \in [Processes -> (SUBSET (1 .. MaxBackups)) \cup {{0}}]
      /\ \A p \in Processes : v5[p] # {0} => v5[p] \subseteq 1 .. v2
      /\ v8 \in 0 .. MaxLists /\ v9 \in 0 .. MaxFaults
  BY Zenon DEF BackupsFacts
<1>. QED BY <1>1, <1>3, <1>4, BackupsCounts, Zenon

LEMMA BackupDeleted ==
    ASSUME BackupsFacts, NEW p \in Processes, NEW n \in 1 .. MaxBackups,
           Backups!DeleteBackup(p, n)
    PROVE  BackupsFacts'
<1>1. /\ v9 < MaxFaults /\ v1' = v1 \ {n} /\ v3' = v3 \cup {n} /\ v9' = v9 + 1
      /\ v4' = Backups!Forget(p, n) /\ UNCHANGED <<v2, v5, v6, v7, v8>>
  BY DEF Backups!DeleteBackup
<1>2. v4' = [v4 EXCEPT ![p] = Without(v4[p], n)]
  BY <1>1, BackupsKeptIsRest DEF Backups!Forget, Without
<1>3. /\ Without(v4[p], n) \in Seq(1 .. MaxBackups) /\ Within(Without(v4[p], n), v2)
      /\ Descends(v4[p]) => Descends(Without(v4[p], n))
  BY AnswersAreListings, WithoutDescends
<1>4. /\ v4' \in [Processes -> Seq(1 .. MaxBackups)]
      /\ \A q \in Processes : Within(v4'[q], v2) /\ (Descends(v4[q]) => Descends(v4'[q]))
  BY <1>2, <1>3, AnswersAreListings
<1>5. v9' \in 0 .. MaxFaults BY <1>1, AnswersAreListings
<1>6. /\ v1' \subseteq v1 /\ v3 \subseteq v3' /\ v3' \in SUBSET (1 .. MaxBackups)
      /\ v1 \ v1' \subseteq v3'
  BY <1>1, AnswersAreListings
<1>7. \A c \in A : v6'[c] = v6[c] \/ v6'[c].stage = "idle" BY <1>1
<1>. QED BY <1>1, <1>4, <1>5, <1>6, <1>7, AnswersAreListings, MemoriesChange

LEMMA CloudinaryIsAsked ==
    ASSUME BackupsFacts, NEW p \in Processes, Backups!AskCloudinary(p)
    PROVE  BackupsFacts'
<1>1. /\ v8 < MaxLists /\ v8' = v8 + 1 /\ v5' = [v5 EXCEPT ![p] = v1]
      /\ UNCHANGED <<v1, v2, v3, v4, v6, v7, v9>>
  BY DEF Backups!AskCloudinary
<1>2. /\ v5' \in [Processes -> (SUBSET (1 .. MaxBackups)) \cup {{0}}]
      /\ \A q \in Processes : v5'[q] # {0} => v5'[q] \subseteq 1 .. v2
  BY <1>1, AnswersAreListings
<1>3. v8' \in 0 .. MaxLists BY <1>1, AnswersAreListings
<1>4. /\ \A q \in Processes : Within(v4'[q], v2) /\ (Descends(v4[q]) => Descends(v4'[q]))
      /\ \A c \in A : v6'[c] = v6[c] \/ v6'[c].stage = "idle"
  BY <1>1, AnswersAreListings
<1>. QED BY <1>1, <1>2, <1>3, <1>4, AnswersAreListings, MemoriesChange

\* A process takes over a listing, or nothing.
LEMMA ListingTaken ==
    ASSUME BackupsFacts, NEW p \in Processes, Backups!LoadBackups(p) \/ Backups!LoadFails(p)
    PROVE  BackupsFacts'
<1>1. PICK q \in Seq(1 .. MaxBackups) :
        Within(q, v2) /\ Descends(q) /\ v4' = [v4 EXCEPT ![p] = q]
  <2>1. CASE Backups!LoadBackups(p)
    <3>1. v5[p] # {0} /\ v4' = [v4 EXCEPT ![p] = Backups!NewestFirst(v5[p])]
      BY <2>1 DEF Backups!LoadBackups, Backups!NoAnswer
    <3>2. v5[p] \in SUBSET (1 .. v2) /\ v2 \in Nat BY <3>1, AnswersAreListings
    <3>3. /\ Backups!NewestFirst(v5[p]) \in Seq(v5[p])
          /\ Descends(Backups!NewestFirst(v5[p]))
      BY <3>2, NewestFirstDescends
    <3>4. v5[p] \subseteq 1 .. MaxBackups BY <3>1, AnswersAreListings
    <3>5. PICK S \in SUBSET (1 .. v2) : S = v5[p] /\ S \subseteq 1 .. MaxBackups BY <3>2, <3>4
    <3>6. PICK q \in Seq(S) : q = Backups!NewestFirst(S) /\ Descends(q) BY <3>3, <3>5
    <3>7. Len(q) \in Nat /\ q \in [1 .. Len(q) -> S] BY <3>6
    <3>8. q \in [1 .. Len(q) -> 1 .. MaxBackups] /\ \A i \in DOMAIN q : q[i] \in 1 .. v2
      BY <3>5, <3>7
    <3>9. q \in Seq(1 .. MaxBackups) BY <3>5, <3>6, SeqMonotonic
    <3>10. Within(q, v2) BY <3>8, Zenon DEF Within
    <3>. QED BY <3>1, <3>5, <3>6, <3>9, <3>10
  <2>2. CASE Backups!LoadFails(p)
    <3>1. v4' = [v4 EXCEPT ![p] = <<>>] BY <2>2 DEF Backups!LoadFails
    <3>2. <<>> \in Seq(1 .. MaxBackups) /\ Within(<<>>, v2) /\ Descends(<<>>)
      BY EmptySeq DEF Within, Descends
    <3>. QED BY <3>1, <3>2
  <2>. QED BY <2>1, <2>2
<1>2. v5' = [v5 EXCEPT ![p] = {0}] /\ UNCHANGED <<v1, v2, v3, v6, v7, v8>>
  BY DEF Backups!LoadBackups, Backups!LoadFails, Backups!NoAnswer
<1>3. v9' \in 0 .. MaxFaults
  <2>1. v9' = v9 \/ (v9 < MaxFaults /\ v9' = v9 + 1) BY DEF Backups!LoadBackups, Backups!LoadFails
  <2>. QED BY <2>1, AnswersAreListings
<1>4. /\ v4' \in [Processes -> Seq(1 .. MaxBackups)]
      /\ \A r \in Processes : Within(v4'[r], v2) /\ (Descends(v4[r]) => Descends(v4'[r]))
  BY <1>1, AnswersAreListings
<1>5. /\ v5' \in [Processes -> (SUBSET (1 .. MaxBackups)) \cup {{0}}]
      /\ \A r \in Processes : v5'[r] # {0} => v5'[r] \subseteq 1 .. v2
  BY <1>2, AnswersAreListings
<1>6. \A c \in A : v6'[c] = v6[c] \/ v6'[c].stage = "idle" BY <1>2
<1>. QED BY <1>2, <1>3, <1>4, <1>5, <1>6, AnswersAreListings, MemoriesChange

LEMMA ProcessRestarts ==
    ASSUME BackupsFacts, NEW p \in Processes, Backups!Restart(p)
    PROVE  BackupsFacts'
<1>1. /\ v9 < MaxFaults /\ v9' = v9 + 1 /\ v4' = [v4 EXCEPT ![p] = <<>>]
      /\ v5' = [v5 EXCEPT ![p] = v1]
      /\ v6' = [c \in A |-> IF v6[c].process = p THEN Backups!Idle ELSE v6[c]]
      /\ UNCHANGED <<v1, v2, v3, v7, v8>>
  BY DEF Backups!Restart
<1>2. <<>> \in Seq(1 .. MaxBackups) /\ Within(<<>>, v2) /\ Descends(<<>>)
  BY EmptySeq DEF Within, Descends
<1>3. /\ v4' \in [Processes -> Seq(1 .. MaxBackups)]
      /\ \A r \in Processes : Within(v4'[r], v2) /\ (Descends(v4[r]) => Descends(v4'[r]))
  BY <1>1, <1>2, AnswersAreListings
<1>4. /\ v5' \in [Processes -> (SUBSET (1 .. MaxBackups)) \cup {{0}}]
      /\ \A r \in Processes : v5'[r] # {0} => v5'[r] \subseteq 1 .. v2
  BY <1>1, AnswersAreListings
<1>5. v6' \in [A -> BackupCalls] /\ \A c \in A : v6'[c] = v6[c] \/ v6'[c].stage = "idle"
  BY <1>1, IdleBackup, AnswersAreListings
<1>6. v9' \in 0 .. MaxFaults BY <1>1, AnswersAreListings
<1>. QED BY <1>1, <1>3, <1>4, <1>5, <1>6, AnswersAreListings, MemoriesChange

LEMMA BackupsKept ==
    ASSUME BackupsFacts, Backups!Next
    PROVE  BackupsFacts'
<1>1. ASSUME NEW c \in A, Backups!BackupFails(c) \/ Backups!CleanUpFails(c) \/ Backups!CleanedUp(c)
      PROVE  BackupsFacts'
  <2>1. /\ v6' = [v6 EXCEPT ![c] = Backups!Idle] /\ UNCHANGED <<v1, v2, v3, v4, v5, v7, v8>>
        /\ v9' = v9 \/ (v9 < MaxFaults /\ v9' = v9 + 1)
    BY <1>1 DEF Backups!BackupFails, Backups!CleanUpFails, Backups!CleanedUp
  <2>2. v9' \in 0 .. MaxFaults BY <2>1, AnswersAreListings
  <2>. QED BY <2>1, <2>2, BackupEnds
<1>2. \A n : n \in Backups!Numbers => n \in 1 .. MaxBackups BY DEF Backups!Numbers
<1>. QED
  BY <1>1, <1>2, BackupBegins, BackupIsUploaded, BackupIsRemembered, OldBackupIsDeleted,
   BackupDeleted, CloudinaryIsAsked, ListingTaken, ProcessRestarts DEF Backups!Next

LEMMA BackupsStay ==
    ASSUME Backups!BackupsInv, Backups!Next \/ UNCHANGED BackupsVars
    PROVE  Backups!BackupsInv'
<1>1. BackupsFacts BY BackupsHold
<1>2. CASE Backups!Next BY <1>1, <1>2, BackupsKept, NextBackupsHold
<1>3. CASE UNCHANGED BackupsVars
  <2>1. UNCHANGED <<v1, v2, v3, v4, v5, v6, v7, v8, v9>> BY <1>3 DEF BackupsVars
  <2>2. BackupsFacts' BY <1>1, <2>1, AnswersAreListings, MemoriesChange
  <2>. QED BY <2>2, NextBackupsHold
<1>. QED BY <1>2, <1>3

(* Listings: listing is v1, key v2, group v3, reader v4, added v5, removed  *)
(* v6, moved v7, steady v8 and changes v9.  Where the order tells documents *)
(* apart a document stands at its rank, the number of documents up to it;   *)
(* what was shown and what is still to come is told from the ranks.         *)

\* The facts on finite sets, of the instance's Cardinality.
LEMMA SameSizes ==
    /\ \A S : Lists!IsFiniteSet(S) <=> IsFiniteSet(S)
    /\ \A S : Lists!Cardinality(S) = Cardinality(S)
BY Zenon DEF Lists!Cardinality, Cardinality, Lists!IsFiniteSet, IsFiniteSet

LEMMA SizeType ==
    ASSUME NEW S, Lists!IsFiniteSet(S)
    PROVE  /\ Lists!Cardinality(S) \in Nat
           /\ ExistsBijection(1..Lists!Cardinality(S), S)
BY SameSizes, FS_CardinalityType, Zenon

LEMMA SizeOfSubset ==
    ASSUME NEW S, Lists!IsFiniteSet(S), NEW T \in SUBSET S
    PROVE  /\ Lists!IsFiniteSet(T)
           /\ Lists!Cardinality(T) <= Lists!Cardinality(S)
           /\ Lists!Cardinality(S) = Lists!Cardinality(T) => S = T
BY SameSizes, FS_Subset, Zenon

LEMMA SizeOfNone ==
    /\ Lists!IsFiniteSet({})
    /\ Lists!Cardinality({}) = 0
    /\ \A S : Lists!IsFiniteSet(S) => (Lists!Cardinality(S) = 0 <=> S = {})
BY SameSizes, FS_EmptySet, Zenon

LEMMA SizeOfInterval ==
    ASSUME NEW a \in Int, NEW b \in Int
    PROVE  /\ Lists!IsFiniteSet(a..b)
           /\ Lists!Cardinality(a..b) = IF a > b THEN 0 ELSE b-a+1
BY SameSizes, FS_Interval, Zenon

LEMMA SizeOfOneMore ==
    ASSUME NEW S, NEW x, Lists!IsFiniteSet(S)
    PROVE  /\ Lists!IsFiniteSet(S \cup {x})
           /\ Lists!Cardinality(S \cup {x}) =
              IF x \in S THEN Lists!Cardinality(S) ELSE Lists!Cardinality(S)+1
BY SameSizes, FS_AddElement, Zenon

LEMMA SizeOfUnion ==
    ASSUME NEW S, Lists!IsFiniteSet(S),
           NEW T, Lists!IsFiniteSet(T)
    PROVE  /\ Lists!IsFiniteSet(S \cup T)
           /\ Lists!Cardinality(S \cup T) =
                 Lists!Cardinality(S) + Lists!Cardinality(T) - Lists!Cardinality(S \cap T)
BY SameSizes, FS_Union, Zenon

LEMMA SizeOfInjection ==
    ASSUME NEW S, NEW T, NEW f \in Injection(S,T), Lists!IsFiniteSet(T)
    PROVE  /\ Lists!IsFiniteSet(S)
           /\ Lists!Cardinality(S) <= Lists!Cardinality(T)
           /\ Lists!Cardinality(S) = Lists!Cardinality(T) <=> f \in Surjection(S,T)
BY SameSizes, FS_Injection, Zenon

LEMMA SizeOfSurjection ==
    ASSUME NEW S, NEW T, NEW f \in Surjection(S,T), Lists!IsFiniteSet(S)
    PROVE  /\ Lists!IsFiniteSet(T)
           /\ Lists!Cardinality(T) <= Lists!Cardinality(S)
           /\ Lists!Cardinality(T) = Lists!Cardinality(S) <=> f \in Injection(S,T)
BY SameSizes, FS_Surjection, Zenon

LEMMA SizeCounted ==
    ASSUME NEW S, NEW n \in Nat, ExistsBijection(1..n,S)
    PROVE  Lists!Cardinality(S) = n
BY SameSizes, FS_CountingElements, Zenon

(* The catalogue, and the types in words that the provers understand.      *)

LEMMA Catalogued ==
    ASSUME NEW l \in Lists!Kinds
    PROVE  /\ l.sort \in {"newest", "touched", "due", "none", "count", "some"}
           /\ l.counts \in {"after", "before", "with", "alone"}
           /\ l.sort \in {"count", "some"} => l.counts \in {"after", "with"}
BY DEF Lists!Kinds

LEMMA CatalogueIsTyped ==
    ASSUME NEW l \in Lists!Catalogue
    PROVE  l \in Lists!Kinds
<1>. DEFINE Sorts == {"newest", "touched", "due", "none", "count", "some"}
<1>1. \E s \in Sorts, c \in {"after", "before", "with", "alone"}, f \in BOOLEAN :
        l = Lists!Listing(s, c, f) /\ (s \in {"count", "some"} => c \in {"after", "with"})
  BY DEF Lists!Catalogue, Lists!Listing, Lists!Export, Lists!Statistics,
     Lists!SomeGroups, Lists!MemberAnalytics, Lists!PendingOfTypeEvents, Lists!PendingOfTypePayments,
       Lists!EmailLogs,
     Lists!PendingEventRegistrations, Lists!PendingSubscriptionPayments,
     Lists!PendingDonationPayments,
     Lists!FindAllContacts, Lists!GetChatHistory, Lists!GetComments, Lists!GetEventFeedback,
     Lists!DonationsFindAll,
     Lists!FindUserDonations, Lists!EventsFindAll, Lists!FindConferencesForUser,
     Lists!FindConferences,
     Lists!FindPublicConferences, Lists!FindRegistered, Lists!FaithEntriesFindAll,
     Lists!GetAllCommunications,
     Lists!GetAllTickets, Lists!GetAllTasks, Lists!GetPendingVerifications,
     Lists!GetModerationLogs,
     Lists!GetAllAnnouncements, Lists!GetHistory, Lists!FindAllNotifications,
     Lists!OrdersFindAll, Lists!GetOrderHistory,
     Lists!ListForUser, Lists!LookupByEmail, Lists!LookupForUser, Lists!ProductsFindAll,
     Lists!ResourcesFindAll,
     Lists!SubscriptionsFindAll, Lists!FindUserSubs, Lists!UsersFindAll, Lists!VacanciesFindAll,
     Lists!FindAllJobs,
     Lists!GetMyApplications, Lists!GetShiftsForJob, Lists!GetMyShifts, Lists!ExportUsers,
     Lists!ExportSubscriptions,
     Lists!ExportDonations, Lists!ExportMembersToCSV, Lists!GetAllFollowUps,
     Lists!GetMemberFollowUps, Lists!GetTimeline,
     Lists!DeliverablesFindAll, Lists!DevotionalsFindAll, Lists!DevotionalsForAdmin,
     Lists!TrainingsFindAll,
     Lists!ChaptersFindAll, Lists!UserStats, Lists!OrderStats, Lists!ProductStats,
     Lists!ResourceStats, Lists!VacancyStats,
     Lists!SubscriptionStats, Lists!TrainingStats, Lists!MemberAnalyticsStats,
     Lists!TaskAnalytics, Lists!QueueStatus
<1>2. ASSUME NEW s \in Sorts, NEW c \in {"after", "before", "with", "alone"}, NEW f \in BOOLEAN,
             l = Lists!Listing(s, c, f), s \in {"count", "some"} => c \in {"after", "with"}
      PROVE  l \in Lists!Kinds
  <2>1. l = [sort |-> s, counts |-> c, fixed |-> f]
    BY <1>2 DEF Lists!Listing
  <2>. QED
    BY <1>2, <2>1 DEF Lists!Kinds
<1>. QED
  BY <1>1, <1>2

LEMMA Types ==
    ASSUME Lists!ListingsAssumption, Lists!TypeOK
    PROVE  /\ Lists!IsFiniteSet(Documents) /\ PageSize \in Nat /\ PageSize > 0 /\ MaxChanges \in Nat
           /\ v1 \in Lists!Kinds /\ v2 \in [Documents -> Nat]
           /\ v3 \in [Documents -> {0, 1, 2}] /\ (v1.sort = "count" => v3 \in [Documents -> {1, 2}])
           /\ v4 \in Lists!Readers /\ v8 \in SUBSET Documents
           /\ v4.stage \in {"page", "count", "done"} /\ v4.half \in BOOLEAN
           /\ v4.page \in Nat /\ v4.page > 0 /\ v4.total \in Nat
           /\ v4.seen \in Seq(Documents) /\ v4.parts \in Nat
           /\ v4.left \in SUBSET {0, 1, 2}
           /\ Lists!There \in SUBSET Documents /\ Lists!IsFiniteSet(Lists!There) /\ Lists!Cardinality(Lists!There) \in Nat
           /\ \A g : Lists!OfGroup(g) \in SUBSET Lists!There /\ Lists!IsFiniteSet(Lists!OfGroup(g))
           /\ \A g : Lists!Cardinality(Lists!OfGroup(g)) \in Nat
<1>1. /\ Lists!IsFiniteSet(Documents) /\ PageSize \in Nat /\ PageSize > 0 /\ MaxChanges \in Nat
  BY DEF Lists!ListingsAssumption
<1>2. Lists!Cardinality(Documents) \in Nat
  BY <1>1, SizeType
<1>3. Lists!Stamps \cup {0} \subseteq Nat
  BY <1>2 DEF Lists!Stamps
<1>4. /\ v1 \in Lists!Kinds /\ v2 \in [Documents -> Nat]
      /\ v3 \in [Documents -> Lists!MayBe] /\ v4 \in Lists!Readers /\ v8 \in SUBSET Documents
  BY <1>3 DEF Lists!TypeOK
<1>9. v3 \in [Documents -> {0, 1, 2}] /\ (v1.sort = "count" => v3 \in [Documents -> {1, 2}])
  <2>1. Lists!MayBe \subseteq {0, 1, 2} /\ (v1.sort = "count" => Lists!MayBe = {1, 2})
    BY DEF Lists!MayBe, Lists!Groups
  <2>. QED
    BY <1>4, <2>1
<1>5. /\ v4.stage \in {"page", "count", "done"} /\ v4.half \in BOOLEAN
      /\ v4.page \in Nat /\ v4.page > 0 /\ v4.total \in Nat
      /\ v4.seen \in Seq(Documents) /\ v4.parts \in Nat
      /\ v4.left \in SUBSET {0, 1, 2}
  BY <1>4 DEF Lists!Readers, Lists!Groups
<1>6. Lists!There \in SUBSET Documents /\ \A g : Lists!OfGroup(g) \in SUBSET Lists!There
  BY DEF Lists!There, Lists!OfGroup
<1>7. Lists!IsFiniteSet(Lists!There) /\ \A g : Lists!IsFiniteSet(Lists!OfGroup(g))
  BY <1>1, <1>6, SizeOfSubset
<1>8. Lists!Cardinality(Lists!There) \in Nat /\ \A g : Lists!Cardinality(Lists!OfGroup(g)) \in Nat
  BY <1>7, SizeType
<1>. QED
  BY <1>1, <1>4, <1>5, <1>6, <1>7, <1>8, <1>9

LEMMA Times ==
    ASSUME Lists!ListingsAssumption, NEW n \in Nat
    PROVE  /\ PageSize * n \in Nat /\ n * PageSize = PageSize * n
           /\ PageSize * (n + 1) = PageSize * n + PageSize
           /\ n > 0 => PageSize * n >= PageSize
<1>1. PageSize \in Nat /\ PageSize > 0
  BY DEF Lists!ListingsAssumption
<1>2. \A l \in Nat : l * n \in Nat /\ n * l = l * n /\ l * (n + 1) = l * n + l
  OBVIOUS
<1>3. n > 0 => PageSize * n >= PageSize
  <2>. SUFFICES ASSUME n > 0
                PROVE  PageSize * n >= PageSize
    OBVIOUS
  <2>1. n - 1 \in Nat /\ n = (n - 1) + 1
    OBVIOUS
  <2>2. \A m \in Nat : PageSize * m \in Nat /\ PageSize * (m + 1) = PageSize * m + PageSize
    BY <1>1
  <2>3. PageSize * ((n - 1) + 1) = PageSize * (n - 1) + PageSize /\ PageSize * (n - 1) \in Nat
    BY <2>1, <2>2
  <2>. QED
    BY <1>1, <2>1, <2>3
<1>. QED
  BY <1>1, <1>2, <1>3

-----------------------------------------------------------------------------
(* The order of a listing, and ranks in it.                                *)

LEMMA BeforeIs ==
    ASSUME Lists!TypeOK, NEW d, NEW e
    PROVE  /\ Lists!Ordered => (Lists!Before(d, e) <=> v2[d] > v2[e])
           /\ v1.sort = "due" => (Lists!Before(d, e) <=> v2[d] < v2[e])
           /\ ~Lists!Ordered /\ v1.sort # "due" => ~Lists!Before(d, e)
<1>1. v1.sort = "due" => ~Lists!Ordered
  BY DEF Lists!Ordered
<1>2. CASE Lists!Ordered
  <2>1. v1.sort # "due"
    BY <1>1, <1>2
  <2>2. Lists!Before(d, e) = (v2[d] > v2[e])
    BY <1>2, <2>1, Zenon DEF Lists!Before
  <2>. QED
    BY <1>2, <2>1, <2>2, Zenon
<1>3. CASE v1.sort = "due"
  <2>1. Lists!Before(d, e) = (v2[d] < v2[e])
    BY <1>1, <1>3, Zenon DEF Lists!Before
  <2>. QED
    BY <1>1, <1>3, <2>1, Zenon
<1>4. CASE ~Lists!Ordered /\ v1.sort # "due"
  <2>1. Lists!Before(d, e) = FALSE
    BY <1>4, Zenon DEF Lists!Before
  <2>. QED
    BY <1>4, <2>1, Zenon
<1>. QED
  BY <1>2, <1>3, <1>4, Zenon

LEMMA BeforeIsAnOrder ==
    ASSUME Lists!ListingsAssumption, Lists!TypeOK, NEW d \in Documents, NEW e \in Documents
    PROVE  /\ Lists!Before(d, e) => ~Lists!Before(e, d)
           /\ \A c \in Documents : Lists!Before(c, d) /\ Lists!Before(d, e) => Lists!Before(c, e)
<1>1. \A c \in Documents : v2[c] \in Nat
  BY Types
<1>2. CASE Lists!Ordered
  BY <1>1, <1>2, BeforeIs
<1>3. CASE v1.sort = "due"
  BY <1>1, <1>3, BeforeIs
<1>. QED
  BY <1>2, <1>3, BeforeIs

Told(S) == \A d, e \in S : d = e \/ Lists!Before(d, e) \/ Lists!Before(e, d)

LEMMA UntiedIsTold ==
    ASSUME Lists!ListingsAssumption, Lists!TypeOK, Lists!StampsDiffer, ~Lists!Tied
    PROVE  Told(Lists!There) /\ (~Lists!Ordered => ~v6)
<1>1. CASE Lists!Ordered
  <2>1. \A c \in Lists!There : v2[c] \in Nat
    BY Types
  <2>2. \A d, e \in Lists!There : d = e \/ v2[d] # v2[e]
    BY <1>1 DEF Lists!StampsDiffer
  <2>. QED
    BY <1>1, <2>1, <2>2, BeforeIs DEF Told
<1>2. CASE ~Lists!Ordered
  BY <1>2, BeforeIs DEF Lists!Tied, Told
<1>. QED
  BY <1>1, <1>2

LEMMA RanksGrow ==
    ASSUME Lists!ListingsAssumption, Lists!TypeOK, NEW T \in SUBSET Documents, NEW S \in SUBSET T, NEW d
    PROVE  /\ Lists!IsFiniteSet(T) /\ Lists!Cardinality(T) \in Nat
           /\ Lists!IsFiniteSet(S) /\ Lists!Cardinality(S) \in Nat /\ Lists!Cardinality(S) <= Lists!Cardinality(T)
           /\ Lists!Rank(S, d) \in Nat /\ Lists!Rank(S, d) <= Lists!Rank(T, d) /\ Lists!Rank(S, d) <= Lists!Cardinality(S)
           /\ d \in S => Lists!Rank(S, d) > 0
<1>. DEFINE X(U) == {e \in U : e = d \/ Lists!Before(e, d)}
<1>1. Lists!IsFiniteSet(T) /\ Lists!IsFiniteSet(S)
  BY Types, SizeOfSubset
<1>2. X(S) \in SUBSET X(T) /\ X(T) \in SUBSET T /\ X(S) \in SUBSET S
  OBVIOUS
<1>3. d \in S => d \in X(S)
  OBVIOUS
<1>. HIDE DEF X
<1>4. Lists!IsFiniteSet(X(S)) /\ Lists!IsFiniteSet(X(T))
  BY <1>1, <1>2, SizeOfSubset
<1>5. /\ Lists!Cardinality(X(S)) <= Lists!Cardinality(X(T)) /\ Lists!Cardinality(X(S)) <= Lists!Cardinality(S)
      /\ Lists!Cardinality(S) <= Lists!Cardinality(T)
  BY <1>1, <1>2, <1>4, SizeOfSubset
<1>6. /\ Lists!Cardinality(X(S)) \in Nat /\ Lists!Cardinality(X(T)) \in Nat
      /\ Lists!Cardinality(S) \in Nat /\ Lists!Cardinality(T) \in Nat
  BY <1>1, <1>4, SizeType
<1>7. d \in S => Lists!Cardinality(X(S)) # 0
  BY <1>3, <1>4, SizeOfNone
<1>8. Lists!Rank(S, d) = Lists!Cardinality(X(S)) /\ Lists!Rank(T, d) = Lists!Cardinality(X(T))
  BY DEF Lists!Rank, X
<1>. QED
  BY <1>1, <1>5, <1>6, <1>7, <1>8

\* What a query answers has every document at its rank.
LEMMA Positions ==
    ASSUME Lists!ListingsAssumption, Lists!TypeOK, NEW S \in SUBSET Documents, Told(S), NEW s \in Lists!Orders(S)
    PROVE  /\ s \in Seq(S) /\ Len(s) = Lists!Cardinality(S)
           /\ \A i \in DOMAIN s : s[i] \in S /\ Lists!Rank(S, s[i]) = i
           /\ \A d \in S : Lists!Rank(S, d) \in DOMAIN s /\ s[Lists!Rank(S, d)] = d
<1>. DEFINE c == Lists!Cardinality(S)
<1>1. Lists!IsFiniteSet(S) /\ c \in Nat
  BY RanksGrow
<1>2. s \in [1 .. c -> S] /\ \A i, j \in 1 .. c : i < j => s[i] # s[j] /\ ~Lists!Before(s[j], s[i])
  BY DEF Lists!Orders
<1>. HIDE DEF c
<1>3. \A i, j \in 1 .. c : i < j => Lists!Before(s[i], s[j]) /\ ~Lists!Before(s[j], s[i]) /\ s[i] # s[j]
  BY <1>2 DEF Told
<1>4. \A i, j \in 1 .. c : s[i] = s[j] => i = j
  BY <1>1, <1>2
<1>5. Lists!IsFiniteSet(1 .. c) /\ Lists!Cardinality(1 .. c) = c
  <2>0. 1 \in Int /\ c \in Int /\ (IF 1 > c THEN 0 ELSE c - 1 + 1) = c
    BY <1>1
  <2>. QED
    BY <2>0, SizeOfInterval, Zenon
<1>6. \A d \in S : \E i \in 1 .. c : s[i] = d
  <2>1. s \in Injection(1 .. c, S)
    BY <1>2, <1>4 DEF Injection, IsInjective
  <2>2. s \in Surjection(1 .. c, S)
    BY <1>1, <1>5, <2>1, SizeOfInjection DEF c
  <2>. QED
    BY <2>2 DEF Surjection
<1>7. ASSUME NEW i \in 1 .. c
      PROVE  Lists!Rank(S, s[i]) = i
  <2>. DEFINE X == {e \in S : e = s[i] \/ Lists!Before(e, s[i])}
              f == [j \in 1 .. i |-> s[j]]
  <2>1. 1 .. i \subseteq 1 .. c /\ i \in Nat
    BY <1>1
  <2>2. \A j \in 1 .. i : s[j] \in X
    <3>1. \A j \in 1 .. i : j \in 1 .. c /\ (j = i \/ j < i)
      BY <1>1
    <3>. QED
      BY <1>2, <1>3, <3>1
  <2>3. \A e \in X : \E j \in 1 .. i : s[j] = e
    <3>. SUFFICES ASSUME NEW e \in X
                  PROVE  \E j \in 1 .. i : s[j] = e
      OBVIOUS
    <3>1. PICK j \in 1 .. c : s[j] = e
      BY <1>6
    <3>2. ~(i < j)
      BY <1>3, <3>1
    <3>3. j \in 1 .. i
      BY <1>1, <3>2
    <3>. QED
      BY <3>1, <3>3
  <2>. HIDE DEF X
  <2>4. f \in [1 .. i -> X] /\ \A j \in 1 .. i : f[j] = s[j]
    BY <2>2
  <2>. HIDE DEF f
  <2>5. \A j, k \in 1 .. i : f[j] = f[k] => j = k
    BY <1>4, <2>1, <2>4
  <2>6. f \in Bijection(1 .. i, X)
    BY <2>3, <2>4, <2>5 DEF Bijection, Injection, Surjection, IsInjective
  <2>7. ExistsBijection(1 .. i, X)
    BY <2>6 DEF ExistsBijection
  <2>8. Lists!Cardinality(X) = i
    BY <2>1, <2>7, SizeCounted
  <2>. QED
    BY <2>8 DEF Lists!Rank, X
<1>8. s \in Seq(S) /\ Len(s) = c /\ DOMAIN s = 1 .. c
  BY <1>1, <1>2
<1>9. \A d \in S : Lists!Rank(S, d) \in 1 .. c /\ s[Lists!Rank(S, d)] = d
  BY <1>6, <1>7
<1>. QED
  BY <1>2, <1>7, <1>8, <1>9 DEF c

-----------------------------------------------------------------------------
(* What a query answers, a part of it, and the documents that are in it.   *)

LEMMA OrdersCover ==
    ASSUME Lists!ListingsAssumption, Lists!TypeOK, NEW S \in SUBSET Documents, NEW s \in Lists!Orders(S)
    PROVE  /\ s \in Seq(S) /\ Len(s) = Lists!Cardinality(S) /\ Lists!Cardinality(S) \in Nat
           /\ \A i, j \in DOMAIN s : s[i] = s[j] => i = j
           /\ Lists!Listed(s) = S
<1>. DEFINE c == Lists!Cardinality(S)
<1>1. Lists!IsFiniteSet(S) /\ c \in Nat
  BY RanksGrow
<1>2. s \in [1 .. c -> S] /\ \A i, j \in 1 .. c : i < j => s[i] # s[j]
  BY DEF Lists!Orders
<1>3. Lists!IsFiniteSet(1 .. c) /\ Lists!Cardinality(1 .. c) = c
  <2>0. 1 \in Int /\ c \in Int /\ (IF 1 > c THEN 0 ELSE c - 1 + 1) = c
    BY <1>1
  <2>. QED
    BY <2>0, SizeOfInterval, Zenon
<1>4. \A i, j \in 1 .. c : s[i] = s[j] => i = j
  BY <1>1, <1>2
<1>5. s \in Injection(1 .. c, S)
  BY <1>2, <1>4 DEF Injection, IsInjective
<1>6. s \in Surjection(1 .. c, S)
  BY <1>1, <1>3, <1>5, SizeOfInjection
<1>. HIDE DEF c
<1>7. s \in Seq(S) /\ Len(s) = c /\ DOMAIN s = 1 .. c
  BY <1>1, <1>2
<1>8. Lists!Listed(s) = S
  BY <1>2, <1>6, <1>7 DEF Lists!Listed, Surjection
<1>. QED
  BY <1>1, <1>4, <1>7, <1>8 DEF c

LEMMA ListedSize ==
    ASSUME NEW S, NEW q \in Seq(S)
    PROVE  /\ Lists!IsFiniteSet(Lists!Listed(q)) /\ Lists!Cardinality(Lists!Listed(q)) \in Nat
           /\ Lists!Cardinality(Lists!Listed(q)) <= Len(q) /\ Lists!Listed(q) \in SUBSET S
           /\ (\A i, j \in DOMAIN q : q[i] = q[j] => i = j) => Lists!Cardinality(Lists!Listed(q)) = Len(q)
<1>. DEFINE c == Len(q)
<1>1. c \in Nat /\ DOMAIN q = 1 .. c /\ q \in [1 .. c -> S]
  BY LenProperties
<1>. HIDE DEF c
<1>2. Lists!IsFiniteSet(1 .. c) /\ Lists!Cardinality(1 .. c) = c
  <2>0. 1 \in Int /\ c \in Int /\ (IF 1 > c THEN 0 ELSE c - 1 + 1) = c
    BY <1>1
  <2>. QED
    BY <2>0, SizeOfInterval, Zenon
<1>3. Lists!Listed(q) = {q[i] : i \in 1 .. c}
  BY <1>1 DEF Lists!Listed
<1>4. q \in Surjection(1 .. c, Lists!Listed(q))
  BY <1>1, <1>3 DEF Surjection
<1>5. /\ Lists!IsFiniteSet(Lists!Listed(q)) /\ Lists!Cardinality(Lists!Listed(q)) <= c
      /\ Lists!Cardinality(Lists!Listed(q)) = c <=> q \in Injection(1 .. c, Lists!Listed(q))
  BY <1>2, <1>4, SizeOfSurjection
<1>6. ASSUME \A i, j \in DOMAIN q : q[i] = q[j] => i = j
      PROVE  q \in Injection(1 .. c, Lists!Listed(q))
  BY <1>1, <1>3, <1>6 DEF Injection, IsInjective
<1>7. Lists!Cardinality(Lists!Listed(q)) \in Nat
  BY <1>5, SizeType
<1>8. Lists!Listed(q) \in SUBSET S
  BY <1>1, <1>3
<1>. QED
  BY <1>5, <1>6, <1>7, <1>8 DEF c

\* q is the part of s after the first skip, at most a page.
PartOf(q, S, s, skip) ==
    /\ q \in Seq(S)
    /\ \A i \in DOMAIN q : skip + i \in DOMAIN s /\ q[i] = s[skip + i] /\ i <= PageSize
    /\ \A j \in DOMAIN s : j > skip /\ j <= skip + PageSize =>
         j - skip \in DOMAIN q /\ q[j - skip] = s[j]

LEMMA Cuts ==
    ASSUME Lists!ListingsAssumption, NEW S, NEW s \in Seq(S), NEW skip \in Nat
    PROVE  PartOf(Lists!Cut(s, skip), S, s, skip)
<1>. DEFINE q == Lists!Cut(s, skip)
            last == IF skip + PageSize > Len(s) THEN Len(s) ELSE skip + PageSize
<1>0. PageSize \in Nat
  BY DEF Lists!ListingsAssumption
<1>1. Len(s) \in Nat /\ DOMAIN s = 1 .. Len(s) /\ \A i \in 1 .. Len(s) : s[i] \in S
  BY LenProperties
<1>2. last \in Nat /\ last <= Len(s) /\ last <= skip + PageSize
  BY <1>0, <1>1
<1>3. \A j \in Nat : j <= Len(s) /\ j <= skip + PageSize => j <= last
  BY <1>0, <1>1
<1>4. q = SubSeq(s, skip + 1, last)
  BY DEF Lists!Cut
<1>. HIDE DEF last, q
<1>5. skip + 1 \in Int /\ last \in Int /\ \A i \in skip + 1 .. last : s[i] \in S
  BY <1>1, <1>2
<1>6. /\ q \in Seq(S)
      /\ Len(q) = IF skip + 1 <= last THEN last - (skip + 1) + 1 ELSE 0
      /\ \A i \in 1 .. last - (skip + 1) + 1 : q[i] = s[skip + 1 + i - 1]
  BY <1>4, <1>5, SubSeqProperties
<1>7. /\ \A i \in DOMAIN q : i \in Nat /\ i > 0 /\ i <= last - skip
      /\ \A i \in Nat : i > 0 /\ i <= last - skip => i \in DOMAIN q
      /\ DOMAIN q \subseteq Nat
  BY <1>2, <1>6
<1>8. \A i \in Nat : i > 0 /\ i <= last - skip => q[i] = s[skip + i]
  <2>. TAKE i \in Nat
  <2>. HAVE i > 0 /\ i <= last - skip
  <2>1. i \in 1 .. last - (skip + 1) + 1 /\ skip + 1 + i - 1 = skip + i
    BY <1>2
  <2>. QED
    BY <1>6, <2>1
<1>9. \A i \in DOMAIN q : skip + i \in DOMAIN s /\ q[i] = s[skip + i] /\ i <= PageSize
  BY <1>0, <1>1, <1>2, <1>7, <1>8
<1>10. \A j \in DOMAIN s : j > skip /\ j <= skip + PageSize =>
         j - skip \in DOMAIN q /\ q[j - skip] = s[j]
  <2>. TAKE j \in DOMAIN s
  <2>. HAVE j > skip /\ j <= skip + PageSize
  <2>1. j \in Nat /\ j <= last
    BY <1>1, <1>3
  <2>2. j - skip \in Nat /\ j - skip > 0 /\ j - skip <= last - skip /\ skip + (j - skip) = j
    BY <1>2, <2>1
  <2>. QED
    BY <1>7, <1>8, <2>2
<1>. QED
  BY <1>6, <1>9, <1>10 DEF PartOf, q

-----------------------------------------------------------------------------
(* What a page shows: the documents whose ranks are the page's.            *)

LEMMA PageShows ==
    ASSUME Lists!ListingsAssumption, Lists!TypeOK, v1.counts # "alone",
           NEW X \in SUBSET Documents, Told(X), NEW s \in Lists!Orders(X), NEW p \in Nat, p > 0
    PROVE  /\ Lists!Page(s, p) \in Seq(X) /\ Lists!Listed(Lists!Page(s, p)) \in SUBSET X
           /\ \A i, j \in DOMAIN Lists!Page(s, p) : Lists!Page(s, p)[i] = Lists!Page(s, p)[j] => i = j
           /\ \A d \in Lists!Listed(Lists!Page(s, p)) :
                Lists!Rank(X, d) > PageSize * (p - 1) /\ Lists!Rank(X, d) <= PageSize * p
           /\ \A d \in X : Lists!Rank(X, d) > PageSize * (p - 1) /\ Lists!Rank(X, d) <= PageSize * p
                => d \in Lists!Listed(Lists!Page(s, p))
<1>. DEFINE skip == PageSize * (p - 1)
            q == Lists!Page(s, p)
<1>1. /\ p - 1 \in Nat /\ skip \in Nat /\ PageSize * p = skip + PageSize
      /\ PageSize \in Nat /\ PageSize > 0
  <2>1. p - 1 \in Nat /\ (p - 1) + 1 = p
    OBVIOUS
  <2>. QED
    BY <2>1, Times DEF Lists!ListingsAssumption
<1>2. q = Lists!Cut(s, skip)
  BY DEF Lists!Page, Lists!Skip
<1>. HIDE DEF skip, q
<1>3. /\ s \in Seq(X) /\ Len(s) = Lists!Cardinality(X) /\ DOMAIN s \subseteq Nat
      /\ \A i \in DOMAIN s : s[i] \in X /\ Lists!Rank(X, s[i]) = i
      /\ \A d \in X : Lists!Rank(X, d) \in DOMAIN s /\ s[Lists!Rank(X, d)] = d
  BY Positions
<1>4. /\ q \in Seq(X) /\ DOMAIN q \subseteq Nat
      /\ \A i \in DOMAIN q : skip + i \in DOMAIN s /\ q[i] = s[skip + i] /\ i <= PageSize
      /\ \A j \in DOMAIN s : j > skip /\ j <= skip + PageSize =>
           j - skip \in DOMAIN q /\ q[j - skip] = s[j]
  <2>1. PartOf(q, X, s, skip)
    BY <1>1, <1>2, <1>3, Cuts
  <2>2. DOMAIN q \subseteq Nat
    BY <2>1 DEF PartOf
  <2>. QED
    BY <1>1, <2>1, <2>2 DEF PartOf
<1>5. \A i \in DOMAIN q : i > 0 /\ i \in Nat
  BY <1>4
<1>6. \A i \in DOMAIN q : q[i] \in X /\ Lists!Rank(X, q[i]) = skip + i
  BY <1>3, <1>4
<1>7. \A i, j \in DOMAIN q : q[i] = q[j] => i = j
  BY <1>1, <1>5, <1>6
<1>8. \A d \in Lists!Listed(q) : d \in X /\ Lists!Rank(X, d) > skip /\ Lists!Rank(X, d) <= skip + PageSize
  BY <1>1, <1>4, <1>5, <1>6 DEF Lists!Listed
<1>9. \A d \in X : Lists!Rank(X, d) > skip /\ Lists!Rank(X, d) <= skip + PageSize => d \in Lists!Listed(q)
  BY <1>3, <1>4 DEF Lists!Listed
<1>. QED
  BY <1>1, <1>3, <1>4, <1>7, <1>8, <1>9 DEF skip, q

\* Past(d) is PastAt(d, n) for the n documents of the pages that were read.
PastAt(d, n) == Lists!Rank(Lists!There, d) <= n

LEMMA RankTypes ==
    ASSUME Lists!ListingsAssumption, Lists!TypeOK, NEW d
    PROVE  /\ Lists!Rank(Lists!There, d) \in Nat
           /\ d \in Lists!There => Lists!Rank(Lists!There, d) > 0
BY Types, RanksGrow

LEMMA PastGrows ==
    ASSUME Lists!ListingsAssumption, Lists!TypeOK, NEW d, NEW n \in Nat, PastAt(d, n)
    PROVE  PastAt(d, n + PageSize)
<1>1. PageSize \in Nat
  BY DEF Lists!ListingsAssumption
<1>. QED
  BY <1>1, RankTypes DEF PastAt

-----------------------------------------------------------------------------
(* A query changes nothing but how far the client is.                      *)

LEMMA Frame ==
    ASSUME UNCHANGED <<v1, v2, v3>>
    PROVE  /\ Lists!There' = Lists!There /\ (Lists!Ordered' <=> Lists!Ordered) /\ (Lists!Counting' <=> Lists!Counting)
           /\ \A d, e : Lists!Before(d, e)' = Lists!Before(d, e)
           /\ \A d : (Lists!Rank(Lists!There, d))' = Lists!Rank(Lists!There, d)
           /\ \A d, n : PastAt(d, n)' = PastAt(d, n)
           /\ \A g : Lists!OfGroup(g)' = Lists!OfGroup(g)
           /\ (v6' <=> v6) => (Lists!Tied' <=> Lists!Tied)
           /\ (Lists!Paged' <=> Lists!Paged) /\ (Lists!StampsDiffer' <=> Lists!StampsDiffer)
<1>1. /\ Lists!There' = Lists!There /\ (Lists!Ordered' <=> Lists!Ordered) /\ (Lists!Counting' <=> Lists!Counting)
      /\ (Lists!Paged' <=> Lists!Paged) /\ v1' = v1 /\ v2' = v2 /\ v3' = v3
  BY DEF Lists!There, Lists!Ordered, Lists!Counting, Lists!Paged
<1>2. \A d, e : Lists!Before(d, e)' = Lists!Before(d, e)
  BY <1>1, Zenon DEF Lists!Before, Lists!Ordered
<1>3. \A g : Lists!OfGroup(g)' = Lists!OfGroup(g)
  BY <1>1 DEF Lists!OfGroup
<1>4. \A d : (Lists!Rank(Lists!There, d))' = Lists!Rank(Lists!There, d)
  BY <1>1, <1>2 DEF Lists!Rank
<1>7. \A d, n : PastAt(d, n)' = PastAt(d, n)
  BY <1>4, Zenon DEF PastAt
<1>8. (v6' <=> v6) => (Lists!Tied' <=> Lists!Tied)
  <2>1. (\E d, e \in Lists!There : d # e /\ ~Lists!Before(d, e) /\ ~Lists!Before(e, d))'
          <=> \E d, e \in Lists!There : d # e /\ ~Lists!Before(d, e) /\ ~Lists!Before(e, d)
    BY <1>1, <1>2
  <2>. QED
    BY <1>1, <2>1, Zenon DEF Lists!Tied
<1>9. Lists!StampsDiffer' <=> Lists!StampsDiffer
  BY <1>1 DEF Lists!StampsDiffer
<1>. QED
  BY <1>1, <1>2, <1>3, <1>4, <1>7, <1>8, <1>9

LEMMA Turned ==
    ASSUME Lists!ListingsAssumption, Lists!TypeOK, v4.stage # "done", v1.counts # "alone",
           NEW r \in Lists!Readers, r.stage = v4.stage, r.page = v4.page,
           r.half = v4.half, v4' = Lists!TurnPage(r), v1' = v1
    PROVE  /\ v4' \in Lists!Readers /\ v4'.seen = r.seen /\ v4'.total = r.total
           /\ Lists!PagesRead \in Nat /\ PageSize * Lists!PagesRead \in Nat
           /\ Lists!PagesRead' = IF v4.stage = "page" THEN v4.page ELSE Lists!PagesRead
           /\ v4.stage = "page" => Lists!PagesRead = v4.page - 1
           /\ v4'.stage = "done" => /\ v4.half /\ v4'.page = v4.page
                                        /\ r.total <= v4.page * PageSize
           /\ ~v4.half => /\ v4'.half /\ v4'.stage # "done"
                              /\ (v4'.stage = "page" <=> v4.stage = "count")
           /\ v4.half /\ v4'.stage # "done" =>
                /\ ~v4'.half
                /\ v4'.stage = IF v1.counts = "before" THEN "count" ELSE "page"
<1>1. /\ v4.stage \in {"page", "count"} /\ v4.half \in BOOLEAN
      /\ v4.page \in Nat /\ v4.page > 0 /\ PageSize \in Nat
  BY Types
<1>2. Lists!PagesRead \in Nat /\ PageSize * Lists!PagesRead \in Nat
  <2>1. Lists!PagesRead \in Nat
    BY <1>1 DEF Lists!PagesRead
  <2>. QED
    BY <2>1, Times
<1>3. r.page * PageSize \in Nat /\ r.total \in Nat
  BY <1>1, Times DEF Lists!Readers
<1>4. CASE ~v4.half
  <2>1. v4' = [r EXCEPT !.half = TRUE, !.stage = IF r.stage = "page" THEN "count" ELSE "page"]
    BY <1>4 DEF Lists!TurnPage
  <2>2. /\ v4' \in Lists!Readers /\ v4'.seen = r.seen /\ v4'.total = r.total
        /\ v4'.page = v4.page /\ v4'.half
        /\ v4'.stage = IF v4.stage = "page" THEN "count" ELSE "page"
    BY <1>1, <2>1 DEF Lists!Readers
  <2>. QED
    BY <1>1, <1>2, <1>4, <2>2 DEF Lists!PagesRead
<1>5. CASE v4.half /\ r.page * PageSize < r.total
  <2>0. PICK n : n = r.page + 1
    OBVIOUS
  <2>1. v4' = [r EXCEPT !.half = FALSE, !.page = n,
                            !.stage = IF v1.counts = "before" THEN "count" ELSE "page"]
    BY <1>5, <2>0 DEF Lists!TurnPage
  <2>2. /\ v4' \in Lists!Readers /\ v4'.seen = r.seen /\ v4'.total = r.total
        /\ v4'.page = n /\ v4'.half = FALSE
        /\ v4'.stage = IF v1.counts = "before" THEN "count" ELSE "page"
    <3>1. n \in Nat \ {0}
      BY <1>1, <2>0
    <3>. QED
      BY <2>1, <3>1 DEF Lists!Readers
  <2>. QED
    BY <1>1, <1>2, <1>5, <2>0, <2>2 DEF Lists!PagesRead
<1>6. CASE v4.half /\ ~(r.page * PageSize < r.total)
  <2>1. v4' = [r EXCEPT !.stage = "done"]
    BY <1>6 DEF Lists!TurnPage
  <2>2. /\ v4' \in Lists!Readers /\ v4'.seen = r.seen /\ v4'.total = r.total
        /\ v4'.page = v4.page /\ v4'.half = v4.half /\ v4'.stage = "done"
    BY <1>1, <2>1 DEF Lists!Readers
  <2>3. r.total <= v4.page * PageSize
    BY <1>3, <1>6
  <2>. QED
    BY <1>1, <1>2, <1>6, <2>2, <2>3 DEF Lists!PagesRead
<1>. QED
  BY <1>1, <1>4, <1>5, <1>6

LEMMA Appended ==
    ASSUME NEW S, NEW a \in Seq(S), NEW b \in Seq(S)
    PROVE  /\ a \o b \in Seq(S) /\ Lists!Listed(a \o b) = Lists!Listed(a) \cup Lists!Listed(b)
           /\ /\ \A i, j \in DOMAIN a : a[i] = a[j] => i = j
              /\ \A i, j \in DOMAIN b : b[i] = b[j] => i = j
              /\ Lists!Listed(a) \cap Lists!Listed(b) = {}
              => \A i, j \in DOMAIN (a \o b) : (a \o b)[i] = (a \o b)[j] => i = j
<1>. DEFINE c == a \o b
            m == Len(a)
            n == Len(b)
<1>1. m \in Nat /\ n \in Nat /\ DOMAIN a = 1 .. m /\ DOMAIN b = 1 .. n
  BY LenProperties
<1>2. /\ c \in Seq(S) /\ Len(c) = m + n
      /\ \A i \in 1 .. m + n : c[i] = IF i <= m THEN a[i] ELSE b[i - m]
  BY ConcatProperties
<1>. HIDE DEF c, m, n
<1>3. DOMAIN c = 1 .. m + n
  BY <1>1, <1>2
<1>4. \A i \in DOMAIN c : \/ i \in DOMAIN a /\ c[i] = a[i]
                          \/ i - m \in DOMAIN b /\ c[i] = b[i - m] /\ i > m
  BY <1>1, <1>2, <1>3
<1>5. \A i \in DOMAIN a : i \in DOMAIN c /\ c[i] = a[i]
  BY <1>1, <1>2, <1>3
<1>6. \A i \in DOMAIN b : i + m \in DOMAIN c /\ c[i + m] = b[i]
  BY <1>1, <1>2, <1>3
<1>7. Lists!Listed(c) = Lists!Listed(a) \cup Lists!Listed(b)
  BY <1>4, <1>5, <1>6 DEF Lists!Listed
<1>8. ASSUME \A i, j \in DOMAIN a : a[i] = a[j] => i = j,
             \A i, j \in DOMAIN b : b[i] = b[j] => i = j,
             Lists!Listed(a) \cap Lists!Listed(b) = {},
             NEW i \in DOMAIN c, NEW j \in DOMAIN c, c[i] = c[j]
      PROVE  i = j
  <2>1. \A k \in DOMAIN a, l \in DOMAIN b : a[k] # b[l]
    BY <1>8 DEF Lists!Listed
  <2>2. i \in Nat /\ j \in Nat
    BY <1>1, <1>3
  <2>3. CASE i \in DOMAIN a /\ c[i] = a[i]
    BY <1>4, <1>8, <2>1, <2>3
  <2>4. CASE i - m \in DOMAIN b /\ c[i] = b[i - m]
    <3>1. j - m \in DOMAIN b /\ c[j] = b[j - m]
      BY <1>4, <1>8, <2>1, <2>4
    <3>2. i - m = j - m
      BY <1>8, <2>4, <3>1
    <3>. QED
      BY <1>1, <2>2, <3>2
  <2>. QED
    BY <1>4, <2>3, <2>4
<1>. QED
  BY <1>2, <1>7, <1>8 DEF c

\* What the page of a query shows, in the words of the invariant.
LEMMA PageRead ==
    ASSUME Lists!ListingsAssumption, Lists!ListingsInv, NEW s \in Lists!Orders(Lists!There),
           NEW p, p = Lists!Page(s, v4.page)
    PROVE  /\ p \in Seq(Lists!There) /\ Lists!Listed(p) \in SUBSET Lists!There
           /\ v1.counts = "alone" =>
                Lists!Listed(p) = Lists!There /\ \A i, j \in DOMAIN p : p[i] = p[j] => i = j
           /\ v1.counts # "alone" /\ ~Lists!Tied =>
                /\ \A i, j \in DOMAIN p : p[i] = p[j] => i = j
                /\ \A d \in Lists!Listed(p) : /\ ~PastAt(d, PageSize * (v4.page - 1))
                                        /\ PastAt(d, PageSize * v4.page)
                /\ \A d \in Lists!There : /\ Lists!Rank(Lists!There, d) > PageSize * (v4.page - 1)
                                 /\ Lists!Rank(Lists!There, d) <= PageSize * v4.page
                                 => d \in Lists!Listed(p)
<1>0. Lists!TypeOK /\ Lists!StampsDiffer
  BY DEF Lists!ListingsInv
<1>1. /\ v4.page \in Nat /\ v4.page > 0 /\ v4.page - 1 \in Nat
      /\ Lists!There \in SUBSET Documents /\ v1 \in Lists!Kinds
      /\ PageSize * (v4.page - 1) \in Nat
  <2>1. v4.page \in Nat /\ v4.page > 0 /\ Lists!There \in SUBSET Documents /\ v1 \in Lists!Kinds
    BY <1>0, Types
  <2>2. v4.page - 1 \in Nat
    BY <2>1
  <2>. QED
    BY <2>1, <2>2, Times
<1>2. /\ s \in Seq(Lists!There) /\ Lists!Listed(s) = Lists!There
      /\ \A i, j \in DOMAIN s : s[i] = s[j] => i = j
  BY <1>0, <1>1, OrdersCover
<1>3. CASE v1.counts = "alone"
  BY <1>2, <1>3 DEF Lists!Page
<1>4. CASE v1.counts # "alone"
  <2>1. p \in Seq(Lists!There) /\ Lists!Listed(p) \in SUBSET Lists!There
    <3>1. p = Lists!Cut(s, PageSize * (v4.page - 1))
      BY <1>4 DEF Lists!Page, Lists!Skip
    <3>2. PartOf(p, Lists!There, s, PageSize * (v4.page - 1))
      BY <1>1, <1>2, <3>1, Cuts
    <3>3. p \in Seq(Lists!There)
      BY <3>2 DEF PartOf
    <3>. QED
      BY <3>3, ListedSize
  <2>2. ASSUME ~Lists!Tied
        PROVE  /\ \A i, j \in DOMAIN p : p[i] = p[j] => i = j
               /\ \A d \in Lists!Listed(p) : /\ Lists!Rank(Lists!There, d) > PageSize * (v4.page - 1)
                                       /\ Lists!Rank(Lists!There, d) <= PageSize * v4.page
               /\ \A d \in Lists!There : /\ Lists!Rank(Lists!There, d) > PageSize * (v4.page - 1)
                                   /\ Lists!Rank(Lists!There, d) <= PageSize * v4.page
                                   => d \in Lists!Listed(p)
    <3>1. Told(Lists!There)
      BY <1>0, <2>2, UntiedIsTold
    <3>. QED
      BY <1>0, <1>1, <1>4, <3>1, PageShows
  <2>3. \A d : Lists!Rank(Lists!There, d) \in Nat
    BY <1>0, RankTypes
  <2>. QED
    BY <1>1, <1>4, <2>1, <2>2, <2>3 DEF PastAt
<1>. QED
  BY <1>3, <1>4

LEMMA PastIs ==
    ASSUME NEW d
    PROVE  /\ Lists!Past(d) <=> PastAt(d, PageSize * Lists!PagesRead)
           /\ \A n : n = (PageSize * Lists!PagesRead)' => (Lists!Past(d)' <=> PastAt(d, n)')
<1>1. Lists!Past(d) <=> PastAt(d, PageSize * Lists!PagesRead)
  BY Zenon DEF Lists!Past, PastAt
<1>2. ASSUME NEW n, n = (PageSize * Lists!PagesRead)'
      PROVE  Lists!Past(d)' <=> PastAt(d, n)'
  BY <1>2, Zenon DEF Lists!Past, PastAt
<1>. QED
  BY <1>1, <1>2

LEMMA ReadPageKeeps ==
    ASSUME Lists!ListingsAssumption, Lists!ListingsInv, Lists!ReadPage
    PROVE  Lists!ListingsInv'
<1>. DEFINE skip == PageSize * (v4.page - 1)
<1>1. /\ Lists!TypeOK /\ Lists!StampsDiffer /\ Lists!SteadyAreThere /\ Lists!OnCourse /\ Lists!TotalIsTrue
      /\ Lists!ShownOnce /\ Lists!NoneMissed /\ Lists!PartsAreCounted
  BY DEF Lists!ListingsInv
<1>0. PICK s \in Lists!Orders(Lists!There) :
        v4' = Lists!TurnPage([v4 EXCEPT !.seen = @ \o Lists!Page(s, v4.page)])
  BY DEF Lists!ReadPage
<1>2. PICK p : p = Lists!Page(s, v4.page) /\ v4' = Lists!TurnPage([v4 EXCEPT !.seen = @ \o p])
  BY <1>0
<1>3. /\ ~Lists!Counting /\ v4.stage = "page"
      /\ UNCHANGED <<v1, v2, v3>> /\ UNCHANGED <<v5, v6, v7, v8, v9>>
  BY DEF Lists!ReadPage
<1>4. /\ Lists!There' = Lists!There /\ ~Lists!Counting' /\ (Lists!StampsDiffer' <=> Lists!StampsDiffer)
      /\ (Lists!Tied' <=> Lists!Tied) /\ (Lists!Paged' <=> Lists!Paged)
      /\ \A d, n : PastAt(d, n)' = PastAt(d, n)
      /\ \A d : (Lists!Rank(Lists!There, d))' = Lists!Rank(Lists!There, d)
      /\ v1' = v1 /\ v8' = v8
      /\ (v5' <=> v5) /\ (v7' <=> v7) /\ (v6' <=> v6)
  <2>1. (v5' <=> v5) /\ (v7' <=> v7) /\ (v6' <=> v6)
    BY <1>3, Zenon
  <2>2. v1' = v1 /\ v8' = v8
    BY <1>3
  <2>3. UNCHANGED <<v1, v2, v3>>
    BY <1>3
  <2>. QED
    BY <1>3, <2>1, <2>2, <2>3, Frame, Zenon
<1>5. /\ p \in Seq(Lists!There) /\ p \in Seq(Documents) /\ Lists!Listed(p) \in SUBSET Lists!There
      /\ Lists!There \in SUBSET Documents /\ v4 \in Lists!Readers /\ v4.seen \in Seq(Documents)
      /\ v1 \in Lists!Kinds /\ PageSize \in Nat /\ PageSize > 0
      /\ v4.page \in Nat /\ v4.page > 0 /\ v4.half \in BOOLEAN
      /\ v4.total \in Nat /\ v8 \in SUBSET Documents /\ Lists!Cardinality(Lists!There) \in Nat
  <2>1. p \in Seq(Lists!There) /\ Lists!Listed(p) \in SUBSET Lists!There
    BY <1>2, PageRead
  <2>2. /\ Lists!There \in SUBSET Documents /\ v4 \in Lists!Readers /\ v4.seen \in Seq(Documents)
        /\ v1 \in Lists!Kinds /\ PageSize \in Nat /\ PageSize > 0
        /\ v4.page \in Nat /\ v4.page > 0 /\ v4.half \in BOOLEAN
        /\ v4.total \in Nat /\ v8 \in SUBSET Documents /\ Lists!Cardinality(Lists!There) \in Nat
    BY <1>1, Types
  <2>. QED
    BY <2>1, <2>2, SeqMonotonic
<1>6. /\ skip \in Nat /\ PageSize * v4.page = skip + PageSize
      /\ v4.page * PageSize = skip + PageSize /\ skip + PageSize \in Nat
  <2>1. v4.page - 1 \in Nat /\ (v4.page - 1) + 1 = v4.page
    BY <1>5
  <2>2. /\ PageSize * (v4.page - 1) \in Nat
        /\ PageSize * ((v4.page - 1) + 1) = PageSize * (v4.page - 1) + PageSize
        /\ v4.page * PageSize = PageSize * v4.page
    BY <1>5, <2>1, Times
  <2>3. PageSize * v4.page = PageSize * (v4.page - 1) + PageSize BY <2>1, <2>2, Zenon
  <2>. DEFINE m == PageSize * v4.page
              n == v4.page * PageSize
  <2>4. m = skip + PageSize /\ n = m /\ skip \in Nat BY <2>2, <2>3
  <2>. HIDE DEF m, n, skip
  <2>5. m = skip + PageSize /\ n = skip + PageSize /\ skip \in Nat /\ skip + PageSize \in Nat
    BY <1>5, <2>4
  <2>. QED BY <2>5 DEF m, n
<1>. HIDE DEF skip
<1>7. PICK r : r = [v4 EXCEPT !.seen = @ \o p]
  OBVIOUS
<1>8. /\ r \in Lists!Readers /\ r.seen = v4.seen \o p /\ r.total = v4.total
      /\ r.stage = v4.stage /\ r.page = v4.page /\ r.half = v4.half
      /\ v4' = Lists!TurnPage(r)
  <2>1. PICK q : q = v4.seen \o p
    OBVIOUS
  <2>2. q \in Seq(Documents)
    BY <1>5, <2>1, Appended
  <2>3. r = [v4 EXCEPT !.seen = q]
    BY <1>7, <2>1
  <2>4. r \in Lists!Readers /\ r.seen = q
    BY <1>5, <2>2, <2>3 DEF Lists!Readers
  <2>. QED
    BY <1>2, <1>5, <1>7, <2>1, <2>3, <2>4 DEF Lists!Readers
<1>9. /\ v4.seen \o p \in Seq(Documents)
      /\ Lists!Listed(v4.seen \o p) = Lists!Listed(v4.seen) \cup Lists!Listed(p)
  BY <1>5, Appended
<1>10. CASE v1.counts = "alone"
  <2>1. v4.seen = <<>> /\ Lists!Listed(v4.seen) = {}
    <3>1. v4.seen = <<>>
      BY <1>1, <1>3, <1>10 DEF Lists!OnCourse
    <3>. QED
      BY <3>1 DEF Lists!Listed
  <2>2. v4' = [r EXCEPT !.stage = "done"]
    BY <1>8, <1>10 DEF Lists!TurnPage
  <2>3. v4' \in Lists!Readers /\ v4'.stage = "done" /\ v4'.seen = v4.seen \o p
    BY <1>8, <2>2 DEF Lists!Readers
  <2>4. Lists!TypeOK'
    BY <1>1, <1>3, <1>5, <2>3 DEF Lists!TypeOK, Lists!MayBe
  <2>5. Lists!OnCourse'
    <3>1. Lists!There \subseteq Lists!Listed(v4.seen \o p)
      BY <1>2, <1>9, <1>10, PageRead
    <3>. QED
      BY <1>4, <1>10, <2>3, <3>1 DEF Lists!OnCourse
  <2>6. Lists!ShownOnce'
    <3>1. /\ \A i, j \in DOMAIN v4.seen : v4.seen[i] = v4.seen[j] => i = j
          /\ \A i, j \in DOMAIN p : p[i] = p[j] => i = j
          /\ Lists!Listed(v4.seen) \cap Lists!Listed(p) = {}
      BY <1>2, <1>10, <2>1, PageRead
    <3>2. \A i, j \in DOMAIN (v4.seen \o p) :
             (v4.seen \o p)[i] = (v4.seen \o p)[j] => i = j
      BY <1>5, <3>1, Appended
    <3>3. ~Lists!Paged'
      BY <1>4, <1>10 DEF Lists!Paged
    <3>. QED
      BY <2>3, <3>2, <3>3 DEF Lists!ShownOnce
  <2>7. ~Lists!Paged'
    BY <1>4, <1>10 DEF Lists!Paged
  <2>. QED
    BY <1>1, <1>4, <2>4, <2>5, <2>6, <2>7
       DEF Lists!ListingsInv, Lists!SteadyAreThere, Lists!TotalIsTrue, Lists!NoneMissed,
       Lists!PartsAreCounted
<1>11. CASE v1.counts # "alone"
  <2>1. /\ v4' \in Lists!Readers /\ v4'.seen = v4.seen \o p
        /\ v4'.total = v4.total /\ Lists!PagesRead' = v4.page
        /\ Lists!PagesRead = v4.page - 1
        /\ v4'.stage = "done" => /\ v4.half /\ v4'.page = v4.page
                                     /\ v4.total <= v4.page * PageSize
        /\ ~v4.half => v4'.half /\ v4'.stage = "count"
        /\ v4.half /\ v4'.stage # "done" =>
             ~v4'.half /\ v4'.stage = IF v1.counts = "before" THEN "count" ELSE "page"
    <3>1. /\ v4' \in Lists!Readers /\ v4'.seen = r.seen
          /\ v4'.total = r.total
          /\ Lists!PagesRead' = IF v4.stage = "page" THEN v4.page ELSE Lists!PagesRead
          /\ v4.stage = "page" => Lists!PagesRead = v4.page - 1
          /\ v4'.stage = "done" => /\ v4.half /\ v4'.page = v4.page
                                       /\ r.total <= v4.page * PageSize
          /\ ~v4.half => /\ v4'.half /\ v4'.stage # "done"
                             /\ (v4'.stage = "page" <=> v4.stage = "count")
          /\ v4.half /\ v4'.stage # "done" =>
               ~v4'.half /\ v4'.stage = IF v1.counts = "before" THEN "count" ELSE "page"
      <4>1. v4.stage # "done" /\ Lists!TypeOK /\ v1' = v1
        BY <1>1, <1>3
      <4>. QED
        BY <1>8, <1>11, <4>1, Turned
    <3>2. ~v4.half => v4'.stage = "count"
      BY <1>3, <3>1 DEF Lists!Readers
    <3>. QED
      BY <1>3, <1>8, <3>1, <3>2
  <2>2. Lists!Paged /\ Lists!Paged'
    BY <1>3, <1>4, <1>11 DEF Lists!Paged
  <2>3. Lists!TypeOK'
    BY <1>1, <1>3, <1>5, <2>1 DEF Lists!TypeOK, Lists!MayBe
  <2>4. Lists!OnCourse'
    <3>1. v1.counts = "after" => ~v4.half
      BY <1>1, <1>3 DEF Lists!OnCourse
    <3>. QED
      BY <1>4, <1>11, <2>1, <3>1 DEF Lists!OnCourse
  <2>5. Lists!TotalIsTrue'
    <3>1. v4.half /\ ~v5 /\ ~v6 => v4.total = Lists!Cardinality(Lists!There)
      BY <1>1, <1>3, <2>2 DEF Lists!TotalIsTrue
    <3>2. (Lists!Cardinality(Lists!There))' = Lists!Cardinality(Lists!There)
      BY <1>4
    <3>3. v1.counts = "after" => ~v4.half
      BY <1>1, <1>3 DEF Lists!OnCourse
    <3>4. v4'.stage = "done" =>
            /\ v4'.total <= v4'.page * PageSize
            /\ (v1.counts = "after" \/ (~v5 /\ ~v6)) => v4'.total = Lists!Cardinality(Lists!There)
      BY <1>5, <1>6, <2>1, <3>1, <3>3
    <3>5. ~(v4'.stage = "page" /\ v4'.half)
      BY <1>5, <2>1 DEF Lists!Readers
    <3>. QED
      BY <1>4, <3>2, <3>4, <3>5 DEF Lists!TotalIsTrue
  <2>6. Lists!ShownOnce'
    <3>. SUFFICES ASSUME ~v5, ~v7, ~Lists!Tied
                  PROVE  /\ \A i, j \in DOMAIN v4'.seen : v4'.seen[i] = v4'.seen[j] => i = j
                         /\ \A d \in Lists!Listed(v4'.seen) \cap Lists!There : Lists!Past(d)'
      BY <1>4 DEF Lists!ShownOnce, Lists!Listed
    <3>1. /\ \A i, j \in DOMAIN v4.seen : v4.seen[i] = v4.seen[j] => i = j
          /\ \A d \in Lists!Listed(v4.seen) \cap Lists!There : PastAt(d, skip)
      <4>1. \A d : Lists!Past(d) <=> PastAt(d, skip)
        BY <2>1, PastIs DEF skip
      <4>. QED
        BY <1>1, <1>3, <2>2, <4>1 DEF Lists!ShownOnce
    <3>2. /\ \A i, j \in DOMAIN p : p[i] = p[j] => i = j
          /\ \A d \in Lists!Listed(p) : ~PastAt(d, skip) /\ PastAt(d, skip + PageSize)
      BY <1>2, <1>6, <1>11, PageRead DEF skip
    <3>3. Lists!Listed(v4.seen) \cap Lists!Listed(p) = {}
      BY <1>5, <3>1, <3>2
    <3>4. \A i, j \in DOMAIN (v4.seen \o p) :
             (v4.seen \o p)[i] = (v4.seen \o p)[j] => i = j
      BY <1>5, <3>1, <3>2, <3>3, Appended
    <3>5. ASSUME NEW d \in Lists!Listed(v4.seen \o p) \cap Lists!There
          PROVE  Lists!Past(d)'
      <4>1. PastAt(d, skip + PageSize)
        BY <1>1, <1>6, <1>9, <3>1, <3>2, <3>5, PastGrows
      <4>2. PICK n : n = skip + PageSize
        OBVIOUS
      <4>3. n = (PageSize * Lists!PagesRead)'
        BY <1>6, <2>1, <4>2
      <4>4. PastAt(d, n)'
        BY <1>4, <4>1, <4>2
      <4>. QED
        BY <4>3, <4>4, PastIs, Zenon
    <3>. QED
      BY <2>1, <3>4, <3>5
  <2>7. Lists!NoneMissed'
    <3>. SUFFICES ASSUME ~v6, ~v7, ~Lists!Tied,
                         v5 => v1.counts = "after",
                         NEW d \in v8, Lists!Rank(Lists!There, d) <= PageSize * v4.page
                  PROVE  d \in Lists!Listed(v4.seen \o p)
      BY <1>4, <2>1 DEF Lists!NoneMissed, Lists!Past
    <3>1. d \in Lists!There /\ Lists!Rank(Lists!There, d) \in Nat
      BY <1>1, RankTypes DEF Lists!SteadyAreThere
    <3>2. CASE Lists!Rank(Lists!There, d) <= skip
      BY <1>1, <1>9, <2>1, <2>2, <3>2 DEF Lists!NoneMissed, Lists!Past, skip
    <3>3. CASE Lists!Rank(Lists!There, d) > skip
      BY <1>2, <1>9, <1>11, <3>1, <3>3, PageRead DEF skip
    <3>. QED
      BY <1>6, <3>1, <3>2, <3>3
  <2>. QED
    BY <1>1, <1>4, <2>3, <2>4, <2>5, <2>6, <2>7
       DEF Lists!ListingsInv, Lists!SteadyAreThere, Lists!PartsAreCounted
<1>. QED
  BY <1>10, <1>11

LEMMA CountItemsKeeps ==
    ASSUME Lists!ListingsAssumption, Lists!ListingsInv, Lists!CountItems
    PROVE  Lists!ListingsInv'
<1>1. /\ Lists!TypeOK /\ Lists!StampsDiffer /\ Lists!SteadyAreThere /\ Lists!OnCourse /\ Lists!TotalIsTrue
      /\ Lists!ShownOnce /\ Lists!NoneMissed /\ Lists!PartsAreCounted
  BY DEF Lists!ListingsInv
<1>2. /\ ~Lists!Counting /\ v4.stage = "count"
      /\ UNCHANGED <<v1, v2, v3>> /\ UNCHANGED <<v5, v6, v7, v8, v9>>
      /\ v4' = Lists!TurnPage([v4 EXCEPT !.total = Lists!Cardinality(Lists!There)])
  BY DEF Lists!CountItems
<1>3. /\ Lists!There' = Lists!There /\ ~Lists!Counting' /\ (Lists!StampsDiffer' <=> Lists!StampsDiffer)
      /\ (Lists!Tied' <=> Lists!Tied) /\ (Lists!Paged' <=> Lists!Paged)
      /\ \A d, n : PastAt(d, n)' = PastAt(d, n)
      /\ \A d : (Lists!Rank(Lists!There, d))' = Lists!Rank(Lists!There, d)
      /\ v1' = v1 /\ v8' = v8
      /\ (v5' <=> v5) /\ (v7' <=> v7) /\ (v6' <=> v6)
  <2>1. (v5' <=> v5) /\ (v7' <=> v7) /\ (v6' <=> v6)
    BY <1>2, Zenon
  <2>2. v1' = v1 /\ v8' = v8
    BY <1>2
  <2>. QED
    BY <1>2, <2>1, <2>2, Frame, Zenon
<1>4. /\ v4 \in Lists!Readers /\ Lists!Cardinality(Lists!There) \in Nat /\ v4.half \in BOOLEAN
      /\ v4.page \in Nat
  BY <1>1, Types
<1>5. v1.counts # "alone"
  BY <1>1, <1>2 DEF Lists!OnCourse
<1>6. PICK r : r = [v4 EXCEPT !.total = Lists!Cardinality(Lists!There)]
  OBVIOUS
<1>7. /\ r \in Lists!Readers /\ r.seen = v4.seen /\ r.total = Lists!Cardinality(Lists!There)
      /\ r.stage = v4.stage /\ r.page = v4.page /\ r.half = v4.half
      /\ v4' = Lists!TurnPage(r)
  BY <1>2, <1>4, <1>6 DEF Lists!Readers
<1>8. /\ v4' \in Lists!Readers /\ v4'.seen = v4.seen
      /\ v4'.total = Lists!Cardinality(Lists!There) /\ Lists!PagesRead' = Lists!PagesRead
      /\ v4'.stage = "done" => /\ v4'.page = v4.page
                                   /\ r.total <= v4.page * PageSize
      /\ v4.half /\ v4'.stage # "done" =>
           /\ ~v4'.half
           /\ v4'.stage = IF v1.counts = "before" THEN "count" ELSE "page"
  <2>1. /\ v4' \in Lists!Readers /\ v4'.seen = r.seen /\ v4'.total = r.total
        /\ Lists!PagesRead' = IF v4.stage = "page" THEN v4.page ELSE Lists!PagesRead
        /\ v4'.stage = "done" => /\ v4.half /\ v4'.page = v4.page
                                     /\ r.total <= v4.page * PageSize
        /\ v4.half /\ v4'.stage # "done" =>
             /\ ~v4'.half
             /\ v4'.stage = IF v1.counts = "before" THEN "count" ELSE "page"
    <3>1. v4.stage # "done" /\ Lists!TypeOK /\ v1' = v1
      BY <1>1, <1>2
    <3>. QED
      BY <1>5, <1>7, <3>1, Turned
  <2>. QED
    BY <1>2, <1>7, <2>1
<1>9. Lists!Paged /\ Lists!Paged'
  BY <1>2, <1>3, <1>5 DEF Lists!Paged
<1>10. Lists!TypeOK'
  BY <1>1, <1>2, <1>8 DEF Lists!TypeOK, Lists!MayBe
<1>11. Lists!OnCourse'
  <2>1. v1.counts = "after" => v4.half
    BY <1>1, <1>2 DEF Lists!OnCourse
  <2>. QED
    BY <1>3, <1>5, <1>8, <2>1 DEF Lists!OnCourse
<1>12. Lists!TotalIsTrue'
  BY <1>3, <1>7, <1>8 DEF Lists!TotalIsTrue
<1>13. Lists!ShownOnce'
  <2>. SUFFICES ASSUME ~v5, ~v7, ~Lists!Tied
                PROVE  /\ \A i, j \in DOMAIN v4.seen : v4.seen[i] = v4.seen[j] => i = j
                       /\ \A d \in Lists!Listed(v4.seen) \cap Lists!There : Lists!Past(d)'
    BY <1>3, <1>8 DEF Lists!ShownOnce, Lists!Listed
  <2>1. /\ \A i, j \in DOMAIN v4.seen : v4.seen[i] = v4.seen[j] => i = j
        /\ \A d \in Lists!Listed(v4.seen) \cap Lists!There : Lists!Past(d)
    BY <1>1, <1>2, <1>9 DEF Lists!ShownOnce
  <2>2. ASSUME NEW d \in Lists!Listed(v4.seen) \cap Lists!There
        PROVE  Lists!Past(d)'
    <3>1. PICK n : n = PageSize * Lists!PagesRead
      OBVIOUS
    <3>2. PastAt(d, n)
      BY <2>1, <2>2, <3>1, PastIs
    <3>3. n = (PageSize * Lists!PagesRead)' /\ PastAt(d, n)'
      BY <1>3, <1>8, <3>1, <3>2
    <3>. QED
      BY <3>3, PastIs, Zenon
  <2>. QED
    BY <2>1, <2>2
<1>14. Lists!NoneMissed'
  <2>. SUFFICES ASSUME ~v6, ~v7, ~Lists!Tied,
                       v5 => v1.counts = "after",
                       NEW d \in v8, Lists!Rank(Lists!There, d) <= PageSize * Lists!PagesRead
                PROVE  d \in Lists!Listed(v4.seen)
    BY <1>3, <1>8 DEF Lists!NoneMissed, Lists!Past
  <2>. QED
    BY <1>1, <1>9 DEF Lists!NoneMissed, Lists!Past
<1>. QED
  BY <1>1, <1>3, <1>10, <1>11, <1>12, <1>13, <1>14
     DEF Lists!ListingsInv, Lists!SteadyAreThere, Lists!PartsAreCounted

LEMMA CountGroupKeeps ==
    ASSUME Lists!ListingsAssumption, Lists!ListingsInv, NEW g \in Lists!Groups \cup {0}, Lists!CountGroup(g)
    PROVE  Lists!ListingsInv'
<1>1. Lists!TypeOK /\ Lists!StampsDiffer /\ Lists!SteadyAreThere /\ Lists!PartsAreCounted
  BY DEF Lists!ListingsInv
<1>2. PICK n : n = Lists!Cardinality({d \in Lists!There : g \in {0, v3[d]}})
  OBVIOUS
<1>3. /\ Lists!Counting /\ v4.stage # "done" /\ g \in v4.left
      /\ v4' = [v4 EXCEPT !.left = @ \ {g},
                                  !.total = IF g = 0 THEN n ELSE @,
                                  !.parts = IF g = 0 THEN @ ELSE @ + n,
                                  !.stage = IF v4.left = {g} THEN "done" ELSE @]
      /\ UNCHANGED <<v1, v2, v3>> /\ UNCHANGED <<v5, v6, v7, v8, v9>>
  BY <1>2 DEF Lists!CountGroup
<1>4. /\ Lists!There' = Lists!There /\ Lists!Counting' /\ (Lists!StampsDiffer' <=> Lists!StampsDiffer)
      /\ Lists!OfGroup(1)' = Lists!OfGroup(1) /\ Lists!OfGroup(2)' = Lists!OfGroup(2)
      /\ v8' = v8
      /\ (v5' <=> v5) /\ (v7' <=> v7) /\ (v6' <=> v6)
  <2>1. (v5' <=> v5) /\ (v7' <=> v7) /\ (v6' <=> v6)
    BY <1>3, Zenon
  <2>2. v8' = v8
    BY <1>3
  <2>. QED
    BY <1>3, <2>1, <2>2, Frame, Zenon
<1>5. /\ v4 \in Lists!Readers /\ v4.parts \in Nat /\ v4.total \in Nat
      /\ Lists!Cardinality(Lists!There) \in Nat /\ g \in {0, 1, 2}
      /\ Lists!Cardinality(Lists!OfGroup(1)) \in Nat /\ Lists!Cardinality(Lists!OfGroup(2)) \in Nat
      /\ Lists!There \in SUBSET Documents /\ v3 \in [Documents -> {0, 1, 2}]
  BY <1>1, Types DEF Lists!Groups
<1>6. n = IF g = 0 THEN Lists!Cardinality(Lists!There) ELSE Lists!Cardinality(Lists!OfGroup(g))
  <2>1. {d \in Lists!There : g \in {0, v3[d]}} = IF g = 0 THEN Lists!There ELSE Lists!OfGroup(g)
    BY <1>5 DEF Lists!OfGroup
  <2>. QED
    BY <1>2, <2>1, Zenon
<1>7. n \in Nat
  BY <1>5, <1>6
<1>8. PICK total, parts, left, stage :
        /\ total = IF g = 0 THEN n ELSE v4.total
        /\ parts = IF g = 0 THEN v4.parts ELSE v4.parts + n
        /\ left = v4.left \ {g}
        /\ stage = IF v4.left = {g} THEN "done" ELSE v4.stage
  OBVIOUS
<1>9. v4' = [v4 EXCEPT !.left = left, !.total = total, !.parts = parts, !.stage = stage]
  BY <1>3, <1>5, <1>8 DEF Lists!Readers
<1>10. /\ total \in Nat /\ parts \in Nat /\ left \in SUBSET (Lists!Groups \cup {0})
       /\ stage \in {"page", "count", "done"}
  BY <1>5, <1>7, <1>8 DEF Lists!Readers
<1>11. /\ v4' \in Lists!Readers /\ v4'.left = left /\ v4'.total = total
       /\ v4'.parts = parts /\ v4'.stage = stage
  BY <1>5, <1>9, <1>10 DEF Lists!Readers
<1>12. Lists!TypeOK'
  BY <1>1, <1>3, <1>11 DEF Lists!TypeOK, Lists!MayBe
<1>13. Lists!PartsAreCounted'
  <2>1. stage = "done" => left = {}
    BY <1>3, <1>8
  <2>2. ASSUME ~v5, ~v6, ~v7
        PROVE  /\ total = IF 0 \in left THEN 0 ELSE Lists!Cardinality(Lists!There)
               /\ parts = (IF 1 \in left THEN 0 ELSE Lists!Cardinality(Lists!OfGroup(1)))
                            + (IF 2 \in left THEN 0 ELSE Lists!Cardinality(Lists!OfGroup(2)))
    <3>1. /\ v4.total = IF 0 \in v4.left THEN 0 ELSE Lists!Cardinality(Lists!There)
          /\ v4.parts = (IF 1 \in v4.left THEN 0 ELSE Lists!Cardinality(Lists!OfGroup(1)))
                              + (IF 2 \in v4.left THEN 0 ELSE Lists!Cardinality(Lists!OfGroup(2)))
      BY <1>1, <1>3, <2>2 DEF Lists!PartsAreCounted
    <3>2. g \in v4.left /\ \A h : h \in left <=> h \in v4.left /\ h # g
      BY <1>3, <1>8
    <3>3. CASE g = 0
      BY <1>5, <1>6, <1>8, <3>1, <3>2, <3>3
    <3>4. CASE g = 1
      BY <1>5, <1>6, <1>8, <3>1, <3>2, <3>4
    <3>5. CASE g = 2
      BY <1>5, <1>6, <1>8, <3>1, <3>2, <3>5
    <3>. QED
      BY <1>5, <3>3, <3>4, <3>5
  <2>. QED
    BY <1>4, <1>11, <2>1, <2>2 DEF Lists!PartsAreCounted
<1>14. ~Lists!Paged'
  BY <1>4 DEF Lists!Paged
<1>. QED
  BY <1>1, <1>4, <1>12, <1>13, <1>14
     DEF Lists!ListingsInv, Lists!SteadyAreThere, Lists!OnCourse, Lists!TotalIsTrue,
     Lists!ShownOnce, Lists!NoneMissed

-----------------------------------------------------------------------------
(* The changes of the collection.                                          *)

\* The rank of a document among fewer documents, and in the same order.
LEMMA RankAmongFewer ==
    ASSUME Lists!ListingsAssumption, Lists!TypeOK, NEW S \in SUBSET Documents, NEW T \in SUBSET S, NEW c
    PROVE  LET few == {e \in T : e = c \/ Lists!Before(e, c)} IN
           Lists!Cardinality(few) \in Nat /\ Lists!Cardinality(few) <= Lists!Rank(S, c) /\ Lists!Rank(S, c) \in Nat
BY RanksGrow DEF Lists!Rank

LEMMA LeaveKeeps ==
    ASSUME Lists!ListingsAssumption, Lists!ListingsInv, NEW d \in Documents, Lists!Leave(d)
    PROVE  Lists!ListingsInv'
<1>1. /\ Lists!TypeOK /\ Lists!StampsDiffer /\ Lists!SteadyAreThere /\ Lists!OnCourse /\ Lists!TotalIsTrue
      /\ Lists!ShownOnce /\ Lists!NoneMissed /\ Lists!PartsAreCounted
  BY DEF Lists!ListingsInv
<1>2. /\ v4.stage # "done" /\ v9 < MaxChanges /\ v9' = v9 + 1
      /\ v2' = [v2 EXCEPT ![d] = 0] /\ v6' = TRUE /\ v8' = v8 \ {d}
      /\ v1' = v1 /\ v3' = v3 /\ v4' = v4
      /\ (v5' <=> v5) /\ (v7' <=> v7)
      /\ UNCHANGED <<v1, v3, v4, v5, v7>>
  <2>1. UNCHANGED <<v1, v3, v4, v5, v7>>
    BY DEF Lists!Leave
  <2>2. (v5' <=> v5) /\ (v7' <=> v7)
    BY <2>1, Zenon
  <2>. QED
    BY <2>1, <2>2 DEF Lists!Leave, Lists!Reading
<1>3. /\ Lists!There \in SUBSET Documents /\ v2 \in [Documents -> Nat] /\ MaxChanges \in Nat
      /\ v8 \in SUBSET Documents
  BY <1>1, Types
<1>4. /\ Lists!There' = Lists!There \ {d} /\ Lists!There' \in SUBSET Lists!There
      /\ \A c \in Lists!There' : c \in Documents /\ v2'[c] = v2[c]
  BY <1>2, <1>3 DEF Lists!There
<1>5. (Lists!Ordered' <=> Lists!Ordered) /\ (Lists!Counting' <=> Lists!Counting) /\ (Lists!Paged' <=> Lists!Paged)
      /\ Lists!PagesRead' = Lists!PagesRead
  BY <1>2 DEF Lists!Ordered, Lists!Counting, Lists!Paged, Lists!PagesRead
<1>6. Lists!TypeOK'
  <2>1. v9' \in 0 .. MaxChanges
    BY <1>1, <1>2, <1>3 DEF Lists!TypeOK
  <2>2. {v5', v6', v7'} \subseteq BOOLEAN
    <3>1. v5' = v5 /\ v7' = v7 /\ {v5, v6, v7} \subseteq BOOLEAN
      BY <1>1, <1>2 DEF Lists!TypeOK
    <3>. QED
      BY <1>2, <3>1
  <2>3. v2' \in [Documents -> Lists!Stamps \cup {0}]
    BY <1>1, <1>2 DEF Lists!TypeOK
  <2>. QED
    BY <1>1, <1>2, <1>3, <2>1, <2>2, <2>3 DEF Lists!TypeOK, Lists!MayBe
<1>7. Lists!StampsDiffer'
  BY <1>1, <1>4, <1>5 DEF Lists!StampsDiffer
<1>8. Lists!SteadyAreThere'
  BY <1>1, <1>2, <1>4 DEF Lists!SteadyAreThere
<1>9. Lists!OnCourse'
  BY <1>1, <1>2, <1>5 DEF Lists!OnCourse
<1>10. Lists!TotalIsTrue' /\ Lists!NoneMissed' /\ Lists!PartsAreCounted'
  BY <1>2 DEF Lists!TotalIsTrue, Lists!NoneMissed, Lists!PartsAreCounted
<1>11. Lists!ShownOnce'
  <2>. SUFFICES ASSUME ~Lists!Counting, ~v5, ~v7, ~Lists!Tied'
                PROVE  /\ \A i, j \in DOMAIN v4.seen : v4.seen[i] = v4.seen[j] => i = j
                       /\ Lists!Paged => \A c \in Lists!Listed(v4.seen) \cap Lists!There' : Lists!Past(c)'
    BY <1>2, <1>5 DEF Lists!ShownOnce, Lists!Listed
  <2>1. Lists!Ordered /\ ~Lists!Tied
    BY <1>2, <1>5 DEF Lists!Tied
  <2>2. /\ \A i, j \in DOMAIN v4.seen : v4.seen[i] = v4.seen[j] => i = j
        /\ Lists!Paged => \A c \in Lists!Listed(v4.seen) \cap Lists!There : Lists!Past(c)
    BY <1>1, <2>1 DEF Lists!ShownOnce
  <2>3. ASSUME Lists!Paged, NEW c \in Lists!Listed(v4.seen) \cap Lists!There'
        PROVE  Lists!Past(c)'
    <3>1. PICK n : n = PageSize * Lists!PagesRead
      OBVIOUS
    <3>2. PastAt(c, n) /\ n = (PageSize * Lists!PagesRead)'
      <4>1. Lists!Past(c)
        BY <1>4, <2>2, <2>3
      <4>. QED
        BY <1>5, <3>1, <4>1, PastIs
    <3>3. n \in Nat
      <4>1. v4.page \in Nat /\ v4.page > 0
        BY <1>1, Types
      <4>2. Lists!PagesRead \in Nat
        BY <4>1 DEF Lists!PagesRead
      <4>. QED
        BY <3>1, <4>2, Times
    <3>4. \A e \in Lists!There' : Lists!Before(e, c)' = Lists!Before(e, c)
      <4>. SUFFICES ASSUME NEW e \in Lists!There'
                    PROVE  Lists!Before(e, c)' = Lists!Before(e, c)
        OBVIOUS
      <4>1. v2'[e] = v2[e] /\ v2'[c] = v2[c] /\ v1' = v1
        BY <1>2, <1>4, <2>3
      <4>. QED
        BY <1>5, <4>1, Zenon DEF Lists!Before
    <3>5. ASSUME NEW S \in SUBSET Documents, NEW T, T \subseteq S, T \subseteq Lists!There'
          PROVE  /\ Lists!Cardinality({e \in T : e = c \/ Lists!Before(e, c)'}) \in Nat
                 /\ Lists!Cardinality({e \in T : e = c \/ Lists!Before(e, c)'}) <= Lists!Rank(S, c)
      <4>1. {e \in T : e = c \/ Lists!Before(e, c)'} = {e \in T : e = c \/ Lists!Before(e, c)}
        BY <3>4, <3>5
      <4>. QED
        BY <1>1, <3>5, <4>1, RankAmongFewer
    <3>7. (Lists!Rank(Lists!There, c))' \in Nat /\ (Lists!Rank(Lists!There, c))' <= Lists!Rank(Lists!There, c)
      BY <1>3, <1>4, <3>5 DEF Lists!Rank
    <3>10. PastAt(c, n)'
      <4>1. Lists!Rank(Lists!There, c) \in Nat
        BY <1>1, RankTypes
      <4>. QED
        BY <3>2, <3>3, <3>7, <4>1 DEF PastAt
    <3>. QED
      BY <3>2, <3>10, PastIs, Zenon
  <2>. QED
    BY <2>2, <2>3
<1>. QED
  BY <1>6, <1>7, <1>8, <1>9, <1>10, <1>11 DEF Lists!ListingsInv

LEMMA JoinKeeps ==
    ASSUME Lists!ListingsAssumption, Lists!ListingsInv, NEW d \in Documents, NEW k \in Lists!Stamps, Lists!Join(d, k)
    PROVE  Lists!ListingsInv'
<1>1. /\ Lists!TypeOK /\ Lists!StampsDiffer /\ Lists!SteadyAreThere /\ Lists!OnCourse /\ Lists!TotalIsTrue
      /\ Lists!ShownOnce /\ Lists!NoneMissed /\ Lists!PartsAreCounted
  BY DEF Lists!ListingsInv
<1>2. /\ v4.stage # "done" /\ v9 < MaxChanges /\ v9' = v9 + 1
      /\ v2[d] = 0 /\ Lists!Free(k) /\ v2' = [v2 EXCEPT ![d] = k] /\ v5' = TRUE
      /\ v1' = v1 /\ v3' = v3 /\ v4' = v4 /\ v8' = v8
      /\ (v6' <=> v6) /\ (v7' <=> v7)
      /\ UNCHANGED <<v1, v3, v4, v6, v7, v8>>
  <2>1. UNCHANGED <<v1, v3, v4, v6, v7, v8>>
    BY DEF Lists!Join
  <2>2. (v6' <=> v6) /\ (v7' <=> v7)
    BY <2>1, Zenon
  <2>. QED
    BY <2>1, <2>2 DEF Lists!Join, Lists!Reading
<1>3. /\ Lists!There \in SUBSET Documents /\ v2 \in [Documents -> Nat] /\ MaxChanges \in Nat
      /\ v8 \in SUBSET Documents /\ k \in Nat /\ k > 0 /\ v1 \in Lists!Kinds
  <2>1. Lists!IsFiniteSet(Documents)
    BY DEF Lists!ListingsAssumption
  <2>2. Lists!Cardinality(Documents) \in Nat
    BY <2>1, SizeType
  <2>3. k \in Nat /\ k > 0
    BY <2>2 DEF Lists!Stamps
  <2>. QED
    BY <1>1, <2>3, Types
<1>4. /\ Lists!There' = Lists!There \cup {d} /\ d \notin Lists!There
      /\ \A c \in Lists!There : c \in Documents /\ v2'[c] = v2[c]
      /\ v2'[d] = k
  BY <1>2, <1>3 DEF Lists!There
<1>5. (Lists!Ordered' <=> Lists!Ordered) /\ (Lists!Counting' <=> Lists!Counting) /\ (Lists!Paged' <=> Lists!Paged)
      /\ Lists!PagesRead' = Lists!PagesRead
  BY <1>2 DEF Lists!Ordered, Lists!Counting, Lists!Paged, Lists!PagesRead
<1>6. Lists!TypeOK'
  <2>1. v9' \in 0 .. MaxChanges
    BY <1>1, <1>2, <1>3 DEF Lists!TypeOK
  <2>2. {v5', v6', v7'} \subseteq BOOLEAN
    <3>1. v6' = v6 /\ v7' = v7 /\ {v5, v6, v7} \subseteq BOOLEAN
      BY <1>1, <1>2 DEF Lists!TypeOK
    <3>. QED
      BY <1>2, <3>1
  <2>3. v2' \in [Documents -> Lists!Stamps \cup {0}]
    BY <1>1, <1>2 DEF Lists!TypeOK
  <2>. QED
    BY <1>1, <1>2, <1>3, <2>1, <2>2, <2>3 DEF Lists!TypeOK, Lists!MayBe
<1>7. Lists!StampsDiffer'
  <2>. SUFFICES ASSUME Lists!Ordered, NEW a \in Lists!There', NEW b \in Lists!There', v2'[a] = v2'[b]
                PROVE  a = b
    BY <1>5 DEF Lists!StampsDiffer
  <2>1. \A c \in Documents : v2[c] # k
    BY <1>2 DEF Lists!Free
  <2>. QED
    BY <1>1, <1>4, <2>1 DEF Lists!StampsDiffer
<1>8. Lists!SteadyAreThere'
  BY <1>1, <1>2, <1>4 DEF Lists!SteadyAreThere
<1>9. Lists!OnCourse'
  BY <1>1, <1>2, <1>5 DEF Lists!OnCourse
<1>10. Lists!TotalIsTrue' /\ Lists!ShownOnce' /\ Lists!PartsAreCounted'
  BY <1>2 DEF Lists!TotalIsTrue, Lists!ShownOnce, Lists!PartsAreCounted
<1>11. Lists!NoneMissed'
  <2>. SUFFICES ASSUME Lists!Paged, ~v6, ~v7, ~Lists!Tied',
                       v1.counts = "after",
                       NEW c \in v8, (Lists!Rank(Lists!There, c))' <= PageSize * Lists!PagesRead
                PROVE  c \in Lists!Listed(v4.seen)
    BY <1>2, <1>5 DEF Lists!NoneMissed, Lists!Past
  <2>1. \A a, b \in Lists!There : Lists!Before(a, b)' = Lists!Before(a, b)
    <3>. SUFFICES ASSUME NEW a \in Lists!There, NEW b \in Lists!There
                  PROVE  Lists!Before(a, b)' = Lists!Before(a, b)
      OBVIOUS
    <3>1. v2'[a] = v2[a] /\ v2'[b] = v2[b] /\ v1' = v1
      BY <1>2, <1>4
    <3>. QED
      BY <1>5, <3>1, Zenon DEF Lists!Before
  <2>2. ~Lists!Tied
    <3>1. CASE Lists!Ordered
      BY <3>1 DEF Lists!Tied
    <3>2. CASE ~Lists!Ordered
      <4>1. \A a, b \in Lists!There' : a = b \/ Lists!Before(a, b)' \/ Lists!Before(b, a)'
        BY <1>5, <3>2, Zenon DEF Lists!Tied
      <4>2. \A a, b \in Lists!There : a = b \/ Lists!Before(a, b) \/ Lists!Before(b, a)
        BY <1>4, <2>1, <4>1
      <4>. QED
        BY <4>2 DEF Lists!Tied
    <3>. QED
      BY <3>1, <3>2
  <2>3. c \in Lists!There
    BY <1>1 DEF Lists!SteadyAreThere
  <2>4. Lists!Rank(Lists!There, c) <= (Lists!Rank(Lists!There, c))' /\ Lists!Rank(Lists!There, c) \in Nat /\ (Lists!Rank(Lists!There, c))' \in Nat
    <3>. DEFINE P == {e \in Lists!There : e = c \/ Lists!Before(e, c)}
                Q == {e \in Lists!There' : e = c \/ Lists!Before(e, c)'}
    <3>1. P \in SUBSET Q /\ Q \in SUBSET Lists!There'
      BY <1>4, <2>1, <2>3
    <3>2. Lists!Rank(Lists!There, c) = Lists!Cardinality(P) /\ (Lists!Rank(Lists!There, c))' = Lists!Cardinality(Q)
      BY DEF Lists!Rank
    <3>. HIDE DEF P, Q
    <3>3. Lists!IsFiniteSet(Lists!There')
      <4>1. Lists!IsFiniteSet(Lists!There)
        BY <1>1, Types
      <4>. QED
        BY <1>4, <4>1, SizeOfOneMore
    <3>4. Lists!IsFiniteSet(Q)
      BY <3>1, <3>3, SizeOfSubset
    <3>5. Lists!IsFiniteSet(P) /\ Lists!Cardinality(P) <= Lists!Cardinality(Q)
      BY <3>1, <3>4, SizeOfSubset
    <3>6. Lists!Cardinality(P) \in Nat /\ Lists!Cardinality(Q) \in Nat
      BY <3>4, <3>5, SizeType
    <3>. QED
      BY <3>2, <3>5, <3>6
  <2>5. PageSize * Lists!PagesRead \in Nat
    <3>1. v4.page \in Nat /\ v4.page > 0
      BY <1>1, Types
    <3>2. Lists!PagesRead \in Nat
      BY <3>1 DEF Lists!PagesRead
    <3>. QED
      BY <3>2, Times
  <2>6. Lists!Rank(Lists!There, c) <= PageSize * Lists!PagesRead
    BY <2>4, <2>5
  <2>. QED
    BY <1>1, <2>2, <2>6 DEF Lists!NoneMissed, Lists!Past
<1>. QED
  BY <1>6, <1>7, <1>8, <1>9, <1>10, <1>11 DEF Lists!ListingsInv

LEMMA MoveKeeps ==
    ASSUME Lists!ListingsAssumption, Lists!ListingsInv, NEW d \in Documents, NEW k \in Lists!Stamps, Lists!Move(d, k)
    PROVE  Lists!ListingsInv'
<1>1. /\ Lists!TypeOK /\ Lists!StampsDiffer /\ Lists!SteadyAreThere /\ Lists!OnCourse /\ Lists!TotalIsTrue /\ Lists!PartsAreCounted
  BY DEF Lists!ListingsInv
<1>2. /\ v4.stage # "done" /\ v9 < MaxChanges /\ v9' = v9 + 1
      /\ v2[d] # 0 /\ Lists!Free(k) /\ v2' = [v2 EXCEPT ![d] = k] /\ v7' = TRUE
      /\ v8' = v8 \ {d}
      /\ v1' = v1 /\ v3' = v3 /\ v4' = v4
      /\ (v6' <=> v6) /\ (v5' <=> v5)
      /\ UNCHANGED <<v1, v3, v4, v5, v6>>
  <2>1. UNCHANGED <<v1, v3, v4, v5, v6>>
    BY DEF Lists!Move
  <2>2. (v6' <=> v6) /\ (v5' <=> v5)
    BY <2>1, Zenon
  <2>. QED
    BY <2>1, <2>2 DEF Lists!Move, Lists!Reading
<1>3. /\ Lists!There \in SUBSET Documents /\ v2 \in [Documents -> Nat] /\ MaxChanges \in Nat
      /\ v8 \in SUBSET Documents /\ k \in Nat /\ k > 0
  <2>1. Lists!IsFiniteSet(Documents)
    BY DEF Lists!ListingsAssumption
  <2>2. Lists!Cardinality(Documents) \in Nat
    BY <2>1, SizeType
  <2>3. k \in Nat /\ k > 0
    BY <2>2 DEF Lists!Stamps
  <2>. QED
    BY <1>1, <2>3, Types
<1>4. Lists!There' = Lists!There /\ \A c \in Lists!There : v2'[c] = IF c = d THEN k ELSE v2[c]
  BY <1>2, <1>3 DEF Lists!There
<1>5. (Lists!Ordered' <=> Lists!Ordered) /\ (Lists!Counting' <=> Lists!Counting) /\ (Lists!Paged' <=> Lists!Paged)
  BY <1>2 DEF Lists!Ordered, Lists!Counting, Lists!Paged
<1>6. Lists!TypeOK'
  <2>1. v9' \in 0 .. MaxChanges
    BY <1>1, <1>2, <1>3 DEF Lists!TypeOK
  <2>2. {v5', v6', v7'} \subseteq BOOLEAN
    <3>1. v6' = v6 /\ v5' = v5 /\ {v5, v6, v7} \subseteq BOOLEAN
      BY <1>1, <1>2 DEF Lists!TypeOK
    <3>. QED
      BY <1>2, <3>1
  <2>3. v2' \in [Documents -> Lists!Stamps \cup {0}]
    BY <1>1, <1>2 DEF Lists!TypeOK
  <2>. QED
    BY <1>1, <1>2, <1>3, <2>1, <2>2, <2>3 DEF Lists!TypeOK, Lists!MayBe
<1>7. Lists!StampsDiffer'
  <2>. SUFFICES ASSUME Lists!Ordered, NEW a \in Lists!There, NEW b \in Lists!There, v2'[a] = v2'[b]
                PROVE  a = b
    BY <1>4, <1>5 DEF Lists!StampsDiffer
  <2>1. \A c \in Documents : v2[c] # k
    BY <1>2 DEF Lists!Free
  <2>. QED
    BY <1>1, <1>3, <1>4, <2>1 DEF Lists!StampsDiffer
<1>8. Lists!SteadyAreThere'
  BY <1>1, <1>2, <1>4 DEF Lists!SteadyAreThere
<1>9. Lists!OnCourse'
  BY <1>1, <1>2, <1>5 DEF Lists!OnCourse
<1>10. Lists!TotalIsTrue'
  BY <1>1, <1>2, <1>4, <1>5 DEF Lists!TotalIsTrue
<1>11. Lists!ShownOnce' /\ Lists!NoneMissed' /\ Lists!PartsAreCounted'
  BY <1>1, <1>2 DEF Lists!ShownOnce, Lists!NoneMissed, Lists!PartsAreCounted
<1>. QED
  BY <1>6, <1>7, <1>8, <1>9, <1>10, <1>11 DEF Lists!ListingsInv

LEMMA RegroupKeeps ==
    ASSUME Lists!ListingsAssumption, Lists!ListingsInv, NEW d \in Documents, NEW g, Lists!Regroup(d, g)
    PROVE  Lists!ListingsInv'
<1>1. Lists!TypeOK /\ Lists!StampsDiffer /\ Lists!SteadyAreThere /\ Lists!PartsAreCounted
  BY DEF Lists!ListingsInv
<1>2. /\ v4.stage # "done" /\ v9 < MaxChanges /\ v9' = v9 + 1
      /\ Lists!Counting /\ v3' = [v3 EXCEPT ![d] = g] /\ g \in Lists!MayBe /\ v7' = TRUE
      /\ UNCHANGED <<v1, v2, v4, v5, v6, v8>>
      /\ v1' = v1 /\ v2' = v2 /\ v4' = v4 /\ v8' = v8
  BY DEF Lists!Regroup, Lists!Reading
<1>3. /\ MaxChanges \in Nat /\ v3 \in [Documents -> Lists!MayBe] /\ Lists!MayBe' = Lists!MayBe
  BY <1>1, <1>2, Types DEF Lists!TypeOK, Lists!MayBe
<1>4. Lists!TypeOK'
  <2>1. v9' \in 0 .. MaxChanges
    BY <1>1, <1>2, <1>3 DEF Lists!TypeOK
  <2>2. {v5', v6', v7'} \subseteq BOOLEAN
    <3>1. v6' = v6 /\ v5' = v5 /\ {v5, v6, v7} \subseteq BOOLEAN
      BY <1>1, <1>2 DEF Lists!TypeOK
    <3>. QED
      BY <1>2, <3>1
  <2>3. v3' \in [Documents -> Lists!MayBe']
    BY <1>2, <1>3
  <2>. QED
    BY <1>1, <1>2, <2>1, <2>2, <2>3 DEF Lists!TypeOK
<1>5. Lists!There' = Lists!There /\ Lists!Counting' /\ (Lists!Ordered' <=> Lists!Ordered) /\ ~Lists!Paged'
  BY <1>2 DEF Lists!There, Lists!Counting, Lists!Ordered, Lists!Paged
<1>6. Lists!StampsDiffer' /\ Lists!SteadyAreThere'
  BY <1>1, <1>2, <1>5 DEF Lists!StampsDiffer, Lists!SteadyAreThere
<1>7. Lists!PartsAreCounted'
  BY <1>1, <1>2 DEF Lists!PartsAreCounted
<1>. QED
  BY <1>4, <1>5, <1>6, <1>7
     DEF Lists!ListingsInv, Lists!OnCourse, Lists!TotalIsTrue, Lists!ShownOnce, Lists!NoneMissed

LEMMA UnchangedKeeps ==
    ASSUME Lists!ListingsInv, UNCHANGED Lists!vars
    PROVE  Lists!ListingsInv'
<1>1. /\ UNCHANGED <<v1, v2, v3>>
      /\ v1' = v1 /\ v2' = v2 /\ v3' = v3 /\ v4' = v4
      /\ v8' = v8 /\ v9' = v9
      /\ v5' = v5 /\ v6' = v6 /\ v7' = v7
  BY DEF Lists!vars
<1>2. (v5' <=> v5) /\ (v7' <=> v7) /\ (v6' <=> v6)
  BY <1>1, Zenon
<1>3. /\ Lists!There' = Lists!There /\ (Lists!StampsDiffer' <=> Lists!StampsDiffer) /\ (Lists!Paged' <=> Lists!Paged)
      /\ (Lists!Tied' <=> Lists!Tied) /\ \A d : (Lists!Rank(Lists!There, d))' = Lists!Rank(Lists!There, d)
      /\ (Lists!Counting' <=> Lists!Counting) /\ \A g : Lists!OfGroup(g)' = Lists!OfGroup(g)
      /\ \A d, n : PastAt(d, n)' = PastAt(d, n)
  BY <1>1, <1>2, Frame, Zenon
<1>4. Lists!PagesRead' = Lists!PagesRead
  BY <1>1 DEF Lists!PagesRead
<1>5. \A d : Lists!Past(d)' <=> Lists!Past(d)
  <2>. TAKE d
  <2>1. PICK n : n = PageSize * Lists!PagesRead
    OBVIOUS
  <2>2. n = (PageSize * Lists!PagesRead)'
    BY <1>4, <2>1
  <2>3. (Lists!Past(d) <=> PastAt(d, n)) /\ (Lists!Past(d)' <=> PastAt(d, n)') /\ PastAt(d, n)' = PastAt(d, n)
    <3>1. Lists!Past(d) <=> PastAt(d, n)
      BY <2>1, PastIs
    <3>2. Lists!Past(d)' <=> PastAt(d, n)'
      BY <2>2, PastIs, Zenon
    <3>. QED
      BY <1>3, <3>1, <3>2, Zenon
  <2>. QED
    BY <2>3, Zenon
<1>6. Lists!TypeOK' /\ Lists!SteadyAreThere'
  BY <1>1, <1>3 DEF Lists!ListingsInv, Lists!TypeOK, Lists!MayBe, Lists!SteadyAreThere
<1>7. Lists!OnCourse'
  BY <1>1, <1>3 DEF Lists!ListingsInv, Lists!OnCourse, Lists!Listed
<1>8. Lists!TotalIsTrue'
  BY <1>1, <1>2, <1>3 DEF Lists!ListingsInv, Lists!TotalIsTrue
<1>9. Lists!ShownOnce'
  BY <1>1, <1>2, <1>3, <1>5 DEF Lists!ListingsInv, Lists!ShownOnce, Lists!Listed
<1>10. Lists!NoneMissed'
  BY <1>1, <1>2, <1>3, <1>5 DEF Lists!ListingsInv, Lists!NoneMissed, Lists!Listed
<1>11. Lists!PartsAreCounted'
  BY <1>1, <1>2, <1>3 DEF Lists!ListingsInv, Lists!PartsAreCounted
<1>. QED
  BY <1>3, <1>6, <1>7, <1>8, <1>9, <1>10, <1>11 DEF Lists!ListingsInv

LEMMA ListingsStart ==
    ASSUME Lists!ListingsAssumption, v1 \in Lists!Kinds, Lists!Begin
    PROVE  Lists!ListingsInv
<1>1. /\ Lists!IsFiniteSet(Documents) /\ PageSize \in Nat /\ MaxChanges \in Nat /\ Lists!Cardinality(Documents) \in Nat
  BY SizeType DEF Lists!ListingsAssumption
<1>2. PICK there \in SUBSET Documents, dates \in [Documents -> 1 .. Lists!Cardinality(Documents)] :
        /\ v2 = [d \in Documents |-> IF d \in there THEN dates[d] ELSE 0]
        /\ Lists!Ordered => Lists!Stamped(dates)
  BY DEF Lists!Begin
<1>3. /\ v1 \in Lists!Kinds /\ v3 \in [Documents -> Lists!MayBe] /\ v8 = Lists!There
      /\ v5 = FALSE /\ v6 = FALSE /\ v7 = FALSE /\ v9 = 0
      /\ v4.stage \in {"page", "count"} /\ v4.page = 1 /\ v4.seen = <<>>
      /\ v4.total = 0 /\ v4.half = FALSE /\ v4.left = Lists!Groups \cup {0}
      /\ v4.parts = 0
      /\ v1.counts \in {"after", "alone"} => v4.stage = "page"
      /\ v4 \in [stage : {"page", "count"}, page : {1}, seen : {<<>>}, total : {0},
                     half : {FALSE}, left : {Lists!Groups \cup {0}}, parts : {0}]
  <2>1. /\ v1 \in Lists!Kinds /\ v3 \in [Documents -> Lists!MayBe] /\ v8 = Lists!There
        /\ v5 = FALSE /\ v6 = FALSE /\ v7 = FALSE /\ v9 = 0
    BY DEF Lists!Begin
  <2>2. PICK stages \in SUBSET {"page", "count"} :
          /\ v4 \in [stage : stages, page : {1}, seen : {<<>>}, total : {0},
                         half : {FALSE}, left : {Lists!Groups \cup {0}}, parts : {0}]
          /\ v1.counts \in {"after", "alone"} => stages = {"page"}
    <3>. DEFINE s == IF v1.counts = "before" THEN {"count"}
                     ELSE IF v1.counts \in {"after", "alone"} THEN {"page"} ELSE {"page", "count"}
    <3>1. v4 \in [stage : s, page : {1}, seen : {<<>>}, total : {0},
                      half : {FALSE}, left : {Lists!Groups \cup {0}}, parts : {0}]
      BY DEF Lists!Begin
    <3>2. s \in SUBSET {"page", "count"} /\ (v1.counts \in {"after", "alone"} => s = {"page"})
      OBVIOUS
    <3>. HIDE DEF s
    <3>. QED
      BY <3>1, <3>2
  <2>. QED
    BY <2>1, <2>2
<1>4. Lists!TypeOK
  <2>1. v2 \in [Documents -> Lists!Stamps \cup {0}]
    <3>1. \A d \in Documents : dates[d] \in Lists!Stamps
      BY <1>1, <1>2 DEF Lists!Stamps
    <3>. QED
      BY <1>2, <3>1
  <2>2. v4 \in Lists!Readers
    <3>1. <<>> \in Seq(Documents)
      BY EmptySeq
    <3>2. PICK stage, page, seen, total, half, left :
            /\ stage = v4.stage /\ page = 1 /\ seen = <<>> /\ total = 0
            /\ half = FALSE /\ left = Lists!Groups \cup {0}
      OBVIOUS
    <3>3. v4 = [stage |-> stage, page |-> page, seen |-> seen, total |-> total,
                    half |-> half, left |-> left, parts |-> total]
      BY <1>3, <3>2
    <3>4. /\ stage \in {"page", "count", "done"} /\ page \in Nat \ {0} /\ seen \in Seq(Documents)
          /\ total \in Nat /\ half \in BOOLEAN /\ left \in SUBSET (Lists!Groups \cup {0})
      <4>1. seen \in Seq(Documents)
        BY <3>1, <3>2, Zenon
      <4>2. half \in BOOLEAN
        BY <3>2, Zenon
      <4>3. stage \in {"page", "count", "done"} /\ page \in Nat \ {0} /\ total \in Nat
        BY <1>3, <3>2
      <4>4. left \in SUBSET (Lists!Groups \cup {0})
        BY <3>2
      <4>. QED
        BY <4>1, <4>2, <4>3, <4>4
    <3>. QED
      BY <3>3, <3>4 DEF Lists!Readers
  <2>3. 0 \in 0 .. MaxChanges
    BY <1>1
  <2>. QED
    BY <1>3, <2>1, <2>2, <2>3 DEF Lists!TypeOK, Lists!There
<1>5. Lists!StampsDiffer
  <2>1. \A d \in Lists!There : d \in Documents /\ v2[d] = dates[d]
    BY <1>2 DEF Lists!There
  <2>. QED
    BY <1>2, <2>1 DEF Lists!StampsDiffer, Lists!Stamped
<1>6. Lists!SteadyAreThere
  BY <1>3 DEF Lists!SteadyAreThere
<1>7. Lists!OnCourse
  BY <1>3 DEF Lists!OnCourse
<1>8. Lists!TotalIsTrue
  BY <1>3 DEF Lists!TotalIsTrue
<1>9. Lists!Listed(v4.seen) = {} /\ DOMAIN v4.seen = {}
  BY <1>3 DEF Lists!Listed
<1>10. Lists!ShownOnce
  BY <1>9 DEF Lists!ShownOnce
<1>11. Lists!NoneMissed
  <2>1. PageSize * Lists!PagesRead = 0
    <3>1. Lists!PagesRead = 0
      BY <1>3 DEF Lists!PagesRead
    <3>. QED
      BY <1>1, <3>1
  <2>2. \A d \in v8 : Lists!Rank(Lists!There, d) > 0 /\ Lists!Rank(Lists!There, d) \in Nat
    BY <1>3, <1>4, RankTypes
  <2>. QED
    BY <2>1, <2>2 DEF Lists!NoneMissed, Lists!Past
<1>12. Lists!PartsAreCounted
  BY <1>3 DEF Lists!PartsAreCounted, Lists!Groups
<1>. QED
  BY <1>4, <1>5, <1>6, <1>7, <1>8, <1>10, <1>11, <1>12 DEF Lists!ListingsInv

LEMMA ListingsKept ==
    ASSUME Lists!ListingsAssumption, Lists!ListingsInv, [Lists!Next]_Lists!vars
    PROVE  Lists!ListingsInv'
BY ReadPageKeeps, CountItemsKeeps, CountGroupKeeps, LeaveKeeps, JoinKeeps, MoveKeeps,
   RegroupKeeps, UnchangedKeeps DEF Lists!Next

-----------------------------------------------------------------------------
(* What follows of a reading that came to its end.                         *)

LEMMA ListingsMeet ==
    ASSUME Lists!ListingsAssumption, Lists!ListingsInv
    PROVE  Lists!MissedOnlyIfRemoved /\ Lists!RepeatedOnlyIfAdded /\ Lists!PartsMakeTheTotal
<1>1. /\ Lists!TypeOK /\ Lists!SteadyAreThere /\ Lists!OnCourse /\ Lists!TotalIsTrue
      /\ Lists!ShownOnce /\ Lists!NoneMissed /\ Lists!PartsAreCounted
  BY DEF Lists!ListingsInv
<1>2. /\ Lists!There \in SUBSET Documents /\ v1 \in Lists!Kinds /\ v4.page \in Nat
      /\ v4.total \in Nat /\ v4.seen \in Seq(Documents) /\ Lists!Cardinality(Lists!There) \in Nat
      /\ Lists!IsFiniteSet(Lists!OfGroup(1)) /\ Lists!IsFiniteSet(Lists!OfGroup(2))
      /\ Lists!Cardinality(Lists!OfGroup(1)) \in Nat /\ Lists!Cardinality(Lists!OfGroup(2)) \in Nat
      /\ v1.sort = "count" => v3 \in [Documents -> {1, 2}]
      /\ Lists!IsFiniteSet(Lists!There)
  BY <1>1, Types
<1>3. Lists!MissedOnlyIfRemoved
  <2>. SUFFICES ASSUME Lists!Done, ~v6, ~v7, ~Lists!Tied,
                       v5 => v1.counts \in {"after", "alone"}, NEW d \in v8
                PROVE  d \in Lists!Listed(v4.seen)
    BY DEF Lists!MissedOnlyIfRemoved
  <2>1. ~Lists!Counting /\ v4.stage = "done" /\ d \in Lists!There
    BY <1>1 DEF Lists!Done, Lists!SteadyAreThere
  <2>2. CASE v1.counts = "alone"
    BY <1>1, <2>1, <2>2 DEF Lists!OnCourse
  <2>3. CASE v1.counts # "alone"
    <3>1. Lists!Paged /\ Lists!PagesRead = v4.page
      BY <1>2, <2>1, <2>3 DEF Lists!Paged, Lists!PagesRead
    <3>2. Lists!Cardinality(Lists!There) <= v4.page * PageSize
      BY <1>1, <2>1, <2>3, <3>1 DEF Lists!TotalIsTrue
    <3>3. /\ Lists!Rank(Lists!There, d) <= Lists!Cardinality(Lists!There) /\ Lists!Rank(Lists!There, d) \in Nat
          /\ v4.page * PageSize = PageSize * v4.page /\ PageSize * v4.page \in Nat
      BY <1>1, <1>2, RanksGrow, Times
    <3>4. Lists!Rank(Lists!There, d) <= PageSize * Lists!PagesRead
      BY <1>2, <3>1, <3>2, <3>3
    <3>. QED
      BY <1>1, <2>3, <3>1, <3>4 DEF Lists!NoneMissed, Lists!Past
  <2>. QED
    BY <2>2, <2>3
<1>4. Lists!RepeatedOnlyIfAdded
  BY <1>1, <1>2, ListedSize DEF Lists!RepeatedOnlyIfAdded, Lists!Done, Lists!ShownOnce
<1>5. Lists!PartsMakeTheTotal
  <2>. SUFFICES ASSUME Lists!Counting, v4.stage = "done", ~v5, ~v6, ~v7
                PROVE  /\ v1.sort = "count" => v4.parts = v4.total
                       /\ v4.parts <= v4.total
    BY DEF Lists!PartsMakeTheTotal
  <2>1. /\ v4.total = Lists!Cardinality(Lists!There)
        /\ v4.parts = Lists!Cardinality(Lists!OfGroup(1)) + Lists!Cardinality(Lists!OfGroup(2))
    BY <1>1, <1>2 DEF Lists!PartsAreCounted
  <2>2. PICK both : both = Lists!OfGroup(1) \cup Lists!OfGroup(2)
    OBVIOUS
  <2>3. /\ both \in SUBSET Lists!There /\ Lists!OfGroup(1) \cap Lists!OfGroup(2) = {}
        /\ v1.sort = "count" => both = Lists!There
    BY <1>2, <2>2 DEF Lists!OfGroup
  <2>4. /\ Lists!IsFiniteSet(both)
        /\ Lists!Cardinality(both) = Lists!Cardinality(Lists!OfGroup(1)) + Lists!Cardinality(Lists!OfGroup(2)) - 0
    <3>1. Lists!IsFiniteSet(Lists!OfGroup(1)) /\ Lists!IsFiniteSet(Lists!OfGroup(2))
      BY <1>2
    <3>2. /\ Lists!IsFiniteSet(both)
          /\ Lists!Cardinality(both) =
               Lists!Cardinality(Lists!OfGroup(1)) + Lists!Cardinality(Lists!OfGroup(2))
                 - Lists!Cardinality(Lists!OfGroup(1) \cap Lists!OfGroup(2))
      BY <2>2, <3>1, SizeOfUnion, Zenon
    <3>3. Lists!Cardinality(Lists!OfGroup(1) \cap Lists!OfGroup(2)) = 0
      BY <2>3, SizeOfNone, Zenon
    <3>. QED BY <3>2, <3>3, Zenon
  <2>5. Lists!Cardinality(both) <= Lists!Cardinality(Lists!There)
    BY <1>2, <2>3, SizeOfSubset
  <2>. QED
    BY <1>2, <2>1, <2>3, <2>4, <2>5
<1>. QED
  BY <1>3, <1>4, <1>5

===============================================================================
