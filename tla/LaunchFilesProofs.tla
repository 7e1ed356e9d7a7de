-------------------------- MODULE LaunchFilesProofs --------------------------
(***************************************************************************)
(* The list of mods: for any mods and any number of launches, what a       *)
(* launch says has changed since the last one has changed.                 *)
(*                                                                         *)
(* The directory of crashes: for any number of launches and reports, each  *)
(* report gets the engine state of its own crash, and the archive shows    *)
(* the newest.                                                             *)
(*                                                                         *)
(* The game folder: for any files, and whatever is left of the records of  *)
(* its manager, what a scan calls loose is so, and a full clean removes it *)
(* but for four kinds of files.                                            *)
(*                                                                         *)
(* The settings: for any file, what a script sets is what is read, and no  *)
(* other setting changes; and what is left of them when that fails.        *)
(*                                                                         *)
(* The conflicts: for any database, those that are told are there.         *)
(*                                                                         *)
(* The headers of crashes: for any modules, crashes and launches, a crash  *)
(* has one header, and its buckets are nested.                             *)
(*                                                                         *)
(* The logs: for any log and any limits, what a report shows of it is its  *)
(* end or the lines around the crash, and the log is the newest that fits. *)
(***************************************************************************)
EXTENDS MCLaunchFiles, Integers, FiniteSetTheorems, WellFoundedInduction, TLAPS

Less == {ss \in Nat \X Nat : ss[1] < ss[2]}

LEMMA LessWellFounded == IsWellFoundedOn(Less, Nat)
  BY NatLessThanWellFounded DEF OpToRel, Less

LEMMA LeastOf ==
  ASSUME NEW T \in SUBSET Nat, T # {}
  PROVE  \E m \in T : \A k \in T : m <= k
<1>1. PICK m \in T : \A k \in T : ~ (<<k, m>> \in Less)
  BY WFMin, LessWellFounded
<1>2. ASSUME NEW k \in T PROVE m <= k
  <2>1. k \in Nat /\ m \in Nat
    OBVIOUS
  <2>2. k < m => <<k, m>> \in Less
    BY <2>1 DEF Less
  <2>3. ~(k < m)
    BY <1>1, <2>2
  <2>4. QED
    BY <2>1, <2>3
<1>3. QED
  BY <1>2

-----------------------------------------------------------------------------
(* Elements in order *)

Rank(T, t) == Cardinality({j \in T : j < t})

LEMMA RankGrows ==
  ASSUME NEW T \in SUBSET Nat, IsFiniteSet(T), NEW t \in T
  PROVE  /\ Rank(T, t) \in Nat /\ Rank(T, t) < Cardinality(T) /\ Cardinality(T) \in Nat
         /\ \A s \in T : s < t => Rank(T, s) < Rank(T, t)
<1>1. ASSUME NEW s \in T
      PROVE  /\ IsFiniteSet({j \in T : j < s}) /\ Rank(T, s) \in Nat
             /\ IsFiniteSet({j \in T : j < s} \cup {s})
             /\ Cardinality({j \in T : j < s} \cup {s}) = Rank(T, s) + 1
  <2>1. {j \in T : j < s} \in SUBSET T
    OBVIOUS
  <2>2. IsFiniteSet({j \in T : j < s}) /\ Rank(T, s) \in Nat
    BY <2>1, FS_Subset, FS_CardinalityType DEF Rank
  <2>3. s \notin {j \in T : j < s}
    OBVIOUS
  <2>4. QED
    BY <2>2, <2>3, FS_AddElement DEF Rank
<1>2. Cardinality(T) \in Nat
  BY FS_CardinalityType
<1>3. Rank(T, t) < Cardinality(T)
  <2>1. {j \in T : j < t} \cup {t} \in SUBSET T
    OBVIOUS
  <2>2. Cardinality({j \in T : j < t} \cup {t}) <= Cardinality(T)
    BY <2>1, FS_Subset
  <2>3. Rank(T, t) \in Nat /\ Rank(T, t) + 1 <= Cardinality(T)
    BY <1>1, <2>2
  <2>4. QED
    BY ONLY <1>2, <2>3
<1>4. ASSUME NEW s \in T, s < t PROVE Rank(T, s) < Rank(T, t)
  <2>1. {j \in T : j < s} \cup {s} \in SUBSET {j \in T : j < t}
    <3>1. \A j \in T : j \in Nat
      OBVIOUS
    <3>2. \A j \in T : j < s => j < t
      BY <1>4, <3>1
    <3>3. QED
      BY <1>4, <3>2
  <2>2. Cardinality({j \in T : j < s} \cup {s}) <= Cardinality({j \in T : j < t})
    BY <1>1, <2>1, FS_Subset
  <2>3. Rank(T, s) \in Nat /\ Rank(T, t) \in Nat /\ Rank(T, s) + 1 <= Rank(T, t)
    BY <1>1, <2>2 DEF Rank
  <2>4. QED
    BY ONLY <2>3
<1>5. QED
  BY <1>1, <1>2, <1>3, <1>4

\* The numbers of a set in their order, each of them once.
IsAscending(f, T) ==
  /\ f \in [1 .. Cardinality(T) -> T] /\ Cardinality(T) \in Nat
  /\ \A i, j \in 1 .. Cardinality(T) : i < j => f[i] < f[j]
  /\ \A t \in T : \E i \in 1 .. Cardinality(T) : f[i] = t

LEMMA AscendingIsAscending ==
  ASSUME NEW T \in SUBSET Nat, IsFiniteSet(T)
  PROVE  IsAscending(Ascending(T), T)
<1> DEFINE n == Cardinality(T)
           f == [t \in T |-> Rank(T, t) + 1]
<1>1. n \in Nat
  BY FS_CardinalityType
<1>2. \A t \in T : Rank(T, t) \in Nat /\ Rank(T, t) < n /\ \A s \in T : s < t => Rank(T, s) < Rank(T, t)
  BY RankGrows
<1>3. \A s, t \in T : Rank(T, s) = Rank(T, t) => s = t
  BY <1>2
<1>4. f \in Injection(T, 1 .. n)
  <2>1. f \in [T -> 1 .. n]
    BY <1>1, <1>2
  <2>2. \A s, t \in T : f[s] = f[t] => s = t
    BY <1>2, <1>3
  <2>3. QED
    BY <2>1, <2>2 DEF Injection, IsInjective
<1>5. IsFiniteSet(1 .. n) /\ Cardinality(1 .. n) = n
  BY <1>1, FS_Interval
<1>6. f \in Surjection(T, 1 .. n)
  BY <1>4, <1>5, FS_Injection
<1>7. \A k \in 1 .. n : \E i \in T : Rank(T, i) = k - 1
  <2>1. TAKE k \in 1 .. n
  <2>2. PICK i \in T : f[i] = k
    BY <1>6 DEF Surjection
  <2>3. Rank(T, i) + 1 = k
    BY <2>2
  <2>4. Rank(T, i) = k - 1
    BY <1>2, <2>3
  <2>5. QED
    BY <2>4
<1> DEFINE a == Ascending(T)
<1>8. a = [k \in 1 .. n |-> CHOOSE i \in T : Rank(T, i) = k - 1]
  BY Zenon DEF Ascending, Rank
<1>9. ASSUME NEW k \in 1 .. n PROVE a[k] \in T /\ Rank(T, a[k]) = k - 1
  <2>1. a[k] = CHOOSE i \in T : Rank(T, i) = k - 1
    BY <1>8
  <2>2. \E i \in T : Rank(T, i) = k - 1
    BY <1>7
  <2>3. QED
    BY <2>1, <2>2, Zenon
<1>10. a \in [1 .. n -> T]
  BY <1>8, <1>9
<1> HIDE DEF a, f
<1>11. \A i, j \in 1 .. n : i < j => a[i] < a[j]
  <2>1. TAKE i, j \in 1 .. n
  <2>2. HAVE i < j
  <2>3. a[i] \in Nat /\ a[j] \in Nat /\ Rank(T, a[i]) < Rank(T, a[j])
    <3>1. /\ a[i] \in T /\ a[j] \in T
          /\ Rank(T, a[i]) = i - 1 /\ Rank(T, a[j]) = j - 1
      BY <1>9
    <3>2. i - 1 < j - 1
      BY <1>1, <2>2
    <3>3. QED
      BY <3>1, <3>2
  <2>4. ~(a[j] < a[i]) /\ a[i] # a[j]
    BY <1>2, <1>9, <2>3
  <2>5. QED
    BY <2>3, <2>4
<1>12. \A t \in T : \E i \in 1 .. n : a[i] = t
  <2>1. TAKE t \in T
  <2>2. Rank(T, t) + 1 \in 1 .. n
    BY <1>1, <1>2
  <2>3. Rank(T, a[Rank(T, t) + 1]) = Rank(T, t) /\ a[Rank(T, t) + 1] \in T
    BY <1>2, <1>9, <2>2
  <2>4. a[Rank(T, t) + 1] = t
    BY <1>3, <2>3
  <2>5. QED
    BY <2>2, <2>4
<1>13. QED
  BY <1>1, <1>10, <1>11, <1>12 DEF IsAscending, a

\* What is selected of a sequence: elements at these places, in their order, each of them.
LEMMA SelectedIs ==
  ASSUME NEW s, NEW n \in Nat, NEW T \in SUBSET (1 .. n)
  PROVE  \E f : /\ IsAscending(f, T)
                /\ Selected(s, T) = [k \in 1 .. Cardinality(T) |-> s[f[k]]]
                /\ Len(Selected(s, T)) = Cardinality(T)
<1>1. IsFiniteSet(1 .. n)
  BY FS_Interval
<1>2. T \in SUBSET Nat /\ IsFiniteSet(T)
  <2>1. T \in SUBSET Nat
    OBVIOUS
  <2>2. QED
    BY <1>1, <2>1, FS_Subset
<1>3. IsAscending(Ascending(T), T)
  BY <1>2, AscendingIsAscending
<1>4. Selected(s, T) = [k \in 1 .. Cardinality(T) |-> s[Ascending(T)[k]]]
  BY DEF Selected
<1>5. Len(Selected(s, T)) = Cardinality(T)
  BY <1>3, <1>4 DEF IsAscending
<1>6. QED
  BY <1>3, <1>4, <1>5

-----------------------------------------------------------------------------
(* Recursive functions *)

\* A function that goes on from one argument to the next, each with less to go, is there.
GoesOn(f, D, end, value, next) == f = [x \in D |-> IF x \in end THEN value[x] ELSE f[next[x]]]

LEMMA TailRecursion ==
  ASSUME NEW D, NEW K \in Nat, NEW left \in [D -> 0 .. K], NEW end \in SUBSET D, NEW value, NEW next,
         \A x \in D \ end : next[x] \in D /\ left[next[x]] < left[x]
  PROVE  \E f : GoesOn(f, D, end, value, next)
<1> DEFINE To(f, k) == \A x \in D : left[x] <= k => f[x] = IF x \in end THEN value[x] ELSE f[next[x]]
           T == {k \in Nat : ~\E f : To(f, k)}
<1>1. \A x \in D : left[x] \in Nat /\ left[x] <= K
  OBVIOUS
<1>2. ASSUME NEW k \in Nat, NEW f, \A x \in D : left[x] < k => f[x] = IF x \in end THEN value[x] ELSE f[next[x]]
      PROVE  \E e : To(e, k)
  <2> DEFINE e == [x \in D |-> IF x \in end THEN value[x] ELSE f[next[x]]]
  <2>1. \A x \in D : e[x] = IF x \in end THEN value[x] ELSE f[next[x]]
    OBVIOUS
  <2> HIDE DEF e
  <2>2. ASSUME NEW x \in D, left[x] <= k PROVE e[x] = IF x \in end THEN value[x] ELSE e[next[x]]
    <3>1. CASE x \in end
      BY <2>1, <3>1
    <3>2. CASE x \notin end
      <4>1. next[x] \in D /\ left[next[x]] < k
        BY <1>1, <2>2, <3>2
      <4>2. f[next[x]] = e[next[x]]
        BY <1>2, <2>1, <4>1
      <4>3. QED
        BY <2>1, <3>2, <4>2
    <3>3. QED
      BY <3>1, <3>2
  <2>3. To(e, k)
    BY <2>2
  <2>4. QED
    BY <2>3
<1>3. T = {}
  <2>1. SUFFICES ASSUME T # {} PROVE FALSE
    OBVIOUS
  <2>2. PICK m \in T : \A k \in T : m <= k
    <3>1. T \in SUBSET Nat
      OBVIOUS
    <3> HIDE DEF T
    <3>2. QED
      BY <2>1, <3>1, LeastOf
  <2>3. m \in Nat /\ ~\E f : To(f, m)
    OBVIOUS
  <2>4. CASE m = 0
    <3>1. \A x \in D : ~(left[x] < 0)
      BY <1>1
    <3> HIDE DEF To
    <3>2. \E e : To(e, 0)
      BY <1>2, <3>1
    <3>3. QED
      BY <2>3, <2>4, <3>2
  <2>5. CASE m # 0
    <3>1. m - 1 \in Nat /\ ~(m <= m - 1)
      BY <2>3, <2>5
    <3>2. PICK f : To(f, m - 1)
      BY <2>2, <3>1
    <3>3. \A x \in D : left[x] < m => left[x] <= m - 1
      BY <1>1, <2>3
    <3>4. \A x \in D : left[x] < m => f[x] = IF x \in end THEN value[x] ELSE f[next[x]]
      BY <3>2, <3>3
    <3> HIDE DEF To
    <3>5. \E e : To(e, m)
      BY <1>2, <2>3, <3>4
    <3>6. QED
      BY <2>3, <3>5
  <2>6. QED
    BY <2>4, <2>5
<1>4. PICK f : To(f, K)
  BY <1>3
<1> DEFINE g == [x \in D |-> f[x]]
<1>5. \A x \in D : g[x] = f[x]
  OBVIOUS
<1>6. g = [x \in D |-> g[x]]
  OBVIOUS
<1> HIDE DEF g
<1>7. \A x \in D : g[x] = IF x \in end THEN value[x] ELSE g[next[x]]
  <2> TAKE x \in D
  <2>1. f[x] = IF x \in end THEN value[x] ELSE f[next[x]]
    BY <1>1, <1>4
  <2>2. x \notin end => f[next[x]] = g[next[x]]
    BY <1>5
  <2>3. QED
    BY <1>5, <2>1, <2>2
<1>8. g = [x \in D |-> IF x \in end THEN value[x] ELSE g[next[x]]]
  BY <1>6, <1>7
<1>9. QED
  BY <1>8 DEF GoesOn

\* A function that takes steps from one number to the next, within a set, is there.
Steps(f, n, base, step) == f = [k \in 0..n |-> IF k = 0 THEN base ELSE step[<<f[k - 1], k>>]]

LEMMA StepsAreThere ==
  ASSUME NEW n \in Nat, NEW base, NEW S, base \in S, NEW step, \A s \in S, k \in 1 .. n : step[<<s, k>>] \in S
  PROVE  \E f : Steps(f, n, base, step) /\ f \in [0 .. n -> S]
<1> DEFINE To(f, k) == f[0] = base /\ \A i \in 0 .. k : f[i] \in S /\ (i # 0 => f[i] = step[<<f[i - 1], i>>])
           T == {k \in 0 .. n : ~\E f : To(f, k)}
<1>1. T = {}
  <2>1. SUFFICES ASSUME T # {} PROVE FALSE
    OBVIOUS
  <2>2. PICK k \in T : \A l \in T : k <= l
    <3>1. T \in SUBSET Nat
      OBVIOUS
    <3> HIDE DEF T
    <3>2. QED
      BY <2>1, <3>1, LeastOf
  <2>3. k \in 0 .. n /\ ~\E f : To(f, k)
    OBVIOUS
  <2>4. CASE k = 0
    <3> DEFINE f == [i \in 0 .. 0 |-> base]
    <3>1. f[0] = base /\ \A i \in 0 .. 0 : i = 0 /\ f[i] = base
      OBVIOUS
    <3> HIDE DEF f
    <3>2. To(f, 0)
      BY <3>1
    <3>3. QED
      BY <2>3, <2>4, <3>2
  <2>5. CASE k # 0
    <3>1. k - 1 \in 0 .. n /\ ~(k <= k - 1)
      BY <2>3, <2>5
    <3>2. PICK f : To(f, k - 1)
      BY <2>2, <3>1
    <3> DEFINE e == [i \in 0 .. k |-> IF i = k THEN step[<<f[k - 1], k>>] ELSE f[i]]
    <3>3. e[k] = step[<<f[k - 1], k>>] /\ \A i \in 0 .. k - 1 : e[i] = f[i]
      BY <2>3
    <3>4. e[k] \in S
      <4>1. k - 1 \in 0 .. k - 1 /\ k \in 1 .. n
        BY <2>3, <2>5
      <4>2. f[k - 1] \in S
        BY <3>2, <4>1
      <4>3. step[<<f[k - 1], k>>] \in S
        BY <4>1, <4>2
      <4>4. QED
        BY <3>3, <4>3
    <3> HIDE DEF e
    <3>5. ASSUME NEW i \in 0 .. k PROVE e[i] \in S /\ (i # 0 => e[i] = step[<<e[i - 1], i>>])
      <4>1. CASE i = k
        <5>1. k - 1 \in 0 .. k - 1
          BY <2>3, <2>5
        <5>2. QED
          BY <3>3, <3>4, <4>1, <5>1
      <4>2. CASE i # k
        <5>1. i \in 0 .. k - 1 /\ (i # 0 => i - 1 \in 0 .. k - 1)
          BY <2>3, <4>2
        <5>2. QED
          BY <3>2, <3>3, <5>1
      <4>3. QED
        BY <4>1, <4>2
    <3>6. e[0] = base
      <4>1. 0 \in 0 .. k - 1
        BY <2>3, <2>5
      <4>2. QED
        BY <3>2, <3>3, <4>1
    <3>7. To(e, k)
      BY <3>5, <3>6
    <3> HIDE DEF To
    <3>8. QED
      BY <2>3, <3>7
  <2>6. QED
    BY <2>4, <2>5
<1>2. PICK d : To(d, n)
  BY <1>1
<1> DEFINE f == [k \in 0 .. n |-> d[k]]
<1>3. \A k \in 0 .. n : f[k] = d[k]
  OBVIOUS
<1>4. f = [k \in 0 .. n |-> f[k]]
  OBVIOUS
<1> HIDE DEF f
<1>5. \A k \in 0 .. n : f[k] = IF k = 0 THEN base ELSE step[<<f[k - 1], k>>]
  <2> TAKE k \in 0 .. n
  <2>1. CASE k = 0
    BY <1>2, <1>3, <2>1
  <2>2. CASE k # 0
    <3>1. k - 1 \in 0 .. n
      BY <2>2
    <3>2. QED
      BY <1>2, <1>3, <2>2, <3>1
  <2>3. QED
    BY <2>1, <2>2
<1>6. f \in [0 .. n -> S]
  BY <1>2, <1>3, <1>4
<1>7. f = [k \in 0..n |-> IF k = 0 THEN base ELSE step[<<f[k - 1], k>>]]
  BY <1>4, <1>5
<1>8. QED
  BY <1>6, <1>7 DEF Steps

-----------------------------------------------------------------------------
(* The list of mods *)

Listable(mods) == IsFiniteSet(mods) /\ \A m \in mods : m.name \in Nat

\* A list of all the mods, each of them once.
IsList(s, mods) ==
  /\ Len(s) \in Nat /\ \A k \in 1 .. Len(s) : s[k] \in mods
  /\ \A i, j \in 1 .. Len(s) : s[i] = s[j] => i = j
  /\ \A m \in mods : \E k \in 1 .. Len(s) : s[k] = m

\* A list by names, of which several may be equal.
Ordered(s) ==
  /\ Len(s) \in Nat /\ \A k \in 1 .. Len(s) : s[k].name \in Nat
  /\ \A i, j \in 1 .. Len(s) : i < j => s[i].name <= s[j].name

LEMMA SortingIsList ==
  ASSUME NEW mods, Listable(mods), NEW s \in Sortings(mods)
  PROVE  Ordered(s) /\ IsList(s, mods) /\ Len(s) = Cardinality(mods)
<1> DEFINE n == Cardinality(mods)
<1>1. n \in Nat
  BY FS_CardinalityType DEF Listable
<1>2. s \in [1 .. n -> mods] /\ \A i, j \in 1 .. n : i < j => s[i].name <= s[j].name /\ s[i] # s[j]
  BY DEF Sortings
<1> HIDE DEF n
<1>3. Len(s) = n /\ DOMAIN s = 1 .. n
  BY <1>1, <1>2
<1>4. \A i, j \in 1 .. n : s[i] = s[j] => i = j
  <2> TAKE i, j \in 1 .. n
  <2>1. i < j \/ j < i \/ i = j
    BY <1>1
  <2>2. QED
    BY <1>2, <2>1
<1>5. s \in Injection(1 .. n, mods)
  BY <1>2, <1>4 DEF Injection, IsInjective
<1>6. IsFiniteSet(1 .. n) /\ Cardinality(1 .. n) = n
  BY <1>1, FS_Interval
<1>7. s \in Surjection(1 .. n, mods)
  BY <1>5, <1>6, FS_Injection DEF Listable, n
<1>8. \A m \in mods : \E k \in 1 .. n : s[k] = m
  BY <1>7 DEF Surjection
<1>9. \A k \in 1 .. n : s[k] \in mods /\ s[k].name \in Nat
  BY <1>2 DEF Listable
<1>10. Ordered(s)
  BY <1>1, <1>2, <1>3, <1>9 DEF Ordered
<1>11. IsList(s, mods)
  BY <1>1, <1>3, <1>4, <1>8, <1>9 DEF IsList
<1>12. QED
  BY <1>3, <1>10, <1>11 DEF n

\* How many mods of a name a list has from a place on.
At(s, i, n) == {k \in i .. Len(s) : s[k].name = n}
HowMany(s, i, n) == Cardinality(At(s, i, n))

LEMMA AtIsFinite ==
  ASSUME NEW s, Len(s) \in Nat, NEW i \in Nat, NEW n
  PROVE  IsFiniteSet(At(s, i, n)) /\ HowMany(s, i, n) \in Nat
<1>1. IsFiniteSet(i .. Len(s))
  BY FS_Interval
<1>2. At(s, i, n) \in SUBSET (i .. Len(s))
  BY DEF At
<1>3. QED
  BY <1>1, <1>2, FS_Subset, FS_CardinalityType DEF HowMany

LEMMA CountNext ==
  ASSUME NEW s, Len(s) \in Nat, NEW i \in 1 .. Len(s), NEW n
  PROVE  HowMany(s, i, n) = HowMany(s, i + 1, n) + (IF s[i].name = n THEN 1 ELSE 0)
<1>1. \A k : k \in i .. Len(s) <=> k = i \/ k \in i + 1 .. Len(s)
  OBVIOUS
<1>2. At(s, i, n) = IF s[i].name = n THEN At(s, i + 1, n) \cup {i} ELSE At(s, i + 1, n)
  BY <1>1 DEF At
<1>3. i \notin At(s, i + 1, n)
  BY DEF At
<1>4. IsFiniteSet(At(s, i + 1, n)) /\ HowMany(s, i + 1, n) \in Nat
  BY AtIsFinite
<1>5. Cardinality(At(s, i + 1, n) \cup {i}) = HowMany(s, i + 1, n) + 1
  BY <1>3, <1>4, FS_AddElement DEF HowMany
<1>6. CASE s[i].name = n
  BY <1>2, <1>5, <1>6 DEF HowMany
<1>7. CASE s[i].name # n
  BY <1>2, <1>4, <1>7 DEF HowMany
<1>8. QED
  BY <1>6, <1>7

LEMMA CountNone ==
  ASSUME NEW s, Len(s) \in Nat, NEW i \in Nat, NEW n
  PROVE  HowMany(s, i, n) = 0 <=> \A k \in i .. Len(s) : s[k].name # n
<1>1. HowMany(s, i, n) = 0 <=> At(s, i, n) = {}
  BY AtIsFinite, FS_EmptySet DEF HowMany
<1>2. QED
  BY <1>1 DEF At

LEMMA CountAll ==
  ASSUME NEW mods, IsFiniteSet(mods), NEW s, IsList(s, mods), NEW n
  PROVE  HowMany(s, 1, n) = Copies(mods, n)
<1> DEFINE P == At(s, 1, n)
           Q == {m \in mods : m.name = n}
           f == [k \in P |-> s[k]]
<1>1. /\ Len(s) \in Nat /\ \A k \in 1 .. Len(s) : s[k] \in mods
      /\ \A i, j \in 1 .. Len(s) : s[i] = s[j] => i = j
      /\ \A m \in mods : \E k \in 1 .. Len(s) : s[k] = m
  BY Zenon DEF IsList
<1>2. f \in Injection(P, Q)
  <2>1. f \in [P -> Q]
    BY <1>1 DEF At
  <2>2. \A i, j \in P : f[i] = f[j] => i = j
    BY <1>1 DEF At
  <2>3. QED
    BY <2>1, <2>2 DEF Injection, IsInjective
<1>3. f \in Surjection(P, Q)
  <2>1. \A m \in Q : \E k \in P : f[k] = m
    BY <1>1 DEF At
  <2>2. QED
    BY <1>2, <2>1 DEF Injection, Surjection
<1>4. IsFiniteSet(Q)
  BY FS_Subset
<1> HIDE DEF P, Q, f
<1>5. Cardinality(P) = Cardinality(Q)
  BY <1>2, <1>3, <1>4, FS_Injection
<1>6. QED
  BY <1>5 DEF HowMany, Copies, P, Q

\* The merge as a table over the places in the two lists, each entry from one of the next.
Cells(a, b) == (1 .. Len(a) + 1) \X (1 .. Len(b) + 1)
Cell(D, a, b, at) ==
  LET i == at[1]
      j == at[2]
  IN IF i > Len(a) THEN [NoDiff EXCEPT !.added = {b[k].name : k \in j .. Len(b)}]
     ELSE IF j > Len(b) THEN [NoDiff EXCEPT !.removed = {a[k].name : k \in i .. Len(a)}]
     ELSE IF a[i].name < b[j].name THEN [D[<<i + 1, j>>] EXCEPT !.removed = @ \cup {a[i].name}]
     ELSE IF a[i].name > b[j].name THEN [D[<<i, j + 1>>] EXCEPT !.added = @ \cup {b[j].name}]
     ELSE IF a[i].version # b[j].version THEN [D[<<i + 1, j + 1>>] EXCEPT !.updated = @ \cup {a[i].name}]
     ELSE D[<<i + 1, j + 1>>]
IsMerge(D, a, b) == D = [at \in Cells(a, b) |-> Cell(D, a, b, at)]
Merge(a, b) == CHOOSE D : IsMerge(D, a, b)

LEMMA DiffIsMerge ==
  ASSUME NEW a, NEW b
  PROVE  ComputeModDiff(a, b) = Merge(a, b)[<<1, 1>>]
  BY Zenon DEF ComputeModDiff, Merge, IsMerge, Cells, Cell

Left(a, b, at) == (Len(a) + 1 - at[1]) + (Len(b) + 1 - at[2])

LEMMA LeftType ==
  ASSUME NEW a, Len(a) \in Nat, NEW b, Len(b) \in Nat, NEW at \in Cells(a, b)
  PROVE  /\ Left(a, b, at) \in Nat /\ Left(a, b, at) <= Len(a) + Len(b)
         /\ at[1] \in 1 .. Len(a) + 1 /\ at[2] \in 1 .. Len(b) + 1
         /\ at = <<at[1], at[2]>>
  BY DEF Cells, Left

LEMMA CellUsesNext ==
  ASSUME NEW a, Len(a) \in Nat, NEW b, Len(b) \in Nat, NEW D, NEW E, NEW at \in Cells(a, b),
         \A q \in Cells(a, b) : Left(a, b, q) < Left(a, b, at) => D[q] = E[q]
  PROVE  Cell(D, a, b, at) = Cell(E, a, b, at)
<1> DEFINE i == at[1]
           j == at[2]
<1>1. i \in 1 .. Len(a) + 1 /\ j \in 1 .. Len(b) + 1
  BY LeftType
<1>2. CASE i > Len(a) \/ j > Len(b)
  BY <1>2, Zenon DEF Cell
<1>3. CASE ~(i > Len(a)) /\ ~(j > Len(b))
  <2>1. /\ <<i + 1, j>> \in Cells(a, b) /\ Left(a, b, <<i + 1, j>>) < Left(a, b, at)
        /\ <<i, j + 1>> \in Cells(a, b) /\ Left(a, b, <<i, j + 1>>) < Left(a, b, at)
        /\ <<i + 1, j + 1>> \in Cells(a, b) /\ Left(a, b, <<i + 1, j + 1>>) < Left(a, b, at)
    <3>1. /\ i + 1 \in 1 .. Len(a) + 1 /\ j + 1 \in 1 .. Len(b) + 1
          /\ Left(a, b, at) = (Len(a) + 1 - i) + (Len(b) + 1 - j)
      BY <1>1, <1>3 DEF Left
    <3>2. /\ Left(a, b, <<i + 1, j>>) = (Len(a) + 1 - (i + 1)) + (Len(b) + 1 - j)
          /\ Left(a, b, <<i, j + 1>>) = (Len(a) + 1 - i) + (Len(b) + 1 - (j + 1))
          /\ Left(a, b, <<i + 1, j + 1>>) = (Len(a) + 1 - (i + 1)) + (Len(b) + 1 - (j + 1))
      BY DEF Left
    <3>3. <<i + 1, j>> \in Cells(a, b) /\ <<i, j + 1>> \in Cells(a, b) /\ <<i + 1, j + 1>> \in Cells(a, b)
      BY <1>1, <3>1 DEF Cells
    <3> HIDE DEF i, j
    <3>4. QED
      BY <1>1, <3>1, <3>2, <3>3
  <2>2. D[<<i + 1, j>>] = E[<<i + 1, j>>] /\ D[<<i, j + 1>>] = E[<<i, j + 1>>]
        /\ D[<<i + 1, j + 1>>] = E[<<i + 1, j + 1>>]
    BY <2>1
  <2>3. QED
    BY <1>3, <2>2, Zenon DEF Cell
<1>4. QED
  BY <1>2, <1>3

UpTo(D, a, b, k) == \A at \in Cells(a, b) : Left(a, b, at) <= k => D[at] = Cell(D, a, b, at)

LEMMA MergeIsThere ==
  ASSUME NEW a, Len(a) \in Nat, NEW b, Len(b) \in Nat
  PROVE  IsMerge(Merge(a, b), a, b)
<1> DEFINE T == {k \in Nat : ~\E D : UpTo(D, a, b, k)}
           C == Cells(a, b)
           L(at) == Left(a, b, at)
<1>l. \A at \in C : L(at) \in Nat /\ L(at) <= Len(a) + Len(b)
  BY LeftType
<1>1. ASSUME NEW k \in Nat, NEW D, \A q \in C : L(q) < k => D[q] = Cell(D, a, b, q)
      PROVE  UpTo([at \in C |-> Cell(D, a, b, at)], a, b, k)
  <2> DEFINE E == [at \in C |-> Cell(D, a, b, at)]
  <2>1. SUFFICES ASSUME NEW at \in C, L(at) <= k PROVE E[at] = Cell(E, a, b, at)
    BY Zenon DEF UpTo
  <2>2. \A q \in C : E[q] = Cell(D, a, b, q)
    OBVIOUS
  <2> HIDE DEF E
  <2>3. ASSUME NEW q \in C, L(q) < L(at) PROVE D[q] = E[q]
    <3>1. L(q) \in Nat /\ L(at) \in Nat
      BY <1>l
    <3>2. L(q) < k
      BY ONLY <2>1, <2>3, <3>1, k \in Nat
    <3>3. QED
      BY <1>1, <2>2, <3>2
  <2>4. Cell(D, a, b, at) = Cell(E, a, b, at)
    BY <2>3, CellUsesNext
  <2>5. QED
    BY <2>2, <2>4
<1>2. T = {}
  <2>1. SUFFICES ASSUME T # {} PROVE FALSE
    OBVIOUS
  <2>2. PICK m \in T : \A k \in T : m <= k
    <3>1. T \in SUBSET Nat
      OBVIOUS
    <3> HIDE DEF T
    <3>2. QED
      BY <2>1, <3>1, LeastOf
  <2>3. m \in Nat /\ ~\E D : UpTo(D, a, b, m)
    OBVIOUS
  <2>4. CASE m = 0
    <3>1. \A q \in C : ~(L(q) < 0)
      BY <1>l
    <3>2. UpTo([at \in C |-> Cell(<<>>, a, b, at)], a, b, 0)
      BY <1>1, <3>1
    <3>3. QED
      BY <2>3, <2>4, <3>2
  <2>5. CASE m # 0
    <3>1. m - 1 \in Nat /\ ~(m <= m - 1)
      BY <2>3, <2>5
    <3>2. PICK D : UpTo(D, a, b, m - 1)
      BY <2>2, <3>1
    <3>3. ASSUME NEW q \in C, L(q) < m PROVE D[q] = Cell(D, a, b, q)
      <4>1. L(q) <= m - 1
        BY <1>l, <2>3, <3>3
      <4>2. QED
        BY <3>2, <4>1 DEF UpTo
    <3>4. UpTo([at \in C |-> Cell(D, a, b, at)], a, b, m)
      BY <1>1, <2>3, <3>3
    <3>5. QED
      BY <2>3, <3>4
  <2>6. QED
    BY <2>4, <2>5
<1>3. PICK D : UpTo(D, a, b, Len(a) + Len(b))
  <2>1. Len(a) + Len(b) \in Nat
    OBVIOUS
  <2>2. QED
    BY <1>2, <2>1
<1>4. \A at \in C : D[at] = Cell(D, a, b, at)
  BY <1>3, <1>l DEF UpTo
<1> DEFINE merged == [at \in C |-> D[at]]
<1>5. \A at \in C : merged[at] = Cell(merged, a, b, at)
  <2>1. TAKE at \in C
  <2>2. \A q \in C : D[q] = merged[q]
    OBVIOUS
  <2> HIDE DEF merged
  <2>3. Cell(D, a, b, at) = Cell(merged, a, b, at)
    BY <2>2, CellUsesNext
  <2>4. QED
    BY <1>4, <2>2, <2>3
<1>6. IsMerge(merged, a, b)
  <2>1. merged = [at \in C |-> merged[at]]
    OBVIOUS
  <2> HIDE DEF merged
  <2>2. merged = [at \in C |-> Cell(merged, a, b, at)]
    BY <1>5, <2>1
  <2>3. QED
    BY <2>2, Zenon DEF IsMerge
<1>7. QED
  BY <1>6, Zenon DEF Merge

\* Two mods of one name, from a place in each list on, that differ in version.
Differ(a, b, i, j, n) ==
  \E k \in i .. Len(a), l \in j .. Len(b) : a[k].name = n /\ b[l].name = n /\ a[k].version # b[l].version
\* Each two of that name do, and there are two.
AllDiffer(a, b, i, j, n) ==
  /\ \E k \in i .. Len(a), l \in j .. Len(b) : a[k].name = n /\ b[l].name = n
  /\ \A k \in i .. Len(a), l \in j .. Len(b) : a[k].name = n /\ b[l].name = n => a[k].version # b[l].version

DiffOf(p, q, u) == [added |-> p, removed |-> q, updated |-> u, priorFilePresent |-> FALSE]

\* What the merge has left to find from a place in each list on.
Finds(p, q, u, a, b, i, j) ==
  \A n : /\ n \in p <=> HowMany(b, j, n) > HowMany(a, i, n)
         /\ n \in q <=> HowMany(a, i, n) > HowMany(b, j, n)
         /\ n \in u => Differ(a, b, i, j, n)
         /\ AllDiffer(a, b, i, j, n) => n \in u
Found(d, a, b, i, j) == \E p, q, u : d = DiffOf(p, q, u) /\ Finds(p, q, u, a, b, i, j)

\* No mod that is left has a smaller name than the first of them.
LEMMA NotThere ==
  ASSUME NEW s, Ordered(s), NEW i \in 1 .. Len(s), NEW n \in Nat, n < s[i].name
  PROVE  HowMany(s, i, n) = 0 /\ \A k \in i .. Len(s) : s[k].name # n
<1>1. \A k \in i .. Len(s) : s[k].name # n
  <2> TAKE k \in i .. Len(s)
  <2>1. k \in 1 .. Len(s) /\ (k = i \/ i < k)
    BY DEF Ordered
  <2>2. s[i].name \in Nat /\ s[k].name \in Nat /\ s[i].name <= s[k].name
    BY <2>1 DEF Ordered
  <2>3. QED
    BY <2>2
<1>2. QED
  BY <1>1, CountNone DEF Ordered

\* One step of the merge: a mod that is only in the first list, ...
LEMMA OnlyLeft ==
  ASSUME NEW a, Ordered(a), NEW b, Ordered(b), NEW i \in 1 .. Len(a), NEW j \in 1 .. Len(b),
         a[i].name < b[j].name, NEW p, NEW q, NEW u, Finds(p, q, u, a, b, i + 1, j)
  PROVE  Finds(p, q \cup {a[i].name}, u, a, b, i, j)
<1> DEFINE x == a[i].name
<1>1. Len(a) \in Nat /\ Len(b) \in Nat /\ x \in Nat
  BY DEF Ordered
<1>2. HowMany(b, j, x) = 0 /\ \A l \in j .. Len(b) : b[l].name # x
  BY <1>1, NotThere
<1>3. \A k : k \in i .. Len(a) <=> k = i \/ k \in i + 1 .. Len(a)
  BY <1>1
<1>4. ASSUME NEW n
      PROVE  /\ n \in p <=> HowMany(b, j, n) > HowMany(a, i, n)
             /\ n \in q \cup {x} <=> HowMany(a, i, n) > HowMany(b, j, n)
             /\ n \in u => Differ(a, b, i, j, n)
             /\ AllDiffer(a, b, i, j, n) => n \in u
  <2>1. /\ n \in p <=> HowMany(b, j, n) > HowMany(a, i + 1, n)
        /\ n \in q <=> HowMany(a, i + 1, n) > HowMany(b, j, n)
        /\ n \in u => Differ(a, b, i + 1, j, n)
        /\ AllDiffer(a, b, i + 1, j, n) => n \in u
    BY Zenon DEF Finds
  <2>2. HowMany(a, i, n) = HowMany(a, i + 1, n) + (IF x = n THEN 1 ELSE 0)
    BY <1>1, CountNext
  <2>3. HowMany(a, i + 1, n) \in Nat /\ HowMany(b, j, n) \in Nat
    BY <1>1, AtIsFinite
  <2>4. n \in p <=> HowMany(b, j, n) > HowMany(a, i, n)
    <3>1. CASE n = x
      BY <1>2, <2>1, <2>2, <2>3, <3>1
    <3>2. CASE n # x
      BY <2>1, <2>2, <2>3, <3>2
    <3>3. QED
      BY <3>1, <3>2
  <2>5. n \in q \cup {x} <=> HowMany(a, i, n) > HowMany(b, j, n)
    <3>1. CASE n = x
      BY <1>2, <2>1, <2>2, <2>3, <3>1
    <3>2. CASE n # x
      BY <2>1, <2>2, <2>3, <3>2
    <3>3. QED
      BY <3>1, <3>2
  <2>6. Differ(a, b, i + 1, j, n) => Differ(a, b, i, j, n)
    BY <1>3, Zenon DEF Differ
  <2>7. AllDiffer(a, b, i, j, n) => AllDiffer(a, b, i + 1, j, n)
    BY <1>2, <1>3, Zenon DEF AllDiffer
  <2>8. QED
    BY <2>1, <2>4, <2>5, <2>6, <2>7
<1>5. QED
  BY <1>4, Zenon DEF Finds

\* ... only in the second, ...
LEMMA OnlyRight ==
  ASSUME NEW a, Ordered(a), NEW b, Ordered(b), NEW i \in 1 .. Len(a), NEW j \in 1 .. Len(b),
         b[j].name < a[i].name, NEW p, NEW q, NEW u, Finds(p, q, u, a, b, i, j + 1)
  PROVE  Finds(p \cup {b[j].name}, q, u, a, b, i, j)
<1> DEFINE x == b[j].name
<1>1. Len(a) \in Nat /\ Len(b) \in Nat /\ x \in Nat
  BY DEF Ordered
<1>2. HowMany(a, i, x) = 0 /\ \A k \in i .. Len(a) : a[k].name # x
  BY <1>1, NotThere
<1>3. \A k : k \in j .. Len(b) <=> k = j \/ k \in j + 1 .. Len(b)
  BY <1>1
<1>4. ASSUME NEW n
      PROVE  /\ n \in p \cup {x} <=> HowMany(b, j, n) > HowMany(a, i, n)
             /\ n \in q <=> HowMany(a, i, n) > HowMany(b, j, n)
             /\ n \in u => Differ(a, b, i, j, n)
             /\ AllDiffer(a, b, i, j, n) => n \in u
  <2>1. /\ n \in p <=> HowMany(b, j + 1, n) > HowMany(a, i, n)
        /\ n \in q <=> HowMany(a, i, n) > HowMany(b, j + 1, n)
        /\ n \in u => Differ(a, b, i, j + 1, n)
        /\ AllDiffer(a, b, i, j + 1, n) => n \in u
    BY Zenon DEF Finds
  <2>2. HowMany(b, j, n) = HowMany(b, j + 1, n) + (IF x = n THEN 1 ELSE 0)
    BY <1>1, CountNext
  <2>3. HowMany(a, i, n) \in Nat /\ HowMany(b, j + 1, n) \in Nat
    BY <1>1, AtIsFinite
  <2>4. n \in p \cup {x} <=> HowMany(b, j, n) > HowMany(a, i, n)
    <3>1. CASE n = x
      BY <1>2, <2>1, <2>2, <2>3, <3>1
    <3>2. CASE n # x
      BY <2>1, <2>2, <2>3, <3>2
    <3>3. QED
      BY <3>1, <3>2
  <2>5. n \in q <=> HowMany(a, i, n) > HowMany(b, j, n)
    <3>1. CASE n = x
      BY <1>2, <2>1, <2>2, <2>3, <3>1
    <3>2. CASE n # x
      BY <2>1, <2>2, <2>3, <3>2
    <3>3. QED
      BY <3>1, <3>2
  <2>6. Differ(a, b, i, j + 1, n) => Differ(a, b, i, j, n)
    BY <1>3, Zenon DEF Differ
  <2>7. AllDiffer(a, b, i, j, n) => AllDiffer(a, b, i, j + 1, n)
    BY <1>2, <1>3, Zenon DEF AllDiffer
  <2>8. QED
    BY <2>1, <2>4, <2>5, <2>6, <2>7
<1>5. QED
  BY <1>4, Zenon DEF Finds

\* ... or one of a name that both have.
LEMMA OneOfEach ==
  ASSUME NEW a, Ordered(a), NEW b, Ordered(b), NEW i \in 1 .. Len(a), NEW j \in 1 .. Len(b),
         a[i].name = b[j].name, NEW p, NEW q, NEW u, Finds(p, q, u, a, b, i + 1, j + 1)
  PROVE  Finds(p, q, IF a[i].version # b[j].version THEN u \cup {a[i].name} ELSE u, a, b, i, j)
<1> DEFINE x == a[i].name
           w == IF a[i].version # b[j].version THEN u \cup {x} ELSE u
<1>1. Len(a) \in Nat /\ Len(b) \in Nat /\ x \in Nat
  BY DEF Ordered
<1>2. /\ \A k : k \in i .. Len(a) <=> k = i \/ k \in i + 1 .. Len(a)
      /\ \A k : k \in j .. Len(b) <=> k = j \/ k \in j + 1 .. Len(b)
  BY <1>1
<1>3. ASSUME NEW n
      PROVE  /\ n \in p <=> HowMany(b, j, n) > HowMany(a, i, n)
             /\ n \in q <=> HowMany(a, i, n) > HowMany(b, j, n)
             /\ n \in w => Differ(a, b, i, j, n)
             /\ AllDiffer(a, b, i, j, n) => n \in w
  <2>1. /\ n \in p <=> HowMany(b, j + 1, n) > HowMany(a, i + 1, n)
        /\ n \in q <=> HowMany(a, i + 1, n) > HowMany(b, j + 1, n)
        /\ n \in u => Differ(a, b, i + 1, j + 1, n)
        /\ AllDiffer(a, b, i + 1, j + 1, n) => n \in u
    BY Zenon DEF Finds
  <2>2. /\ HowMany(a, i, n) = HowMany(a, i + 1, n) + (IF x = n THEN 1 ELSE 0)
        /\ HowMany(b, j, n) = HowMany(b, j + 1, n) + (IF x = n THEN 1 ELSE 0)
    BY <1>1, CountNext
  <2>3. HowMany(a, i + 1, n) \in Nat /\ HowMany(b, j + 1, n) \in Nat
    <3>1. i + 1 \in Nat /\ j + 1 \in Nat
      OBVIOUS
    <3>2. QED
      BY <1>1, <3>1, AtIsFinite
  <2>4. n \in p <=> HowMany(b, j, n) > HowMany(a, i, n)
    BY <2>1, <2>2, <2>3
  <2>5. n \in q <=> HowMany(a, i, n) > HowMany(b, j, n)
    BY <2>1, <2>2, <2>3
  <2>6. Differ(a, b, i + 1, j + 1, n) => Differ(a, b, i, j, n)
    BY <1>2, Zenon DEF Differ
  <2>7. i \in i .. Len(a) /\ j \in j .. Len(b)
    BY <1>2
  <2>8. n \in w => Differ(a, b, i, j, n)
    <3>1. CASE n = x /\ a[i].version # b[j].version
      BY <2>7, <3>1, Zenon DEF Differ
    <3>2. CASE ~(n = x /\ a[i].version # b[j].version)
      BY <2>1, <2>6, <3>2
    <3>3. QED
      BY <3>1, <3>2
  <2>9. AllDiffer(a, b, i, j, n) => n \in w
    <3>1. SUFFICES ASSUME AllDiffer(a, b, i, j, n) PROVE n \in w
      OBVIOUS
    <3>2. CASE n = x
      <4>1. a[i].version # b[j].version
        BY <2>7, <3>1, <3>2, Zenon DEF AllDiffer
      <4>2. QED
        BY <3>2, <4>1
    <3>3. CASE n # x
      <4>1. AllDiffer(a, b, i + 1, j + 1, n)
        BY <1>2, <3>1, <3>3, Zenon DEF AllDiffer
      <4>2. QED
        BY <2>1, <4>1
    <3>4. QED
      BY <3>2, <3>3
  <2>10. QED
    BY <2>4, <2>5, <2>8, <2>9
<1> HIDE DEF w
<1>4. Finds(p, q, w, a, b, i, j)
  BY <1>3, Zenon DEF Finds
<1>5. QED
  BY <1>4 DEF w

\* One of the lists has come to its end.
LEMMA RestIsAdded ==
  ASSUME NEW a, Ordered(a), NEW b, Ordered(b), NEW i \in Nat, i > Len(a), NEW j \in Nat
  PROVE  Finds({b[k].name : k \in j .. Len(b)}, {}, {}, a, b, i, j)
<1>1. Len(a) \in Nat /\ Len(b) \in Nat /\ i .. Len(a) = {}
  BY DEF Ordered
<1>2. ASSUME NEW n
      PROVE  /\ n \in {b[k].name : k \in j .. Len(b)} <=> HowMany(b, j, n) > HowMany(a, i, n)
             /\ n \in {} <=> HowMany(a, i, n) > HowMany(b, j, n)
             /\ n \in {} => Differ(a, b, i, j, n)
             /\ AllDiffer(a, b, i, j, n) => n \in {}
  <2>1. HowMany(a, i, n) = 0
    BY <1>1, CountNone
  <2>2. HowMany(b, j, n) \in Nat
    BY <1>1, AtIsFinite
  <2>3. n \in {b[k].name : k \in j .. Len(b)} <=> HowMany(b, j, n) # 0
    BY <1>1, CountNone
  <2>4. ~AllDiffer(a, b, i, j, n)
    BY <1>1 DEF AllDiffer
  <2>5. QED
    BY <2>1, <2>2, <2>3, <2>4
<1>3. QED
  BY <1>2, Zenon DEF Finds

LEMMA RestIsRemoved ==
  ASSUME NEW a, Ordered(a), NEW b, Ordered(b), NEW i \in Nat, NEW j \in Nat, j > Len(b)
  PROVE  Finds({}, {a[k].name : k \in i .. Len(a)}, {}, a, b, i, j)
<1>1. Len(a) \in Nat /\ Len(b) \in Nat /\ j .. Len(b) = {}
  BY DEF Ordered
<1>2. ASSUME NEW n
      PROVE  /\ n \in {} <=> HowMany(b, j, n) > HowMany(a, i, n)
             /\ n \in {a[k].name : k \in i .. Len(a)} <=> HowMany(a, i, n) > HowMany(b, j, n)
             /\ n \in {} => Differ(a, b, i, j, n)
             /\ AllDiffer(a, b, i, j, n) => n \in {}
  <2>1. HowMany(b, j, n) = 0
    BY <1>1, CountNone
  <2>2. HowMany(a, i, n) \in Nat
    BY <1>1, AtIsFinite
  <2>3. n \in {a[k].name : k \in i .. Len(a)} <=> HowMany(a, i, n) # 0
    BY <1>1, CountNone
  <2>4. ~AllDiffer(a, b, i, j, n)
    BY <1>1 DEF AllDiffer
  <2>5. QED
    BY <2>1, <2>2, <2>3, <2>4
<1>3. QED
  BY <1>2, Zenon DEF Finds

LEMMA CellFinds ==
  ASSUME NEW a, Ordered(a), NEW b, Ordered(b), NEW D, NEW at \in Cells(a, b),
         \A q \in Cells(a, b) : Left(a, b, q) < Left(a, b, at) => Found(D[q], a, b, q[1], q[2])
  PROVE  Found(Cell(D, a, b, at), a, b, at[1], at[2])
<1> DEFINE i == at[1]
           j == at[2]
<1>1. i \in 1 .. Len(a) + 1 /\ j \in 1 .. Len(b) + 1 /\ Len(a) \in Nat /\ Len(b) \in Nat
  BY LeftType DEF Ordered
<1> HIDE DEF i, j
<1>2. CASE i > Len(a)
  <2>1. Cell(D, a, b, at) = [NoDiff EXCEPT !.added = {b[k].name : k \in j .. Len(b)}]
    BY <1>2, Zenon DEF Cell, i, j
  <2>2. Cell(D, a, b, at) = DiffOf({b[k].name : k \in j .. Len(b)}, {}, {})
    BY <2>1 DEF NoDiff, DiffOf
  <2>3. Finds({b[k].name : k \in j .. Len(b)}, {}, {}, a, b, i, j)
    BY <1>1, <1>2, RestIsAdded
  <2>4. QED
    BY <2>2, <2>3, Zenon DEF Found, i, j
<1>3. CASE ~(i > Len(a)) /\ j > Len(b)
  <2>1. Cell(D, a, b, at) = [NoDiff EXCEPT !.removed = {a[k].name : k \in i .. Len(a)}]
    BY <1>3, Zenon DEF Cell, i, j
  <2>2. Cell(D, a, b, at) = DiffOf({}, {a[k].name : k \in i .. Len(a)}, {})
    BY <2>1 DEF NoDiff, DiffOf
  <2>3. Finds({}, {a[k].name : k \in i .. Len(a)}, {}, a, b, i, j)
    BY <1>1, <1>3, RestIsRemoved
  <2>4. QED
    BY <2>2, <2>3, Zenon DEF Found, i, j
<1>4. CASE ~(i > Len(a)) /\ ~(j > Len(b))
  <2>1. i \in 1 .. Len(a) /\ j \in 1 .. Len(b)
    BY <1>1, <1>4
  <2>2. /\ Found(D[<<i + 1, j>>], a, b, i + 1, j) /\ Found(D[<<i, j + 1>>], a, b, i, j + 1)
        /\ Found(D[<<i + 1, j + 1>>], a, b, i + 1, j + 1)
    <3>1. /\ i + 1 \in 1 .. Len(a) + 1 /\ j + 1 \in 1 .. Len(b) + 1
          /\ Left(a, b, at) = (Len(a) + 1 - i) + (Len(b) + 1 - j)
      BY <1>1, <2>1 DEF Left, i, j
    <3>2. /\ Left(a, b, <<i + 1, j>>) = (Len(a) + 1 - (i + 1)) + (Len(b) + 1 - j)
          /\ Left(a, b, <<i, j + 1>>) = (Len(a) + 1 - i) + (Len(b) + 1 - (j + 1))
          /\ Left(a, b, <<i + 1, j + 1>>) = (Len(a) + 1 - (i + 1)) + (Len(b) + 1 - (j + 1))
      BY DEF Left
    <3>3. <<i + 1, j>> \in Cells(a, b) /\ <<i, j + 1>> \in Cells(a, b) /\ <<i + 1, j + 1>> \in Cells(a, b)
      BY <1>1, <3>1 DEF Cells
    <3>4. /\ Left(a, b, <<i + 1, j>>) < Left(a, b, at) /\ Left(a, b, <<i, j + 1>>) < Left(a, b, at)
          /\ Left(a, b, <<i + 1, j + 1>>) < Left(a, b, at)
      BY ONLY <1>1, <3>1, <3>2
    <3>5. /\ Found(D[<<i + 1, j>>], a, b, <<i + 1, j>>[1], <<i + 1, j>>[2])
          /\ Found(D[<<i, j + 1>>], a, b, <<i, j + 1>>[1], <<i, j + 1>>[2])
          /\ Found(D[<<i + 1, j + 1>>], a, b, <<i + 1, j + 1>>[1], <<i + 1, j + 1>>[2])
      BY <3>3, <3>4, Zenon
    <3>6. QED
      BY <3>5
  <2> DEFINE x == a[i].name
             y == b[j].name
  <2>3. x \in Nat /\ y \in Nat
    BY <2>1 DEF Ordered
  <2>4. CASE x < y
    <3>1. PICK p, q, u : D[<<i + 1, j>>] = DiffOf(p, q, u) /\ Finds(p, q, u, a, b, i + 1, j)
      BY <2>2, Zenon DEF Found
    <3>2. Cell(D, a, b, at) = [D[<<i + 1, j>>] EXCEPT !.removed = @ \cup {x}]
      BY <1>4, <2>4, Zenon DEF Cell, i, j
    <3>3. Cell(D, a, b, at) = DiffOf(p, q \cup {x}, u)
      <4> DEFINE c == Cell(D, a, b, at)
                 d == D[<<i + 1, j>>]
                 z == x
      <4>1. d = DiffOf(p, q, u)
        BY <3>1
      <4>2. c = [d EXCEPT !.removed = @ \cup {z}]
        BY <3>2, Zenon
      <4> HIDE DEF c, d, z
      <4>3. c = DiffOf(p, q \cup {z}, u)
        BY ONLY <4>1, <4>2 DEF DiffOf
      <4>4. QED
        BY <4>3 DEF c, z
    <3>4. Finds(p, q \cup {x}, u, a, b, i, j)
      BY <2>1, <2>4, <3>1, OnlyLeft, Zenon
    <3>5. QED
      BY <3>3, <3>4, Zenon DEF Found, i, j
  <2>5. CASE y < x
    <3>1. PICK p, q, u : D[<<i, j + 1>>] = DiffOf(p, q, u) /\ Finds(p, q, u, a, b, i, j + 1)
      BY <2>2, Zenon DEF Found
    <3>2. ~(x < y) /\ x > y
      BY <2>3, <2>5
    <3>3. Cell(D, a, b, at) = [D[<<i, j + 1>>] EXCEPT !.added = @ \cup {y}]
      BY <1>4, <3>2, Zenon DEF Cell, i, j
    <3>4. Cell(D, a, b, at) = DiffOf(p \cup {y}, q, u)
      <4> DEFINE c == Cell(D, a, b, at)
                 d == D[<<i, j + 1>>]
                 z == y
      <4>1. d = DiffOf(p, q, u)
        BY <3>1
      <4>2. c = [d EXCEPT !.added = @ \cup {z}]
        BY <3>3, Zenon
      <4> HIDE DEF c, d, z
      <4>3. c = DiffOf(p \cup {z}, q, u)
        BY ONLY <4>1, <4>2 DEF DiffOf
      <4>4. QED
        BY <4>3 DEF c, z
    <3>5. Finds(p \cup {y}, q, u, a, b, i, j)
      BY <2>1, <2>5, <3>1, OnlyRight, Zenon
    <3>6. QED
      BY <3>4, <3>5, Zenon DEF Found, i, j
  <2>6. CASE x = y
    <3>1. PICK p, q, u : D[<<i + 1, j + 1>>] = DiffOf(p, q, u) /\ Finds(p, q, u, a, b, i + 1, j + 1)
      BY <2>2, Zenon DEF Found
    <3>2. ~(x < y) /\ ~(x > y)
      BY <2>3, <2>6
    <3>3. Finds(p, q, IF a[i].version # b[j].version THEN u \cup {x} ELSE u, a, b, i, j)
      BY <2>1, <2>6, <3>1, OneOfEach, Zenon
    <3>4. CASE a[i].version # b[j].version
      <4>1. Cell(D, a, b, at) = [D[<<i + 1, j + 1>>] EXCEPT !.updated = @ \cup {x}]
        BY <1>4, <3>2, <3>4, Zenon DEF Cell, i, j
      <4>2. Cell(D, a, b, at) = DiffOf(p, q, u \cup {x})
        <5> DEFINE c == Cell(D, a, b, at)
                   d == D[<<i + 1, j + 1>>]
                   z == x
        <5>1. d = DiffOf(p, q, u)
          BY <3>1
        <5>2. c = [d EXCEPT !.updated = @ \cup {z}]
          BY <4>1, Zenon
        <5> HIDE DEF c, d, z
        <5>3. c = DiffOf(p, q, u \cup {z})
          BY ONLY <5>1, <5>2 DEF DiffOf
        <5>4. QED
          BY <5>3 DEF c, z
      <4>3. Finds(p, q, u \cup {x}, a, b, i, j)
        BY <3>3, <3>4, Zenon
      <4>4. QED
        BY <4>2, <4>3, Zenon DEF Found, i, j
    <3>5. CASE ~(a[i].version # b[j].version)
      <4>1. Cell(D, a, b, at) = DiffOf(p, q, u)
        BY <1>4, <3>1, <3>2, <3>5, Zenon DEF Cell, i, j
      <4>2. Finds(p, q, u, a, b, i, j)
        BY <3>3, <3>5, Zenon
      <4>3. QED
        BY <4>1, <4>2, Zenon DEF Found, i, j
    <3>6. QED
      BY <3>4, <3>5
  <2>7. x < y \/ y < x \/ x = y
    BY <2>3
  <2>8. QED
    BY <2>4, <2>5, <2>6, <2>7
<1>5. QED
  BY <1>2, <1>3, <1>4

LEMMA MergeFinds ==
  ASSUME NEW a, Ordered(a), NEW b, Ordered(b)
  PROVE  Found(ComputeModDiff(a, b), a, b, 1, 1)
<1> DEFINE C == Cells(a, b)
           D == Merge(a, b)
           L(at) == Left(a, b, at)
           Wrong == {k \in Nat : \E at \in C : L(at) = k /\ ~Found(D[at], a, b, at[1], at[2])}
<1>1. Len(a) \in Nat /\ Len(b) \in Nat
  BY DEF Ordered
<1>2. \A at \in C : L(at) \in Nat
  BY <1>1, LeftType
<1>3. \A at \in C : D[at] = Cell(D, a, b, at)
  <2>1. IsMerge(D, a, b)
    BY <1>1, MergeIsThere
  <2> HIDE DEF D
  <2>2. QED
    BY <2>1 DEF IsMerge
<1>4. Wrong = {}
  <2>1. SUFFICES ASSUME Wrong # {} PROVE FALSE
    OBVIOUS
  <2>2. PICK m \in Wrong : \A k \in Wrong : m <= k
    <3>1. Wrong \in SUBSET Nat
      OBVIOUS
    <3> HIDE DEF Wrong
    <3>2. QED
      BY <2>1, <3>1, LeastOf
  <2>3. PICK at \in C : L(at) = m /\ ~Found(D[at], a, b, at[1], at[2])
    BY Zenon
  <2> HIDE DEF D
  <2>4. ASSUME NEW q \in C, L(q) < L(at) PROVE Found(D[q], a, b, q[1], q[2])
    <3>1. L(q) \in Nat /\ L(at) \in Nat
      BY <1>2
    <3>2. L(q) \notin Wrong
      <4>1. ~(m <= L(q))
        BY <2>3, <2>4, <3>1
      <4>2. QED
        BY <2>2, <4>1
    <3>3. QED
      BY <3>1, <3>2, Zenon
  <2>5. Found(Cell(D, a, b, at), a, b, at[1], at[2])
    BY <2>4, CellFinds
  <2>6. QED
    BY <1>3, <2>3, <2>5, Zenon
<1>5. <<1, 1>> \in C
  BY <1>1 DEF Cells
<1>6. Found(D[<<1, 1>>], a, b, 1, 1)
  <2>1. L(<<1, 1>>) \in Nat
    BY <1>2, <1>5
  <2>2. L(<<1, 1>>) \notin Wrong
    BY <1>4
  <2> HIDE DEF D
  <2>3. Found(D[<<1, 1>>], a, b, <<1, 1>>[1], <<1, 1>>[2])
    BY <1>5, <2>1, <2>2, Zenon
  <2>4. QED
    BY <2>3
<1>7. QED
  BY <1>6, DiffIsMerge, Zenon

\* What the diff says of a launch before and this one, when P is what is read of the file.
Compared(d, P, I, present) ==
  /\ d.priorFilePresent = present
  /\ \A n : /\ n \in d.added <=> Copies(I, n) > Copies(P, n)
            /\ n \in d.removed <=> Copies(P, n) > Copies(I, n)
            /\ n \in d.updated => n \in SomeChanged(P, I)
            /\ n \in AllChanged(P, I) => n \in d.updated

\* The merge of two lists of mods compares them as sets, however they are sorted.
LEMMA DiffOfLists ==
  ASSUME NEW P, Listable(P), NEW I, Listable(I), NEW a \in Sortings(P), NEW b \in Sortings(I), NEW present,
         NEW d, d = [ComputeModDiff(a, b) EXCEPT !.priorFilePresent = present]
  PROVE  Compared(d, P, I, present)
<1>1. Ordered(a) /\ IsList(a, P) /\ Ordered(b) /\ IsList(b, I)
  BY SortingIsList
<1>2. PICK p, q, u : ComputeModDiff(a, b) = DiffOf(p, q, u) /\ Finds(p, q, u, a, b, 1, 1)
  BY <1>1, MergeFinds, Zenon DEF Found
<1>3. d.added = p /\ d.removed = q /\ d.updated = u /\ d.priorFilePresent = present
  <2>1. d = [DiffOf(p, q, u) EXCEPT !.priorFilePresent = present]
    BY <1>2
  <2>2. QED
    BY <2>1 DEF DiffOf
<1>4. /\ \A k \in 1 .. Len(a) : a[k] \in P
      /\ \A m \in P : \E k \in 1 .. Len(a) : a[k] = m
      /\ \A k \in 1 .. Len(b) : b[k] \in I
      /\ \A m \in I : \E k \in 1 .. Len(b) : b[k] = m
  BY <1>1, Zenon DEF IsList
<1>5. ASSUME NEW n
      PROVE  /\ n \in p <=> Copies(I, n) > Copies(P, n)
             /\ n \in q <=> Copies(P, n) > Copies(I, n)
             /\ n \in u => n \in SomeChanged(P, I)
             /\ n \in AllChanged(P, I) => n \in u
  <2>1. /\ n \in p <=> HowMany(b, 1, n) > HowMany(a, 1, n)
        /\ n \in q <=> HowMany(a, 1, n) > HowMany(b, 1, n)
        /\ n \in u => Differ(a, b, 1, 1, n)
        /\ AllDiffer(a, b, 1, 1, n) => n \in u
    BY <1>2, Zenon DEF Finds
  <2>2. HowMany(a, 1, n) = Copies(P, n) /\ HowMany(b, 1, n) = Copies(I, n)
    BY <1>1, CountAll DEF Listable
  <2>3. Differ(a, b, 1, 1, n) => n \in SomeChanged(P, I)
    BY <1>4 DEF Differ, SomeChanged, NamesOf
  <2>4. n \in AllChanged(P, I) => AllDiffer(a, b, 1, 1, n)
    <3>1. SUFFICES ASSUME n \in AllChanged(P, I) PROVE AllDiffer(a, b, 1, 1, n)
      OBVIOUS
    <3>2. /\ \E m \in P : m.name = n
          /\ \E m \in I : m.name = n
          /\ \A m \in P, x \in I : m.name = n /\ x.name = n => m.version # x.version
      BY <3>1 DEF AllChanged, NamesOf
    <3>3. \E k \in 1 .. Len(a), l \in 1 .. Len(b) : a[k].name = n /\ b[l].name = n
      BY <1>4, <3>2
    <3>4. \A k \in 1 .. Len(a), l \in 1 .. Len(b) : a[k].name = n /\ b[l].name = n => a[k].version # b[l].version
      BY <1>4, <3>2
    <3>5. QED
      BY <3>3, <3>4, Zenon DEF AllDiffer
  <2>5. QED
    BY <2>1, <2>2, <2>3, <2>4
<1>6. QED
  BY <1>3, <1>5, Zenon DEF Compared

\* Each line is of a mod of the list, but for one whose version may be cut.
LinesOf(P, p) == P \subseteq p \/ \E c \in p : \E x : x.name = c.name /\ P \ {x} \subseteq p \ {c}

LEMMA LinesOfPart ==
  ASSUME NEW p, NEW P, LinesOf(P, p), NEW part \in SUBSET P
  PROVE  LinesOf(part, p)
  BY DEF LinesOf

LEMMA CopiesType ==
  ASSUME NEW mods, IsFiniteSet(mods), NEW n
  PROVE  /\ IsFiniteSet({m \in mods : m.name = n}) /\ Copies(mods, n) \in Nat
         /\ Copies(mods, n) > 0 <=> n \in NamesOf(mods)
<1>1. IsFiniteSet({m \in mods : m.name = n}) /\ Copies(mods, n) \in Nat
  BY FS_Subset, FS_CardinalityType DEF Copies
<1>2. Copies(mods, n) = 0 <=> {m \in mods : m.name = n} = {}
  BY <1>1, FS_EmptySet DEF Copies
<1>3. n \in NamesOf(mods) <=> {m \in mods : m.name = n} # {}
  BY DEF NamesOf
<1>4. QED
  BY <1>1, <1>2, <1>3

LEMMA FewerLines ==
  ASSUME NEW p, IsFiniteSet(p), NEW P, LinesOf(P, p), NEW n
  PROVE  Copies(P, n) <= Copies(p, n)
<1> DEFINE Pn == {m \in P : m.name = n}
           pn == {m \in p : m.name = n}
<1>1. IsFiniteSet(pn) /\ Cardinality(pn) \in Nat
  BY CopiesType DEF Copies
<1>2. CASE Pn \subseteq pn
  BY <1>1, <1>2, FS_Subset DEF Copies
<1>3. CASE ~(Pn \subseteq pn)
  <2>0. PICK c \in p : \E x : x.name = c.name /\ P \ {x} \subseteq p \ {c}
    BY <1>3 DEF LinesOf
  <2>1. PICK x : x.name = c.name /\ P \ {x} \subseteq p \ {c}
    BY <2>0
  <2>2. c \in pn /\ Pn \ {x} \subseteq pn \ {c}
    BY <1>3, <2>1
  <2>3. IsFiniteSet(pn \ {c}) /\ Cardinality(pn \ {c}) = Cardinality(pn) - 1
    BY <1>1, <2>2, FS_RemoveElement
  <2>4. IsFiniteSet(Pn \ {x}) /\ Cardinality(Pn \ {x}) <= Cardinality(pn \ {c})
    BY <2>2, <2>3, FS_Subset
  <2>5. IsFiniteSet((Pn \ {x}) \cup {x}) /\ Cardinality((Pn \ {x}) \cup {x}) = Cardinality(Pn \ {x}) + 1
    BY <2>4, FS_AddElement
  <2>6. Pn \in SUBSET ((Pn \ {x}) \cup {x})
    OBVIOUS
  <2>7. IsFiniteSet(Pn) /\ Cardinality(Pn) <= Cardinality((Pn \ {x}) \cup {x})
    BY <2>5, <2>6, FS_Subset
  <2>8. Cardinality(Pn) \in Nat /\ Cardinality(Pn \ {x}) \in Nat
    BY <2>4, <2>7, FS_CardinalityType
  <2> HIDE DEF Pn, pn
  <2>9. Cardinality(Pn) <= Cardinality(pn)
    BY <1>1, <2>3, <2>4, <2>5, <2>7, <2>8
  <2>10. QED
    BY <2>9 DEF Copies, Pn, pn
<1>4. QED
  BY <1>2, <1>3

\* What a file that was cut says of the mods.
LEMMA CutFile ==
  ASSUME NEW p, Listable(p), NEW I, Listable(I), NEW P, IsFiniteSet(P), LinesOf(P, p),
         NEW d, NEW present, Compared(d, P, I, present)
  PROVE  d.removed \subseteq Added(I, p) /\ Cardinality(d.updated \ SomeChanged(p, I)) <= 1
<1>1. d.removed \subseteq Added(I, p)
  <2>1. ASSUME NEW n \in d.removed PROVE n \in Added(I, p)
    <3>1. Copies(P, n) > Copies(I, n)
      BY <2>1 DEF Compared
    <3>2. Copies(P, n) <= Copies(p, n)
      BY FewerLines DEF Listable
    <3>3. Copies(P, n) \in Nat /\ Copies(p, n) \in Nat /\ Copies(I, n) \in Nat
      BY CopiesType DEF Listable
    <3>4. Copies(p, n) > Copies(I, n) /\ Copies(p, n) > 0
      BY <3>1, <3>2, <3>3
    <3>5. n \in NamesOf(p)
      BY <3>4, CopiesType DEF Listable
    <3>6. QED
      BY <3>4, <3>5 DEF Added
  <2>2. QED
    BY <2>1
<1>2. \E x : d.updated \ SomeChanged(p, I) \subseteq {x}
  <2>1. PICK x : \A m \in P : m \in p \/ m = x
    BY DEF LinesOf
  <2>2. ASSUME NEW n \in d.updated \ SomeChanged(p, I) PROVE n = x.name
    <3>1. n \in SomeChanged(P, I)
      BY <2>2 DEF Compared
    <3>2. PICK m \in P, y \in I : m.name = n /\ y.name = n /\ m.version # y.version
      BY <3>1 DEF SomeChanged
    <3>3. m \notin p
      BY <2>2, <3>2 DEF SomeChanged, NamesOf
    <3>4. QED
      BY <2>1, <3>2, <3>3
  <2>3. d.updated \ SomeChanged(p, I) \subseteq {x.name}
    BY <2>2
  <2>4. QED
    BY <2>3
<1>3. PICK x : d.updated \ SomeChanged(p, I) \subseteq {x}
  BY <1>2
<1>4. IsFiniteSet({x}) /\ Cardinality({x}) = 1
  BY FS_Singleton
<1>5. IsFiniteSet(d.updated \ SomeChanged(p, I)) /\ Cardinality(d.updated \ SomeChanged(p, I)) <= Cardinality({x})
  BY <1>3, <1>4, FS_Subset
<1>6. QED
  BY <1>1, <1>4, <1>5

\* What a whole file says of them.
LEMMA WholeFile ==
  ASSUME NEW p, Listable(p), NEW I, Listable(I),
         NEW d, Compared(d, {m \in p : m.name \notin Hashed}, I, TRUE)
  PROVE  /\ d.priorFilePresent
         /\ d.added = Added(p, I) \cup (NamesOf(I) \cap Hashed)
         /\ d.removed = Added(I, p) \ Hashed
         /\ d.updated \subseteq SomeChanged(p, I) \ Hashed
         /\ AllChanged(p, I) \ Hashed \subseteq d.updated
<1> DEFINE P == {m \in p : m.name \notin Hashed}
<1>1. /\ d.priorFilePresent = TRUE
      /\ \A n : /\ n \in d.added <=> Copies(I, n) > Copies(P, n)
                /\ n \in d.removed <=> Copies(P, n) > Copies(I, n)
                /\ n \in d.updated => n \in SomeChanged(P, I)
                /\ n \in AllChanged(P, I) => n \in d.updated
  BY Zenon DEF Compared
<1>2. ASSUME NEW n
      PROVE  /\ n \in d.added <=> n \in Added(p, I) \cup (NamesOf(I) \cap Hashed)
             /\ n \in d.removed <=> n \in Added(I, p) \ Hashed
  <2>1. /\ Copies(p, n) \in Nat /\ Copies(I, n) \in Nat
        /\ Copies(p, n) > 0 <=> n \in NamesOf(p)
        /\ Copies(I, n) > 0 <=> n \in NamesOf(I)
    BY CopiesType DEF Listable
  <2>2. CASE n \in Hashed
    <3>1. {m \in P : m.name = n} = {}
      BY <2>2
    <3>2. Copies(P, n) = 0
      BY <3>1, FS_EmptySet DEF Copies
    <3>3. n \in d.added <=> n \in NamesOf(I)
      BY <1>1, <2>1, <3>2
    <3>4. n \notin d.removed
      BY <1>1, <2>1, <3>2
    <3>5. QED
      BY <2>2, <3>3, <3>4 DEF Added
  <2>3. CASE n \notin Hashed
    <3>1. {m \in P : m.name = n} = {m \in p : m.name = n}
      BY <2>3
    <3>2. Copies(P, n) = Copies(p, n)
      BY <3>1 DEF Copies
    <3>3. n \in d.added <=> n \in Added(p, I)
      BY <1>1, <2>1, <3>2 DEF Added
    <3>4. n \in d.removed <=> n \in Added(I, p)
      BY <1>1, <2>1, <3>2 DEF Added
    <3>5. QED
      BY <2>3, <3>3, <3>4
  <2>4. QED
    BY <2>2, <2>3
<1>3. SomeChanged(P, I) = SomeChanged(p, I) \ Hashed
  BY DEF SomeChanged, NamesOf
<1>4. AllChanged(P, I) = AllChanged(p, I) \ Hashed
  BY DEF AllChanged, NamesOf
<1> HIDE DEF P
<1>5. d.added = Added(p, I) \cup (NamesOf(I) \cap Hashed) /\ d.removed = Added(I, p) \ Hashed
  BY <1>2
<1>6. QED
  BY <1>1, <1>3, <1>4, <1>5

\* The file holds lines of the list that the last launch wrote, or all of them.
FileFollowsLaunch ==
  /\ \A p \in previous :
       /\ \A lines \in file : Listable(lines) /\ LinesOf(lines, p)
       /\ whole => file = {p}
  /\ pc = "truncated" => previous = {installed} /\ file = {} /\ ~whole

SessionTypes ==
  /\ installed \in ModLists /\ previous \subseteq ModLists /\ baseline \subseteq ModLists
  /\ whole \in BOOLEAN /\ wholeThen \in BOOLEAN

SessionInv == SessionTypes /\ FileFollowsLaunch /\ DiffExact

LEMMA ModListsAreListable ==
  ASSUME NEW mods \in ModLists
  PROVE  Listable(mods) /\ mods \in SUBSET Mod
<1>1. \A m \in Mod : m.name \in Nat
  BY SlotsAssumption DEF Mod
<1>2. QED
  BY <1>1 DEF ModLists, Listable

LEMMA SessionInitInv == Init => SessionInv
  BY DEF Init, SessionInv, SessionTypes, FileFollowsLaunch, DiffExact, DiffReady

\* A list that was not written to its end, and perhaps cut within a version.
LEMMA FirstLines ==
  ASSUME NEW mods \in ModLists, NEW s \in Sortings(mods), NEW n \in 0 .. Cardinality(mods) - 1,
         NEW some, some = {s[k] : k \in 1 .. n},
         NEW last, last = [s[n + 1] EXCEPT !.version = PartVersion]
  PROVE  /\ Listable(some) /\ LinesOf(some, mods)
         /\ Listable(some \cup {last}) /\ LinesOf(some \cup {last}, mods)
<1>1. Listable(mods) /\ mods \in SUBSET Mod
  BY ModListsAreListable
<1>2. IsList(s, mods) /\ Len(s) = Cardinality(mods)
  BY <1>1, SortingIsList
<1>3. /\ Len(s) \in Nat /\ \A k \in 1 .. Len(s) : s[k] \in mods
      /\ \A i, j \in 1 .. Len(s) : s[i] = s[j] => i = j
  BY <1>2, Zenon DEF IsList
<1>4. n + 1 \in 1 .. Len(s) /\ \A k \in 1 .. n : k \in 1 .. Len(s) /\ k # n + 1
  BY <1>2, <1>3
<1>5. s[n + 1] \in mods /\ \A k \in 1 .. n : s[k] \in mods /\ s[k] # s[n + 1]
  BY <1>3, <1>4
<1>6. some \in SUBSET (mods \ {s[n + 1]})
  BY <1>5
<1>7. last.name = s[n + 1].name
  <2>1. s[n + 1] \in Mod
    BY <1>1, <1>5
  <2>2. QED
    BY <2>1 DEF Mod
<1>8. LinesOf(some, mods) /\ LinesOf(some \cup {last}, mods)
  <2>1. some \subseteq mods /\ (some \cup {last}) \ {last} \subseteq mods \ {s[n + 1]}
    BY <1>6
  <2>2. LinesOf(some, mods)
    BY <2>1, Zenon DEF LinesOf
  <2>3. \E x : x.name = s[n + 1].name /\ (some \cup {last}) \ {x} \subseteq mods \ {s[n + 1]}
    BY <1>7, <2>1, Zenon
  <2>4. LinesOf(some \cup {last}, mods)
    BY <1>5, <2>3 DEF LinesOf
  <2>5. QED
    BY <2>2, <2>4
<1>9. IsFiniteSet(some) /\ IsFiniteSet(some \cup {last})
  <2>1. some \in SUBSET mods
    BY <1>6
  <2>2. IsFiniteSet(some)
    BY <1>1, <2>1, FS_Subset DEF Listable
  <2>3. QED
    BY <2>2, FS_AddElement
<1>10. QED
  BY <1>1, <1>5, <1>6, <1>7, <1>8, <1>9 DEF Listable

\* The diff of a launch: P is what it reads.
LEMMA ReadIsCompared ==
  ASSUME SessionTypes, FileFollowsLaunch, ReadAndDiff, NEW p \in previous
  PROVE  \E P : /\ Compared(diff', P, installed, file # {}) /\ LinesOf(P, p) /\ IsFiniteSet(P)
                /\ whole => file # {} /\ P = {m \in p : m.name \notin Hashed}
<1>1. Listable(installed) /\ Listable(p)
  BY ModListsAreListable DEF SessionTypes
<1>2. PICK lines \in IF file = {} THEN {{}} ELSE file :
        \E a \in Sortings(ReadMods(lines)), b \in Sortings(installed) :
          diff' = [ComputeModDiff(a, b) EXCEPT !.priorFilePresent = file # {}]
  BY Zenon DEF ReadAndDiff
<1> DEFINE P == ReadMods(lines)
<1>3. P = {m \in lines : m.name \notin Hashed}
  BY DEF ReadMods
<1>4. Listable(lines) /\ LinesOf(lines, p) /\ (whole => file # {} /\ lines = p)
  <2>1. CASE file = {}
    <3>1. lines = {} /\ ~whole
      BY <1>2, <2>1 DEF FileFollowsLaunch
    <3>2. Listable({})
      BY FS_EmptySet DEF Listable
    <3>3. QED
      BY <3>1, <3>2 DEF LinesOf
  <2>2. CASE file # {}
    <3>1. lines \in file
      BY <1>2, <2>2
    <3>2. QED
      BY <2>2, <3>1 DEF FileFollowsLaunch
  <2>3. QED
    BY <2>1, <2>2
<1>5. P \in SUBSET lines
  BY <1>3
<1> HIDE DEF P
<1>6. Listable(P) /\ LinesOf(P, p)
  <2>1. LinesOf(P, p)
    BY <1>4, <1>5, LinesOfPart
  <2>2. Listable(P)
    BY <1>4, <1>5, FS_Subset DEF Listable
  <2>3. QED
    BY <2>1, <2>2
<1>7. PICK a \in Sortings(P), b \in Sortings(installed) :
        diff' = [ComputeModDiff(a, b) EXCEPT !.priorFilePresent = file # {}]
  BY <1>2, Zenon DEF P
<1>8. Compared(diff', P, installed, file # {})
  BY <1>1, <1>6, <1>7, DiffOfLists
<1>9. whole => file # {} /\ P = {m \in p : m.name \notin Hashed}
  BY <1>3, <1>4
<1>10. QED
  BY <1>6, <1>8, <1>9, Zenon DEF Listable

LEMMA SessionTypesStep ==
  ASSUME SessionInv, [Next]_historyVars
  PROVE  SessionTypes'
<1>1. /\ installed \in ModLists /\ previous \subseteq ModLists /\ baseline \subseteq ModLists
      /\ whole \in BOOLEAN /\ wholeThen \in BOOLEAN
  BY Zenon DEF SessionInv, SessionTypes
<1>2. CASE ChangeMods
  BY <1>1, <1>2, Zenon DEF ChangeMods, SessionTypes, history
<1>3. CASE Launch
  BY <1>1, <1>3, Zenon DEF Launch, SessionTypes, history
<1>4. CASE ReadAndDiff
  BY <1>1, <1>4, Zenon DEF ReadAndDiff, SessionTypes
<1>5. CASE Truncate
  <2>1. previous' = {installed} /\ whole' = FALSE /\ UNCHANGED <<installed, wholeThen, baseline>>
    BY <1>5, Zenon DEF Truncate
  <2>2. previous' \subseteq ModLists
    BY <1>1, <2>1
  <2>3. QED
    BY <1>1, <2>1, <2>2, Zenon DEF SessionTypes
<1>6. CASE OpenFails
  BY <1>1, <1>6, Zenon DEF OpenFails, SessionTypes, history
<1>7. CASE WriteLines
  BY <1>1, <1>7, Zenon DEF WriteLines, SessionTypes
<1>8. CASE WriteSomeLines
  BY <1>1, <1>8, Zenon DEF WriteSomeLines, SessionTypes, history
<1>9. CASE End
  <2>1. baseline' = {} /\ wholeThen' = TRUE /\ UNCHANGED <<installed, previous, whole>>
    BY <1>9, Zenon DEF End
  <2>2. baseline' \subseteq ModLists
    BY <2>1
  <2>3. QED
    BY <1>1, <2>1, <2>2, Zenon DEF SessionTypes
<1>10. CASE UNCHANGED historyVars
  BY <1>1, <1>10, Zenon DEF historyVars, history, SessionTypes
<1>11. QED
  BY <1>2, <1>3, <1>4, <1>5, <1>6, <1>7, <1>8, <1>9, <1>10, Zenon DEF Next

LEMMA FileStep ==
  ASSUME SessionInv, [Next]_historyVars
  PROVE  FileFollowsLaunch'
<1>1. FileFollowsLaunch /\ SessionTypes
  BY DEF SessionInv
\* Steps that leave the file, and do not go to write it.
<1>2. ASSUME UNCHANGED <<file, previous, whole>>, pc' # "truncated" PROVE FileFollowsLaunch'
  BY <1>1, <1>2, Zenon DEF FileFollowsLaunch
<1>3. CASE ChangeMods
  BY <1>2, <1>3 DEF ChangeMods, history
<1>4. CASE Launch
  BY <1>2, <1>4 DEF Launch, history
<1>5. CASE ReadAndDiff
  BY <1>2, <1>5 DEF ReadAndDiff
<1>6. CASE Truncate
  <2>1. previous' = {installed} /\ file' = {} /\ ~whole' /\ installed' = installed
    BY <1>6, Zenon DEF Truncate
  <2>2. QED
    BY <2>1 DEF FileFollowsLaunch
<1>7. CASE OpenFails
  BY <1>2, <1>7 DEF OpenFails, history
<1>8. CASE WriteLines
  <2>1. pc' = "done" /\ file' = {installed} /\ previous' = previous /\ pc = "truncated"
    BY <1>8, Zenon DEF WriteLines
  <2>2. previous = {installed}
    BY <1>1, <2>1, Zenon DEF FileFollowsLaunch
  <2>3. Listable(installed) /\ LinesOf(installed, installed)
    BY <1>1, ModListsAreListable DEF SessionTypes, LinesOf
  <2>4. QED
    BY <2>1, <2>2, <2>3 DEF FileFollowsLaunch
<1>9. CASE WriteSomeLines
  <2>1. pc' = "done" /\ previous' = previous /\ whole' = whole /\ pc = "truncated"
    BY <1>9, Zenon DEF WriteSomeLines, history
  <2>2. previous = {installed} /\ ~whole /\ installed \in ModLists
    BY <1>1, <2>1, Zenon DEF FileFollowsLaunch, SessionTypes
  <2>3. PICK s \in Sortings(installed), n \in 0 .. Cardinality(installed) - 1 :
          LET some == {s[k] : k \in 1 .. n}
              last == [s[n + 1] EXCEPT !.version = PartVersion]
          IN  file' \in {{some}, {some \cup {last}}}
    BY <1>9, Zenon DEF WriteSomeLines
  <2> DEFINE some == {s[k] : k \in 1 .. n}
             last == [s[n + 1] EXCEPT !.version = PartVersion]
  <2>4. file' \in {{some}, {some \cup {last}}}
    BY <2>3
  <2>5. /\ Listable(some) /\ LinesOf(some, installed)
        /\ Listable(some \cup {last}) /\ LinesOf(some \cup {last}, installed)
    BY <2>2, FirstLines
  <2> HIDE DEF some, last
  <2>6. \A lines \in file' : Listable(lines) /\ LinesOf(lines, installed)
    BY <2>4, <2>5
  <2>7. QED
    BY <2>1, <2>2, <2>6 DEF FileFollowsLaunch
<1>10. CASE End
  BY <1>2, <1>10 DEF End
<1>11. CASE UNCHANGED historyVars
  BY <1>1, <1>11, Zenon DEF historyVars, history, FileFollowsLaunch
<1>12. QED
  BY <1>3, <1>4, <1>5, <1>6, <1>7, <1>8, <1>9, <1>10, <1>11, Zenon DEF Next

LEMMA DiffStep ==
  ASSUME SessionInv, [Next]_historyVars
  PROVE  DiffExact'
<1>1. DiffExact /\ FileFollowsLaunch /\ SessionTypes
  BY DEF SessionInv
\* Steps of a session that has its diff, and those before it has one.
<1>2. ASSUME DiffReady' => DiffReady, UNCHANGED <<installed, diff, wholeThen, baseline>> PROVE DiffExact'
  BY <1>1, <1>2, Zenon DEF DiffExact
<1>3. ASSUME ~DiffReady' PROVE DiffExact'
  BY <1>3, Zenon DEF DiffExact
<1>4. CASE ChangeMods
  BY <1>3, <1>4 DEF ChangeMods, DiffReady
<1>5. CASE Launch
  BY <1>3, <1>5 DEF Launch, DiffReady
<1>6. CASE ReadAndDiff
  <2>1. wholeThen' = whole /\ baseline' = previous /\ installed' = installed
    BY <1>6, Zenon DEF ReadAndDiff
  <2>2. ASSUME NEW p \in previous
        PROVE  /\ diff'.removed \subseteq Added(installed, p)
               /\ Cardinality(diff'.updated \ SomeChanged(p, installed)) <= 1
               /\ whole =>
                    /\ diff'.priorFilePresent
                    /\ diff'.added = Added(p, installed) \cup (NamesOf(installed) \cap Hashed)
                    /\ diff'.removed = Added(installed, p) \ Hashed
                    /\ diff'.updated \subseteq SomeChanged(p, installed) \ Hashed
                    /\ AllChanged(p, installed) \ Hashed \subseteq diff'.updated
    <3>1. PICK P : /\ Compared(diff', P, installed, file # {}) /\ LinesOf(P, p) /\ IsFiniteSet(P)
                   /\ whole => file # {} /\ P = {m \in p : m.name \notin Hashed}
      BY <1>1, <1>6, ReadIsCompared
    <3>2. Listable(p) /\ Listable(installed)
      BY <1>1, ModListsAreListable DEF SessionTypes
    <3>3. diff'.removed \subseteq Added(installed, p) /\ Cardinality(diff'.updated \ SomeChanged(p, installed)) <= 1
      BY <3>1, <3>2, CutFile
    <3>4. ASSUME whole
          PROVE  /\ diff'.priorFilePresent
                 /\ diff'.added = Added(p, installed) \cup (NamesOf(installed) \cap Hashed)
                 /\ diff'.removed = Added(installed, p) \ Hashed
                 /\ diff'.updated \subseteq SomeChanged(p, installed) \ Hashed
                 /\ AllChanged(p, installed) \ Hashed \subseteq diff'.updated
      <4>1. file # {} /\ P = {m \in p : m.name \notin Hashed}
        BY <3>1, <3>4
      <4>2. (file # {}) = TRUE
        BY <4>1
      <4>3. Compared(diff', {m \in p : m.name \notin Hashed}, installed, TRUE)
        BY <3>1, <4>1, <4>2, Zenon
      <4>4. QED
        BY <3>2, <4>3, WholeFile
    <3>5. QED
      BY <3>3, <3>4, Zenon
  <2>3. QED
    BY <2>1, <2>2, Zenon DEF DiffExact
<1>7. CASE Truncate
  BY <1>2, <1>7 DEF Truncate, DiffReady
<1>8. CASE OpenFails
  BY <1>2, <1>8 DEF OpenFails, DiffReady, history
<1>9. CASE WriteLines
  BY <1>2, <1>9 DEF WriteLines, DiffReady
<1>10. CASE WriteSomeLines
  BY <1>2, <1>10 DEF WriteSomeLines, DiffReady, history
<1>11. CASE End
  BY <1>3, <1>11 DEF End, DiffReady
<1>12. CASE UNCHANGED historyVars
  BY <1>2, <1>12 DEF historyVars, history, DiffReady
<1>13. QED
  BY <1>4, <1>5, <1>6, <1>7, <1>8, <1>9, <1>10, <1>11, <1>12, Zenon DEF Next

----------------------------------------------------------------------------
\* What a launch tells of the mods that were added, removed and updated is exact, for any mods,
\* several of one name among them, however std::sort orders those, and whatever the user changes
\* between launches: when the launch before wrote its whole list, but for the names that the file
\* takes for comments.  When that launch was killed or the disk was full, the diff calls none
\* removed that is there and at most one name updated that was not; any may be called added.
THEOREM DiffsAreExact == Spec => []DiffExact
<1>1. SessionInv /\ [Next]_historyVars => SessionInv'
  BY SessionTypesStep, FileStep, DiffStep DEF SessionInv
<1>2. SessionInv => DiffExact
  BY DEF SessionInv
<1>3. QED
  BY SessionInitInv, <1>1, <1>2, PTL DEF Spec

-----------------------------------------------------------------------------
(* The directory of crashes *)

State == [text : {"absent", "nothing", "signals", "empty"}, of : Nat]
Report == [headed : BOOLEAN, pid : Pids, time : Nat, launch : Nat, fatal : BOOLEAN,
           json : {"none", "whole", "cut"}, state : State]
DumpDir == [pid : Pids, time : Nat, launch : Nat, parts : SUBSET {"attch", "meta"}]

\* The times and the numbers are numbers.
FolderTypes ==
  /\ now \in Nat /\ launch \in Nat /\ cursor \in Nat \ {0} /\ pid \in Pids
  /\ phase \in {"off", "enrich", "runs", "dies"}
  /\ reports \in Seq(Report)
  /\ dumps \subseteq DumpDir /\ found \subseteq DumpDir

\* What is of an earlier launch is older than the game takes to start; and so a report and a dump
\* of two launches are farther apart than a dump may lag.
Apart ==
  /\ \A i \in DOMAIN reports :
       /\ reports[i].launch <= launch /\ reports[i].time <= now
       /\ reports[i].launch < launch => reports[i].time + DumpLag < now
  /\ \A d \in dumps :
       /\ d.launch <= launch /\ d.time <= now
       /\ d.launch < launch => d.time + DumpLag < now
  /\ \A i \in DOMAIN reports, d \in dumps :
       /\ reports[i].launch < d.launch => reports[i].time + DumpLag < d.time
       /\ d.launch < reports[i].launch => d.time + DumpLag < reports[i].time

\* A launch has at most one dump, with which it ends, and one report that the game dies of.
ThisLaunch ==
  /\ phase # "off" => \A d \in dumps : d.launch < launch
  /\ phase = "enrich" => \A i \in DOMAIN reports : reports[i].launch < launch
  /\ phase = "runs" => \A i \in DOMAIN reports : reports[i].fatal => reports[i].launch < launch
  /\ phase = "dies" =>
       /\ reports # <<>> /\ now <= reports[Len(reports)].time + DumpLag
       /\ \A i \in DOMAIN reports :
            reports[i].fatal /\ reports[i].launch = launch => i = Len(reports) /\ reports[i].pid = pid
  /\ \A i \in DOMAIN reports : reports[i].launch = launch => reports[i].state.text = "absent"

\* The dump of a crash is of the process, and follows within the time it may lag.
OwnDumps ==
  \A i \in DOMAIN reports, d \in dumps :
    reports[i].fatal /\ d.launch = reports[i].launch =>
      d.pid = reports[i].pid /\ reports[i].time <= d.time /\ d.time <= reports[i].time + DumpLag

IsDumpOf(d, r) == d.pid = r.pid /\ Distance(d.time, r.time) <= Tolerance

\* The walk of the enricher: behind it no report is left whose dump had been there, and the dumps
\* that had been there still are.
Walk ==
  /\ \A d \in found : \E e \in dumps : e.pid = d.pid /\ e.time = d.time
  /\ phase = "enrich" =>
       \A i \in DOMAIN reports, d \in found :
         i < cursor /\ reports[i].headed /\ reports[i].launch < launch /\ IsDumpOf(d, reports[i])
         => reports[i].state.text # "absent"

\* No report is older than one before it.
TimesGrow == \A i, j \in DOMAIN reports : i < j => reports[i].time < reports[j].time

FolderInv == FolderTypes /\ Apart /\ ThisLaunch /\ OwnDumps /\ Walk /\ FatalReportHasOwnState /\ BootEnrichesAll
             /\ TimesGrow

LEMMA FolderInitInv == FolderInit => FolderInv
  BY CrashFolderAssumption DEF FolderInit, FolderInv, FolderTypes, Apart, ThisLaunch, OwnDumps, Walk,
     FatalReportHasOwnState, BootEnrichesAll, TimesGrow, Report, DumpDir, State

LEMMA DistanceType ==
  ASSUME NEW s \in Nat, NEW t \in Nat
  PROVE  /\ Distance(s, t) \in Nat
         /\ \A k \in Nat : Distance(s, t) <= k <=> s <= t + k /\ t <= s + k
  BY DEF Distance

\* Of the dumps that are near enough one is the nearest.
LEMMA NearestIsThere ==
  ASSUME dumps \subseteq DumpDir, NEW info, info.time \in Nat,
         NEW d \in dumps, d.pid = info.pid, Distance(d.time, info.time) <= Tolerance
  PROVE  FindReportQueueDir(info) # {}
<1> DEFINE Near == {e \in dumps : e.pid = info.pid /\ Distance(e.time, info.time) <= Tolerance}
           Far == {Distance(e.time, info.time) : e \in Near}
<1>1. ASSUME NEW e \in Near PROVE Distance(e.time, info.time) \in Nat
  <2>1. e.time \in Nat
    BY DEF DumpDir
  <2>2. QED
    BY <2>1, DistanceType
<1>2. Far \in SUBSET Nat /\ Far # {}
  BY <1>1
<1>3. PICK m \in Far : \A k \in Far : m <= k
  <2> HIDE DEF Far
  <2> QED
    BY <1>2, LeastOf
<1>4. PICK e \in Near : m = Distance(e.time, info.time)
  OBVIOUS
<1>5. \A x \in Near : Distance(e.time, info.time) <= Distance(x.time, info.time)
  BY <1>3, <1>4
<1>6. e \in FindReportQueueDir(info)
  BY <1>4, <1>5, Zenon DEF FindReportQueueDir
<1>7. QED
  BY <1>6

\* Putting a state beside a report changes nothing else.
LEMMA PutEffect ==
  ASSUME FolderTypes, Enriching, NEW state \in State, Put(state)
  PROVE  /\ reports' \in Seq(Report) /\ Len(reports') = Len(reports) /\ DOMAIN reports' = DOMAIN reports
         /\ \A i \in DOMAIN reports :
              /\ reports'[i].headed = reports[i].headed /\ reports'[i].pid = reports[i].pid
              /\ reports'[i].time = reports[i].time /\ reports'[i].launch = reports[i].launch
              /\ reports'[i].fatal = reports[i].fatal
              /\ reports'[i].state = IF i = cursor THEN state ELSE reports[i].state
<1>1. cursor \in DOMAIN reports /\ reports \in Seq(Report)
  BY DEF FolderTypes, Enriching
<1>2. reports[cursor] \in Report
  BY <1>1
<1> DEFINE r == [reports[cursor] EXCEPT !.state = state]
<1>3. /\ r \in Report /\ r.headed = reports[cursor].headed /\ r.pid = reports[cursor].pid
      /\ r.time = reports[cursor].time /\ r.launch = reports[cursor].launch
      /\ r.fatal = reports[cursor].fatal /\ r.state = state
  BY <1>2 DEF Report
<1>4. reports' = [reports EXCEPT ![cursor] = r]
  BY DEF Put
<1> HIDE DEF r
<1>5. /\ reports' \in Seq(Report) /\ Len(reports') = Len(reports) /\ DOMAIN reports' = DOMAIN reports
      /\ \A i \in DOMAIN reports : reports'[i] = IF i = cursor THEN r ELSE reports[i]
  BY ONLY <1>1, <1>3, <1>4
<1>6. QED
  BY ONLY <1>1, <1>3, <1>5

\* The fields of what is in the directory.
LEMMA Fields ==
  ASSUME FolderTypes
  PROVE  /\ \A i \in DOMAIN reports :
              /\ reports[i].pid \in Pids /\ reports[i].time \in Nat /\ reports[i].launch \in Nat
              /\ reports[i].state \in State
         /\ \A d \in dumps : d \in DumpDir /\ d.pid \in Pids /\ d.time \in Nat /\ d.launch \in Nat
         /\ DOMAIN reports = 1 .. Len(reports) /\ Len(reports) \in Nat
<1>1. \A i \in DOMAIN reports : reports[i] \in Report
  BY DEF FolderTypes
<1>2. QED
  BY <1>1 DEF FolderTypes, Report, DumpDir

\* What the enricher does to the directory in one step, whichever it is.
Enriched ==
  /\ reports' \in Seq(Report) /\ Len(reports') = Len(reports) /\ DOMAIN reports' = DOMAIN reports
  /\ \A i \in DOMAIN reports :
       /\ reports'[i].headed = reports[i].headed /\ reports'[i].pid = reports[i].pid
       /\ reports'[i].time = reports[i].time /\ reports'[i].launch = reports[i].launch
       /\ reports'[i].fatal = reports[i].fatal
       /\ \/ reports'[i].state = reports[i].state
          \/ /\ i = cursor /\ reports'[i].state.text # "absent"
             /\ \E d \in Source(reports[i]) : reports'[i].state.of = d.launch

LEMMA RenderedState ==
  ASSUME NEW d \in DumpDir
  PROVE  /\ RenderSidecar(d) \in State /\ RenderSidecar(d).text # "absent" /\ RenderSidecar(d).of = d.launch
         /\ [text |-> "empty", of |-> d.launch] \in State
  BY DEF RenderSidecar, State, DumpDir

LEMMA PutIsEnriched ==
  ASSUME FolderTypes, Enriching, NEW d \in Source(reports[cursor]), NEW state \in State, Put(state),
         state.of = d.launch, state.text # "absent"
  PROVE  Enriched
  BY PutEffect DEF Enriched

LEMMA SourcesAreDumps ==
  ASSUME NEW r, NEW d \in Source(r)
  PROVE  d \in dumps /\ Wanted(r) /\ d \in FindReportQueueDir(ParseCrashHeader(r))
  BY DEF Source, FindReportQueueDir

LEMMA SameIsEnriched ==
  ASSUME FolderTypes, UNCHANGED reports
  PROVE  Enriched
  BY DEF Enriched, FolderTypes

LEMMA EnricherEnriches ==
  ASSUME FolderTypes, Enricher
  PROVE  Enriched
<1>1. ASSUME Enriching, NEW d \in Source(reports[cursor]), Put(RenderSidecar(d)) PROVE Enriched
  <2>1. d \in DumpDir
    BY <1>1, SourcesAreDumps DEF FolderTypes
  <2>2. QED
    BY <1>1, <2>1, RenderedState, PutIsEnriched
<1>2. ASSUME Enriching, NEW d \in Source(reports[cursor]), Put([text |-> "empty", of |-> d.launch])
      PROVE  Enriched
  <2>1. d \in DumpDir
    BY <1>2, SourcesAreDumps DEF FolderTypes
  <2>2. [text |-> "empty", of |-> d.launch] \in State
    BY <2>1, RenderedState
  <2>3. QED
    BY <1>2, <2>2, PutIsEnriched
<1>3. CASE EnrichOne
  BY <1>1, <1>3, SameIsEnriched, Zenon DEF EnrichOne
<1>4. CASE EnrichFails
  BY <1>2, <1>4, SameIsEnriched, Zenon DEF EnrichFails
<1>5. CASE EnrichCut
  BY <1>2, <1>5, Zenon DEF EnrichCut
<1>6. CASE EnrichEnds
  BY <1>6, SameIsEnriched DEF EnrichEnds
<1>7. QED
  BY <1>3, <1>4, <1>5, <1>6 DEF Enricher

\* A report that is written keeps those before it.
LEMMA ReportAdded ==
  ASSUME NEW r \in Report, FolderTypes, reports' = Append(reports, r)
  PROVE  /\ reports' \in Seq(Report) /\ Len(reports') = Len(reports) + 1 /\ reports' # <<>>
         /\ DOMAIN reports' = 1 .. Len(reports) + 1 /\ reports'[Len(reports) + 1] = r
         /\ \A i \in DOMAIN reports : reports'[i] = reports[i]
  BY DEF FolderTypes

\* A dump that fills up stays what it is.
LEMMA FilledDump ==
  ASSUME FolderTypes, FillDump
  PROVE  /\ dumps' \subseteq DumpDir
         /\ \A e \in dumps' : \E d \in dumps : d.pid = e.pid /\ d.time = e.time /\ d.launch = e.launch
         /\ \A d \in dumps : \E e \in dumps' : d.pid = e.pid /\ d.time = e.time /\ d.launch = e.launch
<1>1. PICK d \in dumps, parts \in {{"attch"}, {"attch", "meta"}} :
        dumps' = (dumps \ {d}) \cup {[d EXCEPT !.parts = parts]}
  BY DEF FillDump
<1> DEFINE e == [d EXCEPT !.parts = parts]
<1>2. e \in DumpDir /\ e.pid = d.pid /\ e.time = d.time /\ e.launch = d.launch
  BY DEF FolderTypes, DumpDir
<1> HIDE DEF e
<1>3. dumps' = (dumps \ {d}) \cup {e}
  BY <1>1 DEF e
<1>4. dumps \subseteq DumpDir
  BY DEF FolderTypes
<1>5. QED
  BY ONLY <1>2, <1>3, <1>4, d \in dumps

LEMMA FolderTypesStep ==
  ASSUME FolderTypes, [FolderNext]_folderVars
  PROVE  FolderTypes'
<1> USE CrashFolderAssumption DEF FolderTypes
<1>1. CASE Enricher
  <2>1. reports' \in Seq(Report)
    BY <1>1, EnricherEnriches DEF Enriched
  <2>2. CASE EnrichOne
    BY <2>1, <2>2 DEF EnrichOne
  <2>3. CASE EnrichFails
    BY <2>1, <2>3 DEF EnrichFails
  <2>4. CASE EnrichCut
    BY <2>1, <2>4 DEF EnrichCut
  <2>5. CASE EnrichEnds
    BY <2>1, <2>5 DEF EnrichEnds
  <2>6. QED
    BY <1>1, <2>2, <2>3, <2>4, <2>5 DEF Enricher
<1>2. CASE Boot
  BY <1>2 DEF Boot
<1>3. CASE Fault
  <2>1. PICK headed, fatal \in BOOLEAN, json \in {"none", "whole", "cut"} :
          reports' = Append(reports, [headed |-> headed, pid |-> pid, time |-> now, launch |-> launch,
                                      fatal |-> fatal, json |-> json, state |-> NoState])
    BY <1>3 DEF Fault
  <2>2. [headed |-> headed, pid |-> pid, time |-> now, launch |-> launch,
         fatal |-> fatal, json |-> json, state |-> NoState] \in Report
    BY DEF Report, State, NoState
  <2>3. reports' \in Seq(Report)
    BY <2>1, <2>2, ReportAdded
  <2>4. phase' \in {"runs", "dies"}
    BY <1>3 DEF Fault
  <2>5. QED
    BY <1>3, <2>3, <2>4 DEF Fault
<1>4. CASE Dump
  <2>1. [pid |-> pid, time |-> now, launch |-> launch, parts |-> {}] \in DumpDir
    BY DEF DumpDir
  <2>2. QED
    BY <1>4, <2>1 DEF Dump
<1>5. CASE FillDump
  BY <1>5, FilledDump DEF FillDump
<1>6. CASE Ends
  BY <1>6 DEF Ends
<1>7. CASE Passes
  BY <1>7 DEF Passes
<1>8. CASE UNCHANGED folderVars
  BY <1>8 DEF folderVars
<1>9. QED
  BY <1>1, <1>2, <1>3, <1>4, <1>5, <1>6, <1>7, <1>8 DEF FolderNext

\* A report of the crash, as it is when it is written.
NewReport(r) ==
  /\ r \in Report /\ r.pid = pid /\ r.time = now /\ r.launch = launch /\ r.state = NoState
  /\ reports' = Append(reports, r)
  /\ phase' = IF r.fatal THEN "dies" ELSE "runs"

LEMMA FaultReports ==
  ASSUME FolderTypes, Fault
  PROVE  \E r : NewReport(r)
<1>1. PICK headed, fatal \in BOOLEAN, json \in {"none", "whole", "cut"} :
        /\ reports' = Append(reports, [headed |-> headed, pid |-> pid, time |-> now, launch |-> launch,
                                       fatal |-> fatal, json |-> json, state |-> NoState])
        /\ phase' = IF fatal THEN "dies" ELSE "runs"
  BY DEF Fault
<1> DEFINE r == [headed |-> headed, pid |-> pid, time |-> now, launch |-> launch,
                 fatal |-> fatal, json |-> json, state |-> NoState]
<1>2. r \in Report
  BY DEF FolderTypes, Report, State, NoState
<1>3. r.fatal = fatal /\ r.pid = pid /\ r.time = now /\ r.launch = launch /\ r.state = NoState
  OBVIOUS
<1> HIDE DEF r
<1>4. reports' = Append(reports, r)
  BY <1>1 DEF r
<1>5. NewReport(r)
  BY <1>1, <1>2, <1>3, <1>4, Zenon DEF NewReport
<1>6. QED
  BY <1>5

LEMMA ApartStep ==
  ASSUME FolderInv, [FolderNext]_folderVars
  PROVE  Apart'
<1>t. /\ DumpLag \in Nat /\ now \in Nat /\ launch \in Nat /\ FolderTypes
      /\ \A i \in DOMAIN reports : reports[i].time \in Nat /\ reports[i].launch \in Nat
      /\ \A d \in dumps : d.time \in Nat /\ d.launch \in Nat
  BY CrashFolderAssumption, Fields DEF FolderInv, FolderTypes
<1>a. Apart
  BY DEF FolderInv
<1>1. CASE Enricher
  <2>1. Enriched
    BY <1>1, <1>t, EnricherEnriches
  <2>2. UNCHANGED <<now, launch, dumps>>
    BY <1>1 DEF Enricher, EnrichOne, EnrichFails, EnrichCut, EnrichEnds
  <2>3. QED
    BY ONLY <1>t, <1>a, <2>1, <2>2 DEF Apart, Enriched
<1>2. CASE Boot
  <2>1. now' = now + DumpLag + 1 /\ launch' = launch + 1 /\ UNCHANGED <<reports, dumps>>
    BY <1>2 DEF Boot
  <2>2. QED
    BY ONLY <1>t, <1>a, <2>1 DEF Apart
<1>3. CASE Fault
  <2>1. PICK r : NewReport(r)
    BY <1>3, <1>t, FaultReports
  <2>2. /\ DOMAIN reports' = 1 .. Len(reports) + 1 /\ reports'[Len(reports) + 1] = r
        /\ \A i \in DOMAIN reports : reports'[i] = reports[i]
    BY <2>1, <1>t, ReportAdded DEF NewReport
  <2>3. DOMAIN reports = 1 .. Len(reports) /\ Len(reports) \in Nat
    BY <1>t, Fields
  <2>4. UNCHANGED <<now, launch, dumps>> /\ r.launch = launch /\ r.time = now
    BY <1>3, <2>1 DEF Fault, NewReport
  <2>5. \A i \in DOMAIN reports' : i \in DOMAIN reports \/ reports'[i] = r
    BY ONLY <2>2, <2>3
  <2>6. \A d \in dumps : ~(launch < d.launch) /\ (d.launch < launch => d.time + DumpLag < now)
    BY ONLY <1>t, <1>a DEF Apart
  <2>7. ASSUME NEW i \in DOMAIN reports'
        PROVE  /\ reports'[i].launch <= launch /\ reports'[i].time <= now
               /\ reports'[i].launch < launch => reports'[i].time + DumpLag < now
               /\ \A d \in dumps :
                    /\ reports'[i].launch < d.launch => reports'[i].time + DumpLag < d.time
                    /\ d.launch < reports'[i].launch => d.time + DumpLag < reports'[i].time
    <3>1. CASE i \in DOMAIN reports
      <4>1. reports'[i] = reports[i]
        BY <2>2, <3>1
      <4>2. QED
        BY ONLY <1>a, <3>1, <4>1 DEF Apart
    <3>2. CASE reports'[i] = r
      BY ONLY <1>t, <2>4, <2>6, <3>2
    <3>3. QED
      BY <2>5, <3>1, <3>2
  <2>8. QED
    BY ONLY <1>a, <2>4, <2>7 DEF Apart
<1>4. CASE Dump
  <2>1. PICK d : /\ d.time = now /\ d.launch = launch
                 /\ dumps' = dumps \cup {d} /\ UNCHANGED <<now, launch, reports>>
    BY <1>4 DEF Dump
  <2>2. QED
    BY ONLY <1>t, <1>a, <2>1 DEF Apart
<1>5. CASE FillDump
  <2>1. UNCHANGED <<now, launch, reports>>
    BY <1>5 DEF FillDump
  <2>2. \A e \in dumps' : \E d \in dumps : d.time = e.time /\ d.launch = e.launch
    BY <1>5, <1>t, FilledDump
  <2>3. QED
    BY ONLY <1>a, <2>1, <2>2 DEF Apart
<1>6. CASE Ends
  BY <1>6, <1>a DEF Ends, Apart
<1>7. CASE Passes
  <2>1. now' = now + 1 /\ UNCHANGED <<launch, reports, dumps>>
    BY <1>7 DEF Passes
  <2>2. QED
    BY ONLY <1>t, <1>a, <2>1 DEF Apart
<1>8. CASE UNCHANGED folderVars
  BY <1>8, <1>a DEF folderVars, Apart
<1>9. QED
  BY <1>1, <1>2, <1>3, <1>4, <1>5, <1>6, <1>7, <1>8 DEF FolderNext

LEMMA ThisLaunchStep ==
  ASSUME FolderInv, [FolderNext]_folderVars
  PROVE  ThisLaunch'
<1>t. /\ DumpLag \in Nat /\ now \in Nat /\ launch \in Nat /\ FolderTypes
      /\ \A i \in DOMAIN reports : reports[i].time \in Nat /\ reports[i].launch \in Nat
      /\ \A d \in dumps : d.time \in Nat /\ d.launch \in Nat
      /\ DOMAIN reports = 1 .. Len(reports) /\ Len(reports) \in Nat
      /\ phase \in {"off", "enrich", "runs", "dies"}
  BY CrashFolderAssumption, Fields DEF FolderInv, FolderTypes
<1>a. ThisLaunch /\ Apart
  BY DEF FolderInv
<1>1. CASE Enricher
  <2>1. Enriched
    BY <1>1, <1>t, EnricherEnriches
  <2>2. UNCHANGED <<now, launch, dumps>> /\ phase = "enrich" /\ phase' \in {"enrich", "off", "runs"}
    BY <1>1 DEF Enricher, EnrichOne, EnrichFails, EnrichCut, EnrichEnds, Enriching
  <2>3. \A i \in DOMAIN reports' : reports'[i].launch < launch
    BY ONLY <1>a, <2>1, <2>2 DEF ThisLaunch, Enriched
  <2>4. \A d \in dumps : d.launch < launch
    BY ONLY <1>a, <2>2 DEF ThisLaunch
  <2>5. \A i \in DOMAIN reports' : reports'[i].launch \in Nat
    BY ONLY <1>t, <2>1 DEF Enriched
  <2>6. phase' # "dies"
    BY <2>2
  <2>7. QED
    BY ONLY <1>t, <2>2, <2>3, <2>4, <2>5, <2>6 DEF ThisLaunch
<1>2. CASE Boot
  <2>1. launch' = launch + 1 /\ UNCHANGED <<reports, dumps>> /\ phase' = "enrich"
    BY <1>2 DEF Boot
  <2>2. QED
    BY ONLY <1>t, <1>a, <2>1 DEF Apart, ThisLaunch
<1>3. CASE Fault
  <2>1. PICK r : NewReport(r)
    BY <1>3, <1>t, FaultReports
  <2>2. /\ DOMAIN reports' = 1 .. Len(reports) + 1 /\ reports'[Len(reports) + 1] = r
        /\ \A i \in DOMAIN reports : reports'[i] = reports[i]
        /\ Len(reports') = Len(reports) + 1 /\ reports' # <<>>
    BY <2>1, <1>t, ReportAdded DEF NewReport
  <2>3. UNCHANGED <<now, launch, dumps, pid>> /\ r.launch = launch /\ r.time = now /\ r.pid = pid /\ phase = "runs"
    BY <1>3, <2>1 DEF Fault, NewReport
  <2>4. r.state.text = "absent"
    BY <2>1 DEF NewReport, NoState
  <2>5. \A i \in DOMAIN reports' : i \in DOMAIN reports \/ (i = Len(reports) + 1 /\ reports'[i] = r)
    BY ONLY <2>2, <1>t
  <2>6. \A i \in DOMAIN reports : reports'[i].fatal => reports'[i].launch < launch
    BY ONLY <1>a, <2>2, <2>3 DEF ThisLaunch
  <2>7. \A i \in DOMAIN reports' : reports'[i].launch = launch => reports'[i].state.text = "absent"
    BY ONLY <1>a, <2>2, <2>4, <2>5 DEF ThisLaunch
  <2>8. \A d \in dumps : d.launch < launch
    BY ONLY <1>a, <2>3 DEF ThisLaunch
  <2>9. \A i \in DOMAIN reports' : reports'[i].fatal /\ reports'[i].launch = launch
                                   => i = Len(reports') /\ reports'[i].pid = pid
    BY ONLY <1>t, <2>2, <2>3, <2>5, <2>6
  <2>10. now <= reports'[Len(reports')].time + DumpLag
    BY ONLY <1>t, <2>2, <2>3
  <2>11. CASE r.fatal
    <3>1. phase' = "dies"
      BY <2>1, <2>11 DEF NewReport
    <3>2. QED
      BY ONLY <3>1, <2>2, <2>3, <2>7, <2>8, <2>9, <2>10 DEF ThisLaunch
  <2>12. CASE ~r.fatal
    <3>1. phase' = "runs"
      BY <2>1, <2>12 DEF NewReport
    <3>2. \A i \in DOMAIN reports' : reports'[i].fatal => reports'[i].launch < launch
      BY ONLY <2>12, <2>5, <2>6
    <3>3. QED
      BY ONLY <3>1, <3>2, <2>3, <2>7, <2>8 DEF ThisLaunch
  <2>13. QED
    BY <2>11, <2>12
<1>4. CASE Dump
  <2>1. phase' = "off" /\ UNCHANGED <<now, launch, reports>>
    BY <1>4 DEF Dump
  <2>2. QED
    BY ONLY <1>a, <2>1 DEF ThisLaunch
<1>5. CASE FillDump
  <2>1. UNCHANGED <<now, launch, pid, phase, reports>>
    BY <1>5 DEF FillDump
  <2>2. \A e \in dumps' : \E d \in dumps : d.time = e.time /\ d.launch = e.launch
    BY <1>5, <1>t, FilledDump
  <2>3. QED
    BY ONLY <1>a, <2>1, <2>2 DEF ThisLaunch
<1>6. CASE Ends
  BY <1>6, <1>a DEF Ends, ThisLaunch
<1>7. CASE Passes
  <2>1. /\ now' = now + 1 /\ UNCHANGED <<launch, pid, phase, reports, dumps>>
        /\ phase = "dies" => now < reports[Len(reports)].time + DumpLag
    BY <1>7 DEF Passes
  <2>2. phase = "dies" => now' <= reports[Len(reports)].time + DumpLag
    <3>1. phase = "dies" => Len(reports) \in DOMAIN reports
      <4>1. phase = "dies" => reports # <<>>
        BY <1>a DEF ThisLaunch
      <4>2. QED
        BY <4>1, <1>t DEF FolderTypes
    <3>2. QED
      BY ONLY <3>1, <2>1, <1>t
  <2>3. QED
    BY ONLY <1>a, <2>1, <2>2 DEF ThisLaunch
<1>8. CASE UNCHANGED folderVars
  BY <1>8, <1>a DEF folderVars, ThisLaunch
<1>9. QED
  BY <1>1, <1>2, <1>3, <1>4, <1>5, <1>6, <1>7, <1>8 DEF FolderNext

LEMMA OwnDumpsStep ==
  ASSUME FolderInv, [FolderNext]_folderVars
  PROVE  OwnDumps'
<1>t. /\ DumpLag \in Nat /\ now \in Nat /\ launch \in Nat /\ FolderTypes
      /\ \A i \in DOMAIN reports : reports[i].time \in Nat /\ reports[i].launch \in Nat
      /\ \A d \in dumps : d.time \in Nat /\ d.launch \in Nat
      /\ DOMAIN reports = 1 .. Len(reports) /\ Len(reports) \in Nat
  BY CrashFolderAssumption, Fields DEF FolderInv, FolderTypes
<1>a. OwnDumps /\ ThisLaunch /\ Apart
  BY DEF FolderInv
<1>1. CASE Enricher
  <2>1. Enriched
    BY <1>1, <1>t, EnricherEnriches
  <2>2. UNCHANGED dumps
    BY <1>1 DEF Enricher, EnrichOne, EnrichFails, EnrichCut, EnrichEnds
  <2>3. QED
    BY ONLY <1>a, <2>1, <2>2 DEF OwnDumps, Enriched
<1>2. CASE Fault
  <2>1. PICK r : NewReport(r)
    BY <1>2, <1>t, FaultReports
  <2>2. /\ DOMAIN reports' = 1 .. Len(reports) + 1 /\ reports'[Len(reports) + 1] = r
        /\ \A i \in DOMAIN reports : reports'[i] = reports[i]
    BY <2>1, <1>t, ReportAdded DEF NewReport
  <2>3. UNCHANGED dumps /\ r.launch = launch /\ phase = "runs"
    BY <1>2, <2>1 DEF Fault, NewReport
  <2>4. \A i \in DOMAIN reports' : i \in DOMAIN reports \/ reports'[i] = r
    BY ONLY <2>2, <1>t
  <2>5. \A d \in dumps : d.launch # launch
    <3>1. \A d \in dumps : d.launch < launch
      BY ONLY <1>a, <2>3 DEF ThisLaunch
    <3>2. QED
      BY ONLY <3>1, <1>t
  <2>6. QED
    BY ONLY <1>a, <2>2, <2>3, <2>4, <2>5 DEF OwnDumps
<1>3. CASE Dump
  <2>1. PICK d : /\ d.pid = pid /\ d.time = now /\ d.launch = launch
                 /\ dumps' = dumps \cup {d} /\ UNCHANGED <<now, launch, reports>>
    BY <1>3 DEF Dump
  <2>2. phase = "dies"
    BY <1>3 DEF Dump
  <2>3. ASSUME NEW i \in DOMAIN reports, reports[i].fatal, reports[i].launch = launch
        PROVE  pid = reports[i].pid /\ reports[i].time <= now /\ now <= reports[i].time + DumpLag
    <3>1. i = Len(reports) /\ reports[i].pid = pid /\ now <= reports[Len(reports)].time + DumpLag
      BY ONLY <1>a, <2>2, <2>3 DEF ThisLaunch
    <3>2. reports[i].time <= now
      BY ONLY <1>a, i \in DOMAIN reports DEF Apart
    <3>3. QED
      BY <3>1, <3>2
  <2>4. QED
    BY ONLY <1>a, <2>1, <2>3 DEF OwnDumps
<1>4. CASE FillDump
  <2>1. UNCHANGED reports
    BY <1>4 DEF FillDump
  <2>2. \A e \in dumps' : \E d \in dumps : d.pid = e.pid /\ d.time = e.time /\ d.launch = e.launch
    BY <1>4, <1>t, FilledDump
  <2>3. QED
    BY ONLY <1>a, <2>1, <2>2 DEF OwnDumps
<1>5. CASE UNCHANGED <<reports, dumps>>
  BY <1>5, <1>a DEF OwnDumps
<1>6. QED
  BY <1>1, <1>2, <1>3, <1>4, <1>5 DEF FolderNext, Boot, Ends, Passes, folderVars

\* The dump that is nearest to a report of a crash is its own, when it has one.
LEMMA NearestIsOwn ==
  ASSUME FolderInv, NEW i \in DOMAIN reports, reports[i].fatal,
         NEW d \in Source(reports[i]), OwnDump(reports[i]) # {}
  PROVE  d.launch = reports[i].launch
<1>1. PICK o \in dumps : o.launch = reports[i].launch
  BY DEF OwnDump
<1>2. /\ DumpLag \in Nat /\ Tolerance \in Nat /\ DumpLag <= Tolerance
      /\ reports[i].time \in Nat /\ reports[i].launch \in Nat /\ o.time \in Nat
  BY CrashFolderAssumption, Fields DEF FolderInv
<1>3. o.pid = reports[i].pid /\ reports[i].time <= o.time /\ o.time <= reports[i].time + DumpLag
  BY <1>1 DEF FolderInv, OwnDumps
<1>4. Distance(o.time, reports[i].time) <= DumpLag
  <2>1. o.time <= reports[i].time + DumpLag /\ reports[i].time <= o.time + DumpLag
    BY ONLY <1>2, <1>3
  <2>2. QED
    BY ONLY <1>2, <2>1, DistanceType
<1>5. Distance(o.time, reports[i].time) <= Tolerance
  <2>1. o.time <= reports[i].time + Tolerance /\ reports[i].time <= o.time + Tolerance
    BY ONLY <1>2, <1>3
  <2>2. QED
    BY ONLY <1>2, <2>1, DistanceType
<1>6. d \in dumps /\ d \in FindReportQueueDir(ParseCrashHeader(reports[i]))
  BY SourcesAreDumps
<1>7. ParseCrashHeader(reports[i]).pid = reports[i].pid /\ ParseCrashHeader(reports[i]).time = reports[i].time
  BY DEF ParseCrashHeader
<1>8. Distance(d.time, reports[i].time) <= Distance(o.time, reports[i].time)
  BY <1>1, <1>3, <1>5, <1>6, <1>7 DEF FindReportQueueDir
<1>9. d.time \in Nat /\ d.launch \in Nat
  BY <1>6, Fields DEF FolderInv
<1>10. d.time <= reports[i].time + DumpLag /\ reports[i].time <= d.time + DumpLag
  <2>1. Distance(d.time, reports[i].time) \in Nat /\ Distance(o.time, reports[i].time) \in Nat
    BY ONLY <1>2, <1>9, DistanceType
  <2>2. Distance(d.time, reports[i].time) <= DumpLag
    BY ONLY <1>2, <1>4, <1>8, <2>1
  <2>3. QED
    BY ONLY <1>2, <1>9, <2>2, DistanceType
<1>11. /\ reports[i].launch < d.launch => reports[i].time + DumpLag < d.time
       /\ d.launch < reports[i].launch => d.time + DumpLag < reports[i].time
  BY <1>6 DEF FolderInv, Apart
<1>12. QED
  BY ONLY <1>2, <1>9, <1>10, <1>11

LEMMA FatalStep ==
  ASSUME FolderInv, [FolderNext]_folderVars
  PROVE  FatalReportHasOwnState'
<1>t. FolderTypes /\ FatalReportHasOwnState /\ ThisLaunch
  BY DEF FolderInv
<1>1. CASE Enricher
  <2>1. Enriched
    BY <1>1, <1>t, EnricherEnriches
  <2>2. UNCHANGED dumps
    BY <1>1 DEF Enricher, EnrichOne, EnrichFails, EnrichCut, EnrichEnds
  <2>3. SUFFICES ASSUME NEW i \in DOMAIN reports', reports'[i].fatal, reports'[i].state.text # "absent",
                        NEW o \in dumps', o.launch = reports'[i].launch
                 PROVE  reports'[i].state.of = reports'[i].launch
    BY DEF FatalReportHasOwnState, OwnDump
  <2>4. /\ i \in DOMAIN reports /\ reports[i].fatal /\ reports'[i].launch = reports[i].launch
    BY <2>1, <2>3 DEF Enriched
  <2>5. OwnDump(reports[i]) # {}
    BY <2>2, <2>3, <2>4 DEF OwnDump
  <2>6. CASE reports'[i].state = reports[i].state
    BY <1>t, <2>3, <2>4, <2>5, <2>6 DEF FatalReportHasOwnState
  <2>7. ASSUME NEW d \in Source(reports[i]), reports'[i].state.of = d.launch
        PROVE  reports'[i].state.of = reports'[i].launch
    BY <2>4, <2>5, <2>7, NearestIsOwn
  <2>8. QED
    BY <2>1, <2>4, <2>6, <2>7 DEF Enriched
<1>2. CASE Fault
  <2>1. PICK r : NewReport(r)
    BY <1>2, <1>t, FaultReports
  <2>2. /\ DOMAIN reports' = 1 .. Len(reports) + 1 /\ reports'[Len(reports) + 1] = r
        /\ \A i \in DOMAIN reports : reports'[i] = reports[i]
    BY <2>1, <1>t, ReportAdded DEF NewReport
  <2>3. UNCHANGED dumps /\ r.state.text = "absent"
    BY <1>2, <2>1 DEF Fault, NewReport, NoState
  <2>4. \A i \in DOMAIN reports' : i \in DOMAIN reports \/ reports'[i] = r
    BY <1>t, <2>2, Fields
  <2>5. QED
    BY ONLY <1>t, <2>2, <2>3, <2>4 DEF FatalReportHasOwnState, OwnDump
<1>3. CASE Dump
  <2>1. PICK d : d.launch = launch /\ dumps' = dumps \cup {d} /\ UNCHANGED reports
    BY <1>3 DEF Dump
  <2>2. \A i \in DOMAIN reports : reports[i].launch = launch => reports[i].state.text = "absent"
    BY ONLY <1>t DEF ThisLaunch
  <2>3. QED
    BY ONLY <1>t, <2>1, <2>2 DEF FatalReportHasOwnState, OwnDump
<1>4. CASE FillDump
  <2>1. UNCHANGED reports
    BY <1>4 DEF FillDump
  <2>2. \A e \in dumps' : \E d \in dumps : d.launch = e.launch
    BY <1>4, <1>t, FilledDump
  <2>3. QED
    BY ONLY <1>t, <2>1, <2>2 DEF FatalReportHasOwnState, OwnDump
<1>5. CASE UNCHANGED <<reports, dumps>>
  BY <1>5, <1>t DEF FatalReportHasOwnState, OwnDump
<1>6. QED
  BY <1>1, <1>2, <1>3, <1>4, <1>5 DEF FolderNext, Boot, Ends, Passes, folderVars

LEMMA WalkStep ==
  ASSUME FolderInv, [FolderNext]_folderVars
  PROVE  Walk'
<1>t. FolderTypes /\ Walk
  BY DEF FolderInv
<1>1. CASE EnrichOne
  <2>1. Enriched /\ Enriching
    BY <1>1, <1>t, EnricherEnriches DEF Enricher, EnrichOne
  <2>2. UNCHANGED <<launch, phase, dumps, found>> /\ cursor' = cursor + 1 /\ phase = "enrich"
    BY <1>1 DEF EnrichOne, Enriching
  <2>3. cursor \in DOMAIN reports
    BY <1>t, <2>1 DEF Enriching, FolderTypes
  <2>4. ASSUME NEW d \in found, reports[cursor].headed, IsDumpOf(d, reports[cursor])
        PROVE  reports'[cursor].state.text # "absent"
    <3>1. CASE Source(reports[cursor]) = {}
      <4>1. PICK e \in dumps : e.pid = d.pid /\ e.time = d.time
        BY <1>t DEF Walk
      <4>2. /\ ParseCrashHeader(reports[cursor]).pid = reports[cursor].pid
            /\ ParseCrashHeader(reports[cursor]).time = reports[cursor].time
            /\ ParseCrashHeader(reports[cursor]).ok = reports[cursor].headed
        BY DEF ParseCrashHeader
      <4>3. ParseCrashHeader(reports[cursor]).time \in Nat
        BY <1>t, <2>3, <4>2, Fields
      <4>4. FindReportQueueDir(ParseCrashHeader(reports[cursor])) # {}
        BY <1>t, <2>4, <4>1, <4>2, <4>3, NearestIsThere DEF FolderTypes, IsDumpOf
      <4>5. ~Wanted(reports[cursor])
        BY <3>1, <4>4 DEF Source
      <4>6. reports[cursor].state.text # "absent"
        BY <2>4, <4>2, <4>5 DEF Wanted
      <4>7. \/ reports'[cursor].state = reports[cursor].state
            \/ reports'[cursor].state.text # "absent"
        BY <2>1, <2>3 DEF Enriched
      <4>8. QED
        BY <4>6, <4>7
    <3>2. ASSUME NEW s \in Source(reports[cursor]), Put(RenderSidecar(s))
          PROVE  reports'[cursor].state.text # "absent"
      <4>1. s \in DumpDir
        BY <1>t, SourcesAreDumps DEF FolderTypes
      <4>2. reports'[cursor].state = RenderSidecar(s)
        BY <1>t, <2>1, <2>3, <3>2, <4>1, PutEffect, RenderedState
      <4>3. QED
        BY <4>1, <4>2, RenderedState
    <3>3. QED
      BY <1>1, <3>1, <3>2 DEF EnrichOne
  <2>5. \A i \in DOMAIN reports' : i < cursor' => i < cursor \/ i = cursor
    <3>1. \A i \in DOMAIN reports' : i \in Nat
      BY <1>t, <2>1, Fields DEF Enriched
    <3>2. QED
      BY <1>t, <2>2, <3>1 DEF FolderTypes
  <2>6. \A i \in DOMAIN reports, d \in found : IsDumpOf(d, reports'[i]) <=> IsDumpOf(d, reports[i])
    BY <2>1 DEF Enriched, IsDumpOf
  <2>7. \A i \in DOMAIN reports : reports[i].state.text # "absent" => reports'[i].state.text # "absent"
    BY <2>1 DEF Enriched
  <2>8. SUFFICES ASSUME NEW i \in DOMAIN reports, NEW d \in found, i < cursor', reports[i].headed,
                        reports[i].launch < launch, IsDumpOf(d, reports[i])
                 PROVE  reports'[i].state.text # "absent"
    <3>1. \A i \in DOMAIN reports : reports'[i].headed = reports[i].headed /\ reports'[i].launch = reports[i].launch
      BY <2>1 DEF Enriched
    <3>2. DOMAIN reports' = DOMAIN reports
      BY <2>1 DEF Enriched
    <3>3. \A d \in found : \E e \in dumps : e.pid = d.pid /\ e.time = d.time
      BY <1>t DEF Walk
    <3>4. QED
      BY <2>2, <2>6, <2>8, <3>1, <3>2, <3>3 DEF Walk, IsDumpOf, Distance
  <2>9. CASE i < cursor
    BY <1>t, <2>2, <2>7, <2>8, <2>9 DEF Walk
  <2>10. CASE i = cursor
    BY <2>4, <2>8, <2>10
  <2>11. QED
    BY <2>1, <2>5, <2>8, <2>9, <2>10 DEF Enriched
<1>2. CASE EnrichFails
  BY <1>2 DEF EnrichFails, Walk
<1>3. CASE EnrichCut \/ EnrichEnds \/ Ends
  <2>1. UNCHANGED <<dumps, found>> /\ phase' # "enrich"
    BY <1>3 DEF EnrichCut, EnrichEnds, Ends
  <2>2. QED
    BY <1>t, <2>1 DEF Walk
<1>4. CASE Boot
  <2>1. UNCHANGED <<dumps, reports>> /\ found' = dumps /\ cursor' = 1
    BY <1>4 DEF Boot
  <2>2. \A i \in DOMAIN reports : ~(i < 1)
    BY <1>t, Fields
  <2>3. QED
    BY <2>1, <2>2 DEF Walk
<1>5. CASE Fault
  <2>1. UNCHANGED <<dumps, found>> /\ phase' # "enrich"
    BY <1>5 DEF Fault
  <2>2. QED
    BY <1>t, <2>1 DEF Walk
<1>6. CASE Dump
  <2>1. dumps \subseteq dumps' /\ UNCHANGED found /\ phase' # "enrich"
    BY <1>6 DEF Dump
  <2>2. QED
    BY <1>t, <2>1 DEF Walk
<1>7. CASE FillDump
  <2>1. UNCHANGED <<launch, phase, cursor, reports, found>>
    BY <1>7 DEF FillDump
  <2>2. \A d \in dumps : \E e \in dumps' : d.pid = e.pid /\ d.time = e.time
    BY <1>7, <1>t, FilledDump
  <2>3. QED
    BY ONLY <1>t, <2>1, <2>2 DEF Walk, IsDumpOf
<1>8. CASE Passes \/ UNCHANGED folderVars
  BY <1>8, <1>t DEF Passes, folderVars, Walk, IsDumpOf
<1>9. QED
  BY <1>1, <1>2, <1>3, <1>4, <1>5, <1>6, <1>7, <1>8 DEF FolderNext, Enricher

LEMMA BootEnrichesStep ==
  ASSUME FolderInv, [FolderNext]_folderVars
  PROVE  BootEnrichesAll'
<1>t. FolderTypes /\ Walk /\ BootEnrichesAll
  BY DEF FolderInv
<1>1. CASE EnrichEnds
  <2>1. UNCHANGED <<launch, reports, found>> /\ phase = "enrich" /\ ~(cursor <= Len(reports))
    BY <1>1 DEF EnrichEnds, Enriching
  <2>2. \A i \in DOMAIN reports : i < cursor
    BY <1>t, <2>1, Fields DEF FolderTypes
  <2>3. QED
    BY <1>t, <2>1, <2>2 DEF BootEnrichesAll, Walk, IsDumpOf
<1>2. CASE EnrichOne \/ EnrichFails \/ EnrichCut \/ Boot \/ Dump \/ Ends
  BY <1>2 DEF EnrichOne, EnrichFails, EnrichCut, Boot, Dump, Ends, Enriching, BootEnrichesAll
<1>3. CASE Fault
  <2>1. PICK r : NewReport(r)
    BY <1>3, <1>t, FaultReports
  <2>2. /\ DOMAIN reports' = 1 .. Len(reports) + 1 /\ reports'[Len(reports) + 1] = r
        /\ \A i \in DOMAIN reports : reports'[i] = reports[i]
    BY <2>1, <1>t, ReportAdded DEF NewReport
  <2>3. UNCHANGED <<launch, found>> /\ r.launch = launch /\ phase = "runs" /\ launch \in Nat
    BY <1>3, <1>t, <2>1 DEF Fault, NewReport, FolderTypes
  <2>4. \A i \in DOMAIN reports' : i \in DOMAIN reports \/ reports'[i] = r
    BY <1>t, <2>2, Fields
  <2>5. ~(r.launch < launch)
    BY <2>3
  <2>6. QED
    BY ONLY <1>t, <2>2, <2>3, <2>4, <2>5 DEF BootEnrichesAll
<1>4. CASE FillDump \/ Passes \/ UNCHANGED folderVars
  BY <1>4, <1>t DEF FillDump, Passes, folderVars, BootEnrichesAll
<1>5. QED
  BY <1>1, <1>2, <1>3, <1>4 DEF FolderNext, Enricher

LEMMA TimesGrowStep ==
  ASSUME FolderInv, [FolderNext]_folderVars
  PROVE  TimesGrow'
<1>t. /\ FolderTypes /\ TimesGrow /\ now \in Nat
      /\ \A i \in DOMAIN reports : reports[i].time \in Nat /\ reports[i].time <= now
      /\ DOMAIN reports = 1 .. Len(reports) /\ Len(reports) \in Nat
  BY Fields DEF FolderInv, FolderTypes, Apart
<1>1. CASE Enricher
  <2>1. Enriched
    BY <1>1, <1>t, EnricherEnriches
  <2>2. QED
    BY ONLY <1>t, <2>1 DEF TimesGrow, Enriched
<1>2. CASE Fault
  <2>1. PICK r : NewReport(r)
    BY <1>2, <1>t, FaultReports
  <2>2. /\ DOMAIN reports' = 1 .. Len(reports) + 1 /\ reports'[Len(reports) + 1] = r
        /\ \A i \in DOMAIN reports : reports'[i] = reports[i]
    BY <2>1, <1>t, ReportAdded DEF NewReport
  <2>3. r.time = now /\ \A i \in DOMAIN reports : reports[i].time # now
    BY <1>2, <2>1 DEF Fault, NewReport
  <2>4. \A i \in DOMAIN reports : reports[i].time < r.time
    BY ONLY <1>t, <2>3
  <2>5. \A i \in DOMAIN reports' : i \in DOMAIN reports \/ i = Len(reports) + 1
    BY ONLY <1>t, <2>2
  <2>6. \A i \in DOMAIN reports : i < Len(reports) + 1 /\ ~(Len(reports) + 1 < i)
    BY ONLY <1>t
  <2>7. ~(Len(reports) + 1 < Len(reports) + 1)
    BY ONLY <1>t
  <2>8. QED
    BY ONLY <1>t, <2>2, <2>4, <2>5, <2>6, <2>7 DEF TimesGrow
<1>3. CASE UNCHANGED reports
  BY <1>3, <1>t DEF TimesGrow
<1>4. QED
  BY <1>1, <1>2, <1>3 DEF FolderNext, Boot, Dump, FillDump, Ends, Passes, folderVars

\* The archive, from the newest file on: f has the places of the sidecars, g those of the whole
\* ones among the first Cap of them.
ArchiveIs(n, f, g, c, m, w) ==
  LET S == {i \in 1 .. n : Newest[i].json # "none"}
      W == {i \in 1 .. m : Sidecars[i].json = "whole"}
  IN /\ Len(Newest) = n /\ \A i \in 1 .. n : Newest[i] = reports[n - i + 1]
     /\ c = Cardinality(S) /\ IsAscending(f, S)
     /\ Sidecars = [k \in 1 .. c |-> Newest[f[k]]] /\ Len(Sidecars) = c
     /\ m = (IF c > Cap THEN Cap ELSE c)
     /\ w = Cardinality(W) /\ IsAscending(g, W)
     /\ DOMAIN ReadAllCrashesJson = 1 .. w
     /\ \A k \in 1 .. w : ReadAllCrashesJson[k] = Sidecars[g[k]]

LEMMA ArchiveOf ==
  ASSUME reports \in Seq(Report)
  PROVE  \E f, g, c, m, w : ArchiveIs(Len(reports), f, g, c, m, w)
<1> DEFINE n == Len(reports)
           S == {i \in DOMAIN Newest : Newest[i].json # "none"}
<1>1. /\ n \in Nat /\ Len(Newest) = n /\ DOMAIN Newest = 1 .. n
      /\ \A i \in 1 .. n : Newest[i] = reports[n - i + 1]
  <2>1. n \in Nat
    OBVIOUS
  <2>2. Newest = [i \in 1 .. n |-> reports[(n - i) + 1]]
    BY Zenon DEF Newest, Reverse
  <2>3. QED
    BY <2>1, <2>2
<1>2. S \in SUBSET (1 .. n) /\ S = {i \in 1 .. n : Newest[i].json # "none"}
  BY <1>1
<1> DEFINE c == Cardinality(S)
<1>3. Sidecars = Selected(Newest, S)
  BY Zenon DEF Sidecars
<1> HIDE DEF S
<1>4. PICK f : /\ IsAscending(f, S)
               /\ Selected(Newest, S) = [k \in 1 .. Cardinality(S) |-> Newest[f[k]]]
               /\ Len(Selected(Newest, S)) = Cardinality(S)
  BY <1>1, <1>2, SelectedIs
<1>5. c \in Nat
  BY <1>4 DEF IsAscending
<1> DEFINE m == IF c > Cap THEN Cap ELSE c
           Kept == SubSeq(Sidecars, 1, IF Len(Sidecars) > Cap THEN Cap ELSE Len(Sidecars))
<1>6. m \in Nat /\ m <= c
  BY <1>5, CrashFolderAssumption
<1>7. Kept = SubSeq(Sidecars, 1, m) /\ Len(Sidecars) = c /\ Sidecars = [k \in 1 .. c |-> Newest[f[k]]]
  BY <1>3, <1>4
<1>8. Len(Kept) = m /\ DOMAIN Kept = 1 .. m /\ \A k \in 1 .. m : Kept[k] = Sidecars[k]
  <2> HIDE DEF m, c, Kept
  <2>1. Kept = [k \in 1 .. m |-> Sidecars[1 + k - 1]]
    BY ONLY <1>5, <1>6, <1>7
  <2>2. QED
    BY <1>6, <2>1
<1> DEFINE W == {i \in DOMAIN Kept : Kept[i].json = "whole"}
<1>9. W \in SUBSET (1 .. m) /\ W = {i \in 1 .. m : Sidecars[i].json = "whole"}
  BY <1>8
<1>10. ReadAllCrashesJson = Selected(Kept, W)
  BY Zenon DEF ReadAllCrashesJson, Parsed
<1> HIDE DEF W, Kept, m
<1>11. PICK g : /\ IsAscending(g, W)
                /\ Selected(Kept, W) = [k \in 1 .. Cardinality(W) |-> Kept[g[k]]]
                /\ Len(Selected(Kept, W)) = Cardinality(W)
  BY <1>6, <1>9, SelectedIs
<1> DEFINE w == Cardinality(W)
<1>12. /\ DOMAIN ReadAllCrashesJson = 1 .. w
       /\ \A k \in 1 .. w : ReadAllCrashesJson[k] = Sidecars[g[k]]
  <2>1. \A k \in 1 .. w : g[k] \in W
    BY <1>11 DEF IsAscending
  <2>2. \A k \in 1 .. w : Kept[g[k]] = Sidecars[g[k]]
    BY <1>8, <1>9, <2>1
  <2>3. QED
    BY <1>10, <1>11, <2>2
<1>13. ArchiveIs(n, f, g, c, m, w)
  BY <1>1, <1>2, <1>4, <1>7, <1>9, <1>11, <1>12, Zenon DEF ArchiveIs, m
<1>14. QED
  BY <1>13

LEMMA FirstOfAscending ==
  ASSUME NEW n \in Nat, NEW T \in SUBSET (1 .. n), NEW f, IsAscending(f, T), 1 \in T
  PROVE  Cardinality(T) >= 1 /\ f[1] = 1
<1>1. PICK i \in 1 .. Cardinality(T) : f[i] = 1
  BY DEF IsAscending
<1>2. Cardinality(T) \in Nat /\ Cardinality(T) >= 1 /\ 1 \in 1 .. Cardinality(T)
  BY <1>1 DEF IsAscending
<1>3. f[1] \in 1 .. n
  BY <1>2 DEF IsAscending
<1>4. i # 1 => f[1] < f[i]
  BY <1>1, <1>2 DEF IsAscending
<1>5. QED
  BY <1>1, <1>2, <1>3, <1>4

LEMMA ArchiveIsNewest ==
  ASSUME FolderTypes, TimesGrow
  PROVE  ArchiveShowsNewest
<1> DEFINE n == Len(reports)
<1>1. n \in Nat /\ DOMAIN reports = 1 .. n /\ reports \in Seq(Report)
      /\ \A i \in 1 .. n : reports[i].time \in Nat
  BY Fields DEF FolderTypes
<1>2. PICK f, g, c, m, w : ArchiveIs(n, f, g, c, m, w)
  BY <1>1, ArchiveOf
<1> HIDE DEF n
<1> DEFINE S == {i \in 1 .. n : Newest[i].json # "none"}
           W == {i \in 1 .. m : Sidecars[i].json = "whole"}
           shown == ReadAllCrashesJson
<1>3. /\ Len(Newest) = n /\ \A i \in 1 .. n : Newest[i] = reports[n - i + 1]
      /\ c = Cardinality(S) /\ IsAscending(f, S)
      /\ Sidecars = [k \in 1 .. c |-> Newest[f[k]]] /\ Len(Sidecars) = c
      /\ m = (IF c > Cap THEN Cap ELSE c)
      /\ w = Cardinality(W) /\ IsAscending(g, W)
      /\ DOMAIN shown = 1 .. w
      /\ \A k \in 1 .. w : shown[k] = Sidecars[g[k]]
  BY <1>2, Zenon DEF ArchiveIs
<1>4. /\ c \in Nat /\ w \in Nat /\ f \in [1 .. c -> S] /\ g \in [1 .. w -> W]
      /\ \A i, j \in 1 .. c : i < j => f[i] < f[j]
      /\ \A i, j \in 1 .. w : i < j => g[i] < g[j]
      /\ \A t \in S : \E i \in 1 .. c : f[i] = t
      /\ \A t \in W : \E i \in 1 .. w : g[i] = t
  BY <1>3 DEF IsAscending
<1>5. m \in Nat /\ m <= c /\ Cap \in Nat /\ Cap >= 1 /\ (m = c \/ (m = Cap /\ c > Cap))
  <2>1. m = IF c > Cap THEN Cap ELSE c
    BY <1>3
  <2>2. c \in Nat
    BY <1>4
  <2>3. QED
    BY ONLY <2>1, <2>2, CrashFolderAssumption
<1>6. S \in SUBSET (1 .. n) /\ W \in SUBSET (1 .. m)
  OBVIOUS
<1>s. /\ \A i \in 1 .. n : Newest[i].json # "none" => i \in S
      /\ \A i \in 1 .. m : Sidecars[i].json = "whole" => i \in W
  OBVIOUS
<1> HIDE DEF S, W, shown
\* The archive is in the order of the times.
<1>7. ASSUME NEW i \in DOMAIN shown, NEW j \in DOMAIN shown, i < j PROVE shown[i].time > shown[j].time
  <2>1. g[i] \in 1 .. m /\ g[j] \in 1 .. m /\ g[i] < g[j]
    BY <1>3, <1>4, <1>6, <1>7
  <2>2. g[i] \in 1 .. c /\ g[j] \in 1 .. c
    BY <1>4, <1>5, <2>1
  <2>3. f[g[i]] \in 1 .. n /\ f[g[j]] \in 1 .. n /\ f[g[i]] < f[g[j]]
    BY <1>4, <1>6, <2>1, <2>2
  <2>4. shown[i] = reports[n - f[g[i]] + 1] /\ shown[j] = reports[n - f[g[j]] + 1]
    BY <1>3, <1>7, <2>2, <2>3
  <2>5. n - f[g[j]] + 1 \in 1 .. n /\ n - f[g[i]] + 1 \in 1 .. n /\ n - f[g[j]] + 1 < n - f[g[i]] + 1
    BY ONLY <1>1, <2>3
  <2>6. reports[n - f[g[j]] + 1].time < reports[n - f[g[i]] + 1].time
    BY <1>1, <2>5 DEF TimesGrow
  <2>7. reports[n - f[g[j]] + 1].time \in Nat /\ reports[n - f[g[i]] + 1].time \in Nat
    BY <1>1, <2>5
  <2>8. QED
    BY <2>4, <2>6, <2>7
\* Whoever is not shown has Cap sidecars before it.
<1>8. ASSUME NEW i \in DOMAIN reports, reports[i].json = "whole", reports[i] \notin Range(shown)
      PROVE  Cardinality({j \in DOMAIN reports : j > i /\ reports[j].json # "none"}) >= Cap
  <2>1. n - i + 1 \in 1 .. n /\ Newest[n - i + 1] = reports[i]
    <3>1. i \in 1 .. n
      BY <1>1
    <3>2. n - i + 1 \in 1 .. n /\ n - (n - i + 1) + 1 = i
      BY ONLY <1>1, <3>1
    <3>3. QED
      BY <1>3, <3>2
  <2>2. PICK k \in 1 .. c : f[k] = n - i + 1
    BY <1>4, <1>8, <1>s, <2>1
  <2>3. ~(k <= m)
    <3>1. SUFFICES ASSUME k <= m PROVE FALSE
      OBVIOUS
    <3>2. k \in 1 .. m
      BY ONLY <1>4, <1>5, <3>1, k \in 1 .. c
    <3>3. Sidecars[k] = reports[i]
      BY <1>3, <2>1, <2>2
    <3>4. PICK l \in 1 .. w : g[l] = k
      BY <1>4, <1>8, <1>s, <3>2, <3>3
    <3>5. l \in DOMAIN shown /\ shown[l] = reports[i]
      BY <1>3, <3>3, <3>4
    <3>6. QED
      BY <1>8, <3>5 DEF Range
  <2>4. m = Cap /\ Cap < k
    BY ONLY <1>4, <1>5, <2>3, k \in 1 .. c
  <2> DEFINE T == {j \in DOMAIN reports : j > i /\ reports[j].json # "none"}
             h == [q \in 1 .. Cap |-> n - f[q] + 1]
  <2>5. ASSUME NEW q \in 1 .. Cap PROVE h[q] \in T /\ q \in 1 .. c /\ f[q] \in 1 .. n
    <3>1. q \in 1 .. c /\ q < k
      BY ONLY <1>4, <1>5, <2>4, q \in 1 .. Cap, k \in 1 .. c
    <3>2. f[q] \in S /\ f[q] \in 1 .. n /\ f[q] < n - i + 1
      BY <1>4, <1>6, <2>2, <3>1
    <3>3. n - f[q] + 1 \in 1 .. n /\ n - f[q] + 1 > i
      <4>1. i \in 1 .. n
        BY <1>1
      <4>2. QED
        BY ONLY <1>1, <3>2, <4>1
    <3>4. reports[n - f[q] + 1].json # "none"
      BY <1>3, <3>2 DEF S
    <3>5. QED
      BY <1>1, <3>1, <3>2, <3>3, <3>4
  <2>6. h \in Injection(1 .. Cap, T)
    <3>1. h \in [1 .. Cap -> T]
      BY <2>5
    <3>2. ASSUME NEW q \in 1 .. Cap, NEW r \in 1 .. Cap, h[q] = h[r] PROVE q = r
      <4>1. f[q] = f[r]
        <5>1. n - f[q] + 1 = n - f[r] + 1
          BY <3>2
        <5>2. QED
          BY ONLY <1>1, <2>5, <5>1
      <4>2. f[q] \in 1 .. n
        BY <2>5
      <4>3. q \in 1 .. c /\ r \in 1 .. c
        BY <2>5
      <4>4. ~(q < r) /\ ~(r < q)
        BY <1>4, <4>1, <4>2, <4>3
      <4>5. QED
        BY <4>3, <4>4
    <3> HIDE DEF h, T
    <3>3. QED
      BY <3>1, <3>2 DEF Injection, IsInjective
  <2>7. IsFiniteSet(T)
    <3>1. T \in SUBSET (1 .. n)
      BY <1>1
    <3>2. IsFiniteSet(1 .. n)
      BY <1>1, FS_Interval
    <3>3. QED
      BY <3>1, <3>2, FS_Subset
  <2> HIDE DEF T, h
  <2>8. Cardinality(1 .. Cap) <= Cardinality(T) /\ Cardinality(1 .. Cap) = Cap /\ Cardinality(T) \in Nat
    BY <1>5, <2>6, <2>7, FS_Injection, FS_Interval, FS_CardinalityType
  <2>9. Cardinality(T) >= Cap
    BY <1>5, <2>8
  <2>10. QED
    BY <2>9 DEF T
<1>9. ASSUME c >= 1, Sidecars[1].json = "whole" PROVE shown[1] = Sidecars[1]
  <2>1. 1 \in 1 .. m
    BY <1>4, <1>5, <1>9
  <2>2. 1 \in W
    BY <1>9, <1>s, <2>1
  <2>3. w >= 1 /\ g[1] = 1
    BY <1>3, <1>5, <1>6, <2>2, FirstOfAscending
  <2>4. 1 \in 1 .. w
    BY <1>4, <2>3
  <2>5. shown[1] = Sidecars[g[1]]
    BY <1>3, <2>4
  <2>6. QED
    BY <2>3, <2>5
<1>10. ASSUME Sidecars # <<>>, GetLatestCrashJson.json = "whole" PROVE shown[1] = GetLatestCrashJson
  <2>1. c >= 1
    <3>1. c = 0 => Sidecars = <<>>
      BY <1>3
    <3>2. QED
      BY <1>4, <1>10, <3>1
  <2>2. QED
    BY <1>9, <1>10, <2>1 DEF GetLatestCrashJson
<1>11. ASSUME reports # <<>>, GetLatestCrashReport.json = "whole" PROVE shown[1] = GetLatestCrashReport
  <2>1. 1 \in 1 .. n
    BY <1>1, <1>11 DEF n
  <2>2. 1 \in S
    BY <1>11, <1>s, <2>1 DEF GetLatestCrashReport
  <2>3. c >= 1 /\ f[1] = 1
    BY <1>1, <1>3, <1>6, <2>2, FirstOfAscending
  <2>4. Sidecars[1] = Newest[1]
    BY <1>3, <1>4, <2>3
  <2>5. QED
    BY <1>9, <1>11, <2>3, <2>4 DEF GetLatestCrashReport
<1>12. QED
  BY <1>7, <1>8, <1>10, <1>11 DEF ArchiveShowsNewest, shown

LEMMA FolderInductive == FolderSpec => []FolderInv
<1>1. FolderInit => FolderInv
  BY FolderInitInv
<1>2. FolderInv /\ [FolderNext]_folderVars => FolderInv'
  BY FolderTypesStep, ApartStep, ThisLaunchStep, OwnDumpsStep, WalkStep, FatalStep, BootEnrichesStep,
     TimesGrowStep DEF FolderInv
<1>3. QED
  BY <1>1, <1>2, PTL DEF FolderSpec

----------------------------------------------------------------------------
\* The report of the crash that ended a launch never shows the engine state of another launch
\* whose dump has its process identifier, if the launch left a dump of its own, for any tolerance
\* that a dump's lag stays within.
THEOREM EngineStateIsOfTheCrash == FolderSpec => []FatalReportHasOwnState
<1>1. FolderInv => FatalReportHasOwnState
  BY DEF FolderInv
<1>2. QED
  BY <1>1, FolderInductive, PTL

\* A boot that nothing disturbed has given every report its engine state whose dump was there,
\* however many there are and wherever earlier boots were cut.
THEOREM BootLeavesNoneBehind == FolderSpec => []BootEnrichesAll
<1>1. FolderInv => BootEnrichesAll
  BY DEF FolderInv
<1>2. QED
  BY <1>1, FolderInductive, PTL

\* The archive shows the newest crashes in their order, and leaves out one with a whole sidecar
\* only when as many sidecars as it reads are newer, for any number of crashes and any cap.
THEOREM ArchiveIsComplete == FolderSpec => []ArchiveShowsNewest
<1>1. FolderInv => ArchiveShowsNewest
  BY ArchiveIsNewest DEF FolderInv
<1>2. QED
  BY <1>1, FolderInductive, PTL

-----------------------------------------------------------------------------
(* The game folder *)

\* The overlay, when it is known, is what the list overlays as far as it can be read.
LEMMA OverlayIs ==
  ASSUME NEW game, NEW overlay, overlay = CollectMO2OverlayRelpaths(game)
  PROVE  /\ overlay.known \in BOOLEAN
         /\ overlay.known => /\ game.usvfs /\ game.mo2 # NoMO2
                             /\ overlay.files = Overlays(game.mo2) \ game.mo2.unread
<1> DEFINE over == UNION {game.mo2.files[l.name] : l \in {k \in Range(game.mo2.modlist) : IsMod(k) /\ k.prefix = "+"}}
                     \cup game.mo2.overwrite
           unread == game.mo2.unread
           none == ~game.usvfs \/ game.mo2 = NoMO2 \/ ResolveMO2Profile(game.mo2) = ""
<1>1. overlay = IF none THEN NoOverlay ELSE [known |-> TRUE, files |-> over \ unread]
  BY Zenon DEF CollectMO2OverlayRelpaths
<1>2. over = Overlays(game.mo2)
  BY DEF Overlays, Range
<1> HIDE DEF over, unread
<1>3. CASE none
  <2>1. overlay = NoOverlay
    BY <1>1, <1>3, Zenon
  <2>2. QED
    BY <2>1 DEF NoOverlay
<1>4. CASE ~none
  <2>1. overlay = [known |-> TRUE, files |-> over \ unread]
    BY <1>1, <1>4, Zenon
  <2>2. overlay.known = TRUE /\ overlay.files = over \ unread
    BY <2>1
  <2>3. QED
    BY <1>2, <1>4, <2>2 DEF unread
<1>5. QED
  BY <1>3, <1>4

\* What the scan takes for the files of a manager.
Accounted(game) ==
  IF CollectMO2OverlayRelpaths(game).known THEN CollectMO2OverlayRelpaths(game).files
  ELSE IF DetectManager(game) = "Vortex" THEN ParseVortexManifest(game.manifest)
  ELSE IF DetectManager(game) = "MO2" THEN game.deployed \cup game.unopened ELSE {}

LEMMA ClassIs ==
  ASSUME NEW game, NEW f
  PROVE  Class(game, CollectMO2OverlayRelpaths(game), f) = "loose"
           <=> f.role # "framework" /\ f.dir \notin kLoaders /\ f \notin Accounted(game)
<1>1. CollectMO2OverlayRelpaths(game).known \in BOOLEAN
  BY OverlayIs
<1>2. QED
  BY <1>1 DEF Class, Accounted, IsPhysicalInGame

LEMMA LooseIs ==
  ASSUME NEW game
  PROVE  /\ DetectLooseFiles(game).loose
              = {f \in Scanned(game) : f.role # "framework" /\ f.dir \notin kLoaders /\ f \notin Accounted(game)}
         /\ DetectLooseFiles(game).manager = DetectManager(game)
<1>1. /\ DetectLooseFiles(game).loose
            = {f \in Scanned(game) : Class(game, CollectMO2OverlayRelpaths(game), f) = "loose"}
      /\ DetectLooseFiles(game).manager = DetectManager(game)
  BY DEF DetectLooseFiles, Scan
<1>2. QED
  BY <1>1, ClassIs

LEMMA ManagerIs ==
  ASSUME NEW game
  PROVE  DetectManager(game) = IF game.usvfs THEN "MO2"
                               ELSE IF game.manifest # NoManifest \/ game.v2077 THEN "Vortex" ELSE "None"
  BY DEF DetectManager

\* With Mod Organizer only a file that its list does not give is loose though it is deployed.
LEMMA OrganizedLoose ==
  ASSUME NEW game, game.usvfs, NEW f \in DetectLooseFiles(game).loose, f \in game.deployed
  PROVE  game.mo2 # NoMO2 /\ (f \notin Overlays(game.mo2) \/ f \in game.mo2.unread)
<1>1. f \notin Accounted(game)
  BY LooseIs
<1>2. CollectMO2OverlayRelpaths(game).known
  BY <1>1, ManagerIs, OverlayIs DEF Accounted
<1>3. QED
  BY <1>1, <1>2, OverlayIs DEF Accounted

\* A file that is loose is one of a directory of mods, and there.
LEMMA LooseIsThere ==
  ASSUME NEW game, NEW f \in DetectLooseFiles(game).loose
  PROVE  /\ f.dir \in kModDirs /\ f.role \notin {"framework", "vanilla", "marker"}
         /\ f \in game.files \/ (game.usvfs /\ f \in game.deployed)
  BY LooseIs DEF Scanned, Visible

LEMMA StrayIsFound ==
  ASSUME NEW game
  PROVE  StrayFileIsFound(game)
<1> DEFINE hidden == game.unseen \cup IF game.usvfs THEN game.unopened ELSE {}
<1>1. ASSUME NEW f \in game.files \ (game.deployed \cup Listed(game) \cup hidden),
             f.role = "mod", f.dir \in kModDirs
      PROVE  f \in DetectLooseFiles(game).loose
  <2>1. f \in Scanned(game)
    BY <1>1 DEF Scanned, Visible
  <2>2. f.role # "framework" /\ f.dir \notin kLoaders
    BY <1>1 DEF kModDirs, kLoaders
  <2>3. f \notin Listed(game) /\ f \notin game.deployed /\ (game.usvfs => f \notin game.unopened)
    BY <1>1
  <2>4. f \notin Accounted(game)
    <3>1. CASE CollectMO2OverlayRelpaths(game).known
      BY <2>3, <3>1, OverlayIs DEF Accounted, Listed
    <3>2. CASE ~CollectMO2OverlayRelpaths(game).known
      BY <2>3, <3>2, ManagerIs DEF Accounted, Listed, ParseVortexManifest
    <3>3. QED
      BY <3>1, <3>2
  <2>5. QED
    BY <2>1, <2>2, <2>4, LooseIs
<1>2. QED
  BY <1>1 DEF StrayFileIsFound

LEMMA CleanIsClean ==
  ASSUME NEW game
  PROVE  CleanAfterPlan(game)
  BY DEF CleanAfterPlan, PlanFullClean, kModDirs, kLoaders

LEMMA UnknownWith ==
  ASSUME NEW manager, NEW m
  PROVE  [Unknown(manager) EXCEPT !.mods = m] = [manager |-> manager, mods |-> m, truncated |-> 0]
<1> DEFINE d == Unknown(manager)
           e == [d EXCEPT !.mods = m]
<1>1. d = [manager |-> manager, mods |-> <<>>, truncated |-> 0]
  BY DEF Unknown
<1>2. e = [d EXCEPT !.mods = m]
  OBVIOUS
<1> HIDE DEF d, e
<1>3. e = [manager |-> manager, mods |-> m, truncated |-> 0]
  BY ONLY <1>1, <1>2
<1>4. QED
  BY <1>3 DEF e, d

\* The inventory keeps its first mods.
Clamped(manager, mods) == ClampToCap([Unknown(manager) EXCEPT !.mods = mods]).mods

LEMMA ClampedIs ==
  ASSUME NEW S, NEW m \in Seq(S), NEW manager, NEW i \in DOMAIN Clamped(manager, m)
  PROVE  i \in DOMAIN m /\ Clamped(manager, m)[i] = m[i]
<1> DEFINE n == Len(m)
<1>n. n \in Nat /\ DOMAIN m = 1 .. n
  OBVIOUS
<1> DEFINE inv == [Unknown(manager) EXCEPT !.mods = m]
<1>0. inv = [manager |-> manager, mods |-> m, truncated |-> 0]
  BY UnknownWith, Zenon
<1>a. i \in DOMAIN ClampToCap(inv).mods /\ Clamped(manager, m) = ClampToCap(inv).mods
  BY DEF Clamped
<1>1. inv.mods = m /\ Len(inv.mods) = n
  BY <1>0
<1> HIDE DEF inv, n
<1>2. CASE n <= kMaxInstalledMods
  <2>1. ClampToCap(inv) = inv
    BY <1>1, <1>2 DEF ClampToCap
  <2>2. QED
    BY <1>a, <1>1, <2>1
<1>3. CASE ~(n <= kMaxInstalledMods)
  <2> DEFINE k == kMaxInstalledMods
             first == SubSeq(m, 1, k)
  <2>1. k \in Nat /\ k <= n
    BY <1>3, <1>n, GamesAssumption
  <2>2. ClampToCap(inv) = [inv EXCEPT !.truncated = n - k, !.mods = first]
    BY <1>1, <1>3 DEF ClampToCap
  <2>3. DOMAIN first = 1 .. k /\ \A j \in 1 .. k : first[j] = m[j]
    BY <1>n, <2>1 DEF n
  <2> HIDE DEF first, k
  <2>4. ClampToCap(inv).mods = first
    BY <1>0, <2>2
  <2>5. i \in 1 .. k /\ first[i] = m[i]
    BY <1>a, <2>3, <2>4
  <2>6. i \in DOMAIN m
    BY <1>n, <2>1, <2>5
  <2>7. QED
    BY <1>a, <2>4, <2>5, <2>6
<1>4. QED
  BY <1>2, <1>3

LEMMA SetToSeqIs ==
  ASSUME NEW S, IsFiniteSet(S)
  PROVE  Cardinality(S) \in Nat /\ SetToSeq(S) \in [1 .. Cardinality(S) -> S]
<1>1. Cardinality(S) \in Nat
  BY FS_CardinalityType
<1>2. \E f \in [1 .. Cardinality(S) -> S] : IsInjective(f)
  <2>1. \E n \in Nat : ExistsBijection(1 .. n, S)
    BY FS_NatBijection
  <2>2. PICK n \in Nat : ExistsBijection(1 .. n, S)
    BY <2>1
  <2>3. Cardinality(S) = n
    BY <2>2, FS_CountingElements
  <2>4. PICK f \in Bijection(1 .. n, S) : TRUE
    BY <2>2 DEF ExistsBijection
  <2>5. f \in [1 .. n -> S] /\ IsInjective(f)
    BY <2>4 DEF Bijection, Injection
  <2>6. QED
    BY <2>3, <2>5
<1>3. QED
  BY <1>1, <1>2, Zenon DEF SetToSeq

Kinds == {"Cet", "TweakXL"}
DirOf(kind) == IF kind = "Cet" THEN "cet" ELSE "tweaks"

LEMMA ClassifiedHas ==
  ASSUME NEW files, NEW kind \in Kinds, ClassifyMO2Mod(files) = kind
  PROVE  \E f \in files : f.dir = DirOf(kind)
  BY DEF ClassifyMO2Mod, Kinds, DirOf

\* A mod that the inventory calls enabled, and of a kind, has a file of it.
LEMMA OrganizedModIsThere ==
  ASSUME NEW game \in Games, game.usvfs, game.mo2 # NoMO2, NEW kind \in Kinds,
         NEW i \in DOMAIN EnumerateMO2(game.mo2).mods,
         EnumerateMO2(game.mo2).mods[i].enabled, EnumerateMO2(game.mo2).mods[i].type = kind
  PROVE  \E j \in DOMAIN game.mo2.modlist :
           /\ game.mo2.modlist[j].prefix = "+" /\ IsMod(game.mo2.modlist[j])
           /\ \E f \in game.mo2.files[game.mo2.modlist[j].name] : f.dir = DirOf(kind)
<1> DEFINE mo2 == game.mo2
           T == {j \in DOMAIN mo2.modlist : IsMod(mo2.modlist[j])}
           lines == Selected(mo2.modlist, T)
           mods == [k \in DOMAIN lines |->
                     [name |-> lines[k].name, enabled |-> lines[k].prefix = "+",
                      type |-> ClassifyMO2Mod(IF mo2.defaultDirs THEN mo2.files[lines[k].name] ELSE {})]]
           inv == [Unknown("MO2") EXCEPT !.mods = mods]
<1>1. IsModList(mo2)
  BY GamesAssumption
<1>2. ResolveMO2Profile(mo2) # ""
  <2>1. SUFFICES ASSUME ResolveMO2Profile(mo2) = "" PROVE FALSE
    OBVIOUS
  <2>2. EnumerateMO2(mo2) = Unknown("MO2")
    BY <2>1 DEF EnumerateMO2
  <2>3. QED
    BY <2>2 DEF Unknown
<1>3. EnumerateMO2(mo2) = ClampToCap(inv)
  BY <1>2, Zenon DEF EnumerateMO2
<1>4. Len(mo2.modlist) \in Nat /\ DOMAIN mo2.modlist = 1 .. Len(mo2.modlist)
  BY <1>1 DEF IsModList
<1>5. PICK f : /\ IsAscending(f, T) /\ lines = [k \in 1 .. Cardinality(T) |-> mo2.modlist[f[k]]]
  <2>1. T \in SUBSET (1 .. Len(mo2.modlist))
    BY <1>4
  <2>2. lines = Selected(mo2.modlist, T)
    OBVIOUS
  <2> DEFINE s == mo2.modlist
             m == Len(s)
  <2> HIDE DEF T, lines, s, m
  <2>3. m \in Nat /\ T \in SUBSET (1 .. m)
    BY <1>4, <2>1 DEF m, s
  <2>4. PICK f : /\ IsAscending(f, T) /\ Selected(s, T) = [k \in 1 .. Cardinality(T) |-> s[f[k]]]
                 /\ Len(Selected(s, T)) = Cardinality(T)
    BY <2>3, SelectedIs
  <2>5. QED
    BY <2>2, <2>4 DEF s
<1>6. Cardinality(T) \in Nat /\ \A k \in 1 .. Cardinality(T) : f[k] \in T
  BY <1>5 DEF IsAscending
<1> DEFINE n == Cardinality(T)
<1>7. DOMAIN lines = 1 .. n /\ \A k \in 1 .. n : lines[k] = mo2.modlist[f[k]]
  BY <1>5
<1> HIDE DEF T, lines, n
<1>8. mods \in [1 .. n -> {mods[k] : k \in 1 .. n}]
  BY <1>7
<1>9. i \in 1 .. n /\ EnumerateMO2(mo2).mods[i] = mods[i]
  <2> DEFINE M == {mods[k] : k \in 1 .. n}
  <2>1. EnumerateMO2(mo2).mods = Clamped("MO2", mods)
    BY <1>3, Zenon DEF Clamped
  <2>2. n \in Nat
    BY <1>6 DEF n
  <2>3. mods \in [1 .. n -> M] /\ DOMAIN mods = 1 .. n
    BY <1>8
  <2> HIDE DEF mods, M
  <2>4. i \in DOMAIN Clamped("MO2", mods)
    BY <2>1, Zenon
  <2>5. i \in DOMAIN mods /\ Clamped("MO2", mods)[i] = mods[i]
    <3>1. mods \in Seq(M)
      BY <2>2, <2>3
    <3>2. QED
      BY ONLY <2>4, <3>1, ClampedIs
  <2>6. i \in DOMAIN mods /\ EnumerateMO2(mo2).mods[i] = mods[i]
    BY <2>1, <2>5, Zenon
  <2>7. QED
    BY <2>3, <2>6
<1> DEFINE line == mo2.modlist[f[i]]
<1>10. /\ mods[i].enabled = (line.prefix = "+")
       /\ mods[i].type = ClassifyMO2Mod(IF mo2.defaultDirs THEN mo2.files[line.name] ELSE {})
  BY <1>7, <1>9
<1>11. line.prefix = "+" /\ f[i] \in T
  BY <1>6, <1>9, <1>10 DEF n
<1>12. PICK x \in mo2.files[line.name] : x.dir = DirOf(kind)
  <2> DEFINE listed == IF mo2.defaultDirs THEN mo2.files[line.name] ELSE {}
  <2>1. listed \subseteq mo2.files[line.name]
    OBVIOUS
  <2>2. ClassifyMO2Mod(listed) = kind
    BY <1>9, <1>10
  <2> HIDE DEF listed
  <2>3. QED
    BY <2>1, <2>2, ClassifiedHas
<1>13. f[i] \in DOMAIN mo2.modlist /\ IsMod(line)
  BY <1>11 DEF T
<1>14. QED
  BY <1>11, <1>12, <1>13

LEMMA NativeModIsThere ==
  ASSUME NEW game \in Games, NEW kind \in Kinds,
         NEW i \in DOMAIN EnumerateNative(game.files).mods,
         EnumerateNative(game.files).mods[i].type = kind
  PROVE  \E f \in game.files : f.dir = DirOf(kind)
<1> DEFINE S == {f \in game.files : IsNativeMod(f)}
           files == SetToSeq(S)
           mods == [k \in DOMAIN files |-> [name |-> files[k].name, enabled |-> TRUE, type |-> NativeType(files[k])]]
           inv == [Unknown("None") EXCEPT !.mods = mods]
           n == Cardinality(S)
<1>1. EnumerateNative(game.files) = ClampToCap(inv)
  BY Zenon DEF EnumerateNative
<1>2. n \in Nat /\ files \in [1 .. n -> S]
  <2>1. IsFiniteSet(S)
    <3>1. S \in SUBSET game.files /\ IsFiniteSet(game.files)
      BY GamesAssumption
    <3> HIDE DEF S
    <3>2. QED
      BY <3>1, FS_Subset
  <2> HIDE DEF S
  <2>2. QED
    BY <2>1, SetToSeqIs
<1>3. S \in SUBSET game.files
  OBVIOUS
<1> HIDE DEF S, files, n
<1>4. mods \in [1 .. n -> {mods[k] : k \in 1 .. n}]
  BY <1>2
<1>5. i \in 1 .. n /\ EnumerateNative(game.files).mods[i] = mods[i]
  <2> DEFINE M == {mods[k] : k \in 1 .. n}
  <2>1. EnumerateNative(game.files).mods = Clamped("None", mods)
    BY <1>1, Zenon DEF Clamped
  <2>2. n \in Nat
    BY <1>2
  <2>3. mods \in [1 .. n -> M] /\ DOMAIN mods = 1 .. n
    BY <1>4
  <2> HIDE DEF mods, M
  <2>4. i \in DOMAIN Clamped("None", mods)
    BY <2>1, Zenon
  <2>5. i \in DOMAIN mods /\ Clamped("None", mods)[i] = mods[i]
    <3>1. mods \in Seq(M)
      BY <2>2, <2>3
    <3>2. QED
      BY ONLY <2>4, <3>1, ClampedIs
  <2>6. i \in DOMAIN mods /\ EnumerateNative(game.files).mods[i] = mods[i]
    BY <2>1, <2>5, Zenon
  <2>7. QED
    BY <2>3, <2>6
<1>6. mods[i].type = NativeType(files[i]) /\ files[i] \in S
  BY <1>2, <1>5
<1>7. NativeType(files[i]) = kind
  BY <1>5, <1>6
<1>8. files[i].dir = DirOf(kind)
  BY <1>7 DEF NativeType, Kinds, DirOf
<1>9. QED
  BY <1>3, <1>6, <1>8

LEMMA VortexModIsUnknown ==
  ASSUME NEW sources, IsFiniteSet(sources), NEW i \in DOMAIN EnumerateVortex(sources).mods
  PROVE  EnumerateVortex(sources).mods[i].type = "Unknown"
<1> DEFINE n == Cardinality(sources)
           mods == [k \in 1 .. n |-> [name |-> SetToSeq(sources)[k], enabled |-> TRUE, type |-> "Unknown"]]
           inv == [Unknown("Vortex") EXCEPT !.mods = mods]
<1>1. EnumerateVortex(sources) = ClampToCap(inv)
  BY Zenon DEF EnumerateVortex
<1>2. n \in Nat
  BY FS_CardinalityType
<1> HIDE DEF n
<1>3. mods \in [1 .. n -> {mods[k] : k \in 1 .. n}] /\ \A k \in 1 .. n : mods[k].type = "Unknown"
  OBVIOUS
<1>4. i \in 1 .. n /\ EnumerateVortex(sources).mods[i] = mods[i]
  <2> DEFINE M == {mods[k] : k \in 1 .. n}
  <2>1. EnumerateVortex(sources).mods = Clamped("Vortex", mods)
    BY <1>1, Zenon DEF Clamped
  <2>2. n \in Nat
    BY <1>2
  <2>3. mods \in [1 .. n -> M] /\ DOMAIN mods = 1 .. n
    BY <1>3
  <2> HIDE DEF mods, M
  <2>4. i \in DOMAIN Clamped("Vortex", mods)
    BY <2>1, Zenon
  <2>5. i \in DOMAIN mods /\ Clamped("Vortex", mods)[i] = mods[i]
    <3>1. mods \in Seq(M)
      BY <2>2, <2>3
    <3>2. QED
      BY ONLY <2>4, <3>1, ClampedIs
  <2>6. i \in DOMAIN mods /\ EnumerateVortex(sources).mods[i] = mods[i]
    BY <2>1, <2>5, Zenon
  <2>7. QED
    BY <2>3, <2>6
<1>5. QED
  BY <1>3, <1>4

\* The mods of the inventory that want CET or TweakXL are there.
HasMod(game, dir) ==
  IF game.usvfs
  THEN game.mo2 # NoMO2 /\ \E i \in DOMAIN game.mo2.modlist :
         /\ game.mo2.modlist[i].prefix = "+" /\ IsMod(game.mo2.modlist[i])
         /\ \E f \in game.mo2.files[game.mo2.modlist[i].name] : f.dir = dir
  ELSE \E f \in game.files : f.dir = dir

LEMMA EnabledModIsThere ==
  ASSUME NEW game \in Games, NEW kind \in Kinds,
         NEW i \in DOMAIN EnumerateInstalled(game).mods,
         EnumerateInstalled(game).mods[i].enabled, EnumerateInstalled(game).mods[i].type = kind
  PROVE  HasMod(game, DirOf(kind))
<1>1. CASE game.usvfs /\ game.mo2 = NoMO2
  <2>1. EnumerateInstalled(game) = Unknown("MO2")
    BY <1>1 DEF EnumerateInstalled
  <2>2. QED
    BY <2>1 DEF Unknown
<1>2. CASE game.usvfs /\ game.mo2 # NoMO2
  <2>1. EnumerateInstalled(game) = EnumerateMO2(game.mo2)
    BY <1>2 DEF EnumerateInstalled
  <2>2. QED
    BY <1>2, <2>1, OrganizedModIsThere DEF HasMod
<1>3. CASE ~game.usvfs /\ game.oldManifest # NoManifest
  <2>1. EnumerateInstalled(game) = EnumerateVortex(game.oldManifest)
    BY <1>3 DEF EnumerateInstalled
  <2>2. IsFiniteSet(game.oldManifest)
    BY <1>3, GamesAssumption
  <2>3. EnumerateVortex(game.oldManifest).mods[i].type = "Unknown"
    BY <2>1, <2>2, VortexModIsUnknown
  <2>4. QED
    BY <2>1, <2>3 DEF Kinds
<1>4. CASE ~game.usvfs /\ game.oldManifest = NoManifest
  <2>1. EnumerateInstalled(game) = EnumerateNative(game.files)
    BY <1>4 DEF EnumerateInstalled
  <2>2. \E f \in game.files : f.dir = DirOf(kind)
    BY <2>1, NativeModIsThere
  <2>3. QED
    BY <1>4, <2>2 DEF HasMod
<1>5. QED
  BY <1>1, <1>2, <1>3, <1>4

\* What an issue says.
IsEnabled(inv, type) == \E i \in DOMAIN inv.mods : inv.mods[i].enabled /\ inv.mods[i].type = type
Says(inv, loose, issue) ==
  /\ issue = "no-cet" => IsEnabled(inv, "Cet")
  /\ issue = "no-tweakxl" => IsEnabled(inv, "TweakXL")
  /\ issue = "loose-files-mo2" => loose.manager = "MO2" /\ loose.loose # {}
  /\ issue = "loose-files-native" => loose.manager = "None" /\ loose.loose # {}

IssueKinds == {"no-cet", "no-tweakxl", "plugin-load-failure", "loose-files-unverified", "loose-files-mo2", "loose-files-native"}

LEMMA IssueIn ==
  ASSUME NEW S, NEW kind, NEW holds \in BOOLEAN, holds => kind \in S
  PROVE  (IF holds THEN <<kind>> ELSE <<>>) \in Seq(S)
  OBVIOUS

LEMMA IssuesSay ==
  ASSUME NEW inv, NEW frameworks, NEW loadFailures, NEW loose,
         NEW issue \in Range(ComputeSetupIntegrity(inv, frameworks, loadFailures, loose))
  PROVE  Says(inv, loose, issue)
<1> DEFINE S == {k \in IssueKinds : Says(inv, loose, k)}
           Issue(kind, holds) == IF holds THEN <<kind>> ELSE <<>>
           cet == Issue("no-cet", IsEnabled(inv, "Cet") /\ "cet" \notin frameworks)
           tweakxl == Issue("no-tweakxl", IsEnabled(inv, "TweakXL") /\ "tweakxl" \notin frameworks)
           failed == Issue("plugin-load-failure", loadFailures > 0)
           unverified == loose.manager = "MO2" /\ loose.mo2Unreliable
           unseen == Issue("loose-files-unverified", unverified)
           mo2 == Issue("loose-files-mo2", ~unverified /\ loose.manager = "MO2" /\ loose.loose # {})
           native == Issue("loose-files-native", ~unverified /\ loose.manager = "None" /\ loose.loose # {})
           issues == cet \o tweakxl \o failed \o unseen \o mo2 \o native
           n == IF Len(issues) > kMaxSetupIssues THEN kMaxSetupIssues ELSE Len(issues)
<1>1. ComputeSetupIntegrity(inv, frameworks, loadFailures, loose) = SubSeq(issues, 1, n)
  BY Zenon DEF ComputeSetupIntegrity, IsEnabled
<1>2. cet \in Seq(S) /\ tweakxl \in Seq(S) /\ failed \in Seq(S) /\ unseen \in Seq(S) /\ mo2 \in Seq(S) /\ native \in Seq(S)
  <2>1. /\ "no-cet" \in S <=> Says(inv, loose, "no-cet")
        /\ "no-tweakxl" \in S <=> Says(inv, loose, "no-tweakxl")
        /\ "loose-files-mo2" \in S <=> Says(inv, loose, "loose-files-mo2")
        /\ "loose-files-native" \in S <=> Says(inv, loose, "loose-files-native")
    BY DEF IssueKinds
  <2>2. "plugin-load-failure" \in S /\ "loose-files-unverified" \in S
    BY DEF Says, IssueKinds
  <2> HIDE DEF S
  <2>3. cet \in Seq(S)
    BY <2>1, IssueIn DEF Says
  <2>4. tweakxl \in Seq(S)
    BY <2>1, IssueIn DEF Says
  <2>5. failed \in Seq(S) /\ unseen \in Seq(S)
    BY <2>2
  <2>6. mo2 \in Seq(S)
    BY <2>1, IssueIn DEF Says
  <2>7. native \in Seq(S)
    BY <2>1, IssueIn DEF Says
  <2>8. QED
    BY <2>3, <2>4, <2>5, <2>6, <2>7
<1> HIDE DEF S, cet, tweakxl, failed, unseen, mo2, native
<1>3. issues \in Seq(S)
  BY <1>2
<1> HIDE DEF issues
<1>4. Len(issues) \in Nat /\ kMaxSetupIssues \in Nat
  BY <1>3, GamesAssumption
<1>5. n \in Nat /\ n <= Len(issues)
  BY <1>4
<1> HIDE DEF n
<1>6. SubSeq(issues, 1, n) \in Seq(S)
  BY <1>3, <1>4, <1>5
<1>7. issue \in S
  BY <1>1, <1>6 DEF Range
<1>8. QED
  BY <1>7 DEF S

\* A report names loose files only without a manager or with Mod Organizer.
LEMMA DeployedNotReported ==
  ASSUME NEW game, NEW frameworks
  PROVE  DeployedIsNotReported(game, frameworks)
<1> DEFINE issues == IssuesOf(game, frameworks, 0)
<1>1. ASSUME NEW f \in Reported(game, frameworks), f \in game.deployed
      PROVE  IF game.usvfs THEN game.mo2 # NoMO2 /\ (f \notin Overlays(game.mo2) \/ f \in game.mo2.unread)
             ELSE game.manifest = NoManifest /\ ~game.v2077
  <2>1. f \in DetectLooseFiles(game).loose /\ issues \cap {"loose-files-mo2", "loose-files-native"} # {}
    BY <1>1 DEF Reported
  <2>2. DetectManager(game) \in {"MO2", "None"}
    <3>1. PICK issue \in issues : issue \in {"loose-files-mo2", "loose-files-native"}
      BY <2>1
    <3>2. Says(EnumerateInstalled(game), DetectLooseFiles(game), issue)
      BY IssuesSay DEF IssuesOf
    <3>3. DetectLooseFiles(game).manager \in {"MO2", "None"}
      BY <3>1, <3>2 DEF Says
    <3>4. QED
      BY <3>3, LooseIs
  <2>3. CASE game.usvfs
    BY <1>1, <2>1, <2>3, OrganizedLoose
  <2>4. CASE ~game.usvfs
    BY <2>2, <2>4, ManagerIs
  <2>5. QED
    BY <2>3, <2>4
<1>2. QED
  BY <1>1 DEF DeployedIsNotReported

LEMMA IssuesTrue ==
  ASSUME NEW game \in Games, NEW frameworks
  PROVE  IssuesAreTrue(game, frameworks)
<1> DEFINE issues == IssuesOf(game, frameworks, 0)
           inv == EnumerateInstalled(game)
           scan == DetectLooseFiles(game)
           behind == game.mo2 # NoMO2 /\ \E f \in game.deployed : f \notin Overlays(game.mo2) \/ f \in game.mo2.unread
<1>1. \A issue \in issues : Says(inv, scan, issue)
  BY IssuesSay DEF IssuesOf
<1>2. ASSUME NEW kind \in Kinds, IsEnabled(inv, kind)
      PROVE  HasMod(game, DirOf(kind))
  BY <1>2, EnabledModIsThere DEF IsEnabled
<1>3. ASSUME scan.loose # {}
      PROVE  /\ scan.manager = "MO2" => (\E f \in game.files : IsLeftover(game, f)) \/ behind
             /\ scan.manager = "None" =>
                  \E f \in game.files : f.dir \in kModDirs /\ f.role \notin {"framework", "vanilla", "marker"}
  <2>1. PICK f \in scan.loose : TRUE
    BY <1>3
  <2>2. /\ f.dir \in kModDirs /\ f.role \notin {"framework", "vanilla", "marker"}
        /\ f \in game.files \/ (game.usvfs /\ f \in game.deployed)
    BY <2>1, LooseIsThere
  <2>3. scan.manager = IF game.usvfs THEN "MO2"
                       ELSE IF game.manifest # NoManifest \/ game.v2077 THEN "Vortex" ELSE "None"
    BY LooseIs, ManagerIs
  <2>4. ASSUME game.usvfs, f \in game.deployed PROVE behind
    BY <2>1, <2>4, OrganizedLoose
  <2> HIDE DEF scan, behind
  <2>5. ASSUME f \in game.files, f \notin game.deployed PROVE IsLeftover(game, f)
    BY <2>2, <2>5 DEF IsLeftover
  <2>6. QED
    BY <2>2, <2>3, <2>4, <2>5
<1> HIDE DEF issues, inv, scan, behind
<1>4. "loose-files-mo2" \in issues => (\E f \in game.files : IsLeftover(game, f)) \/ behind
  BY <1>1, <1>3 DEF Says
<1>5. "loose-files-native" \in issues =>
        \E f \in game.files : f.dir \in kModDirs /\ f.role \notin {"framework", "vanilla", "marker"}
  BY <1>1, <1>3 DEF Says
<1>6. "no-cet" \in issues => HasMod(game, "cet")
  BY <1>1, <1>2 DEF Says, Kinds, DirOf
<1>7. "no-tweakxl" \in issues => HasMod(game, "tweaks")
  BY <1>1, <1>2 DEF Says, Kinds, DirOf
<1>8. QED
  BY <1>4, <1>5, <1>6, <1>7 DEF IssuesAreTrue, issues, behind, HasMod

----------------------------------------------------------------------------
\* A game that was picked is one of those that are looked at.
PickedGame ==
  Of("setup") =>
    \E game \in Games, frameworks \in SUBSET {"cet", "tweakxl"} : input = <<<<game, frameworks>>>>

LEMMA PickedGameHolds == MCSpec => []PickedGame
<1>1. MCInit => PickedGame
  BY DEF MCInit, PickedGame, Of
<1>2. PickedGame /\ [Pick \/ SessionStep \/ FolderStep]_<<inputVars, historyVars, folderVars>> => PickedGame'
  <2> SUFFICES ASSUME PickedGame, [Pick \/ SessionStep \/ FolderStep]_<<inputVars, historyVars, folderVars>>
               PROVE  PickedGame'
    OBVIOUS
  <2>1. CASE Pick
    <3>1. subject' = subject /\ input' \in {<<i>> : i \in Inputs}
      BY <2>1 DEF Pick
    <3>2. ASSUME subject = "setup" PROVE Inputs = Games \X SUBSET {"cet", "tweakxl"}
      BY <3>2, Zenon DEF Inputs
    <3>3. QED
      BY <3>1, <3>2 DEF PickedGame, Of
  <2>2. CASE UNCHANGED inputVars
    BY <2>2 DEF inputVars, PickedGame, Of
  <2>3. QED
    BY <2>1, <2>2 DEF SessionStep, FolderStep
<1>3. QED
  BY <1>1, <1>2, PTL DEF MCSpec

\* What a report says of the files of any game is true, whoever manages its mods and whatever has
\* become of the manager's records: no deployed file is reported as loose while the records still
\* speak for it, a stray file of a mod is found, and each issue has its cause.
THEOREM SetupIsTold == MCSpec => []SetupIsTruthful
<1>1. PickedGame => SetupIsTruthful
  <2> SUFFICES ASSUME PickedGame, Of("setup")
               PROVE  /\ DeployedIsNotReported(input[1][1], input[1][2])
                      /\ StrayFileIsFound(input[1][1])
                      /\ IssuesAreTrue(input[1][1], input[1][2])
    BY DEF SetupIsTruthful
  <2>1. PICK game \in Games, frameworks \in SUBSET {"cet", "tweakxl"} : input = <<<<game, frameworks>>>>
    BY DEF PickedGame
  <2>2. input[1][1] = game /\ input[1][2] = frameworks
    BY <2>1
  <2>3. QED
    BY <2>2, DeployedNotReported, StrayIsFound, IssuesTrue
<1>2. QED
  BY <1>1, PickedGameHolds, PTL

\* A full clean of any game folder leaves, of all that the scan and the plan know of and that is
\* not the game's own, no more than four kinds of files.
THEOREM CleanIsComplete == MCSpec => []CleanLeavesNothing
<1>1. PickedGame => CleanLeavesNothing
  <2> SUFFICES ASSUME PickedGame, Of("setup")
               PROVE  CleanAfterPlan(input[1][1])
    BY DEF CleanLeavesNothing
  <2>1. PICK game \in Games, frameworks \in SUBSET {"cet", "tweakxl"} : input = <<<<game, frameworks>>>>
    BY DEF PickedGame
  <2>2. input[1][1] = game
    BY <2>1
  <2>3. QED
    BY <2>2, CleanIsClean
<1>2. QED
  BY <1>1, PickedGameHolds, PTL

-----------------------------------------------------------------------------
(* The settings *)

LEMMA MaxIs ==
  ASSUME NEW n \in Nat, NEW T \in SUBSET (1 .. n), T # {}
  PROVE  Max(T) \in T /\ \A j \in T : j <= Max(T)
<1> DEFINE D == {d \in Nat : n - d \in T}
<1>1. D \in SUBSET Nat /\ D # {}
  <2>1. PICK i \in T : TRUE
    OBVIOUS
  <2>2. n - i \in Nat /\ n - (n - i) = i
    OBVIOUS
  <2>3. n - i \in D
    BY <2>1, <2>2
  <2>4. QED
    BY <2>3
<1>2. PICK d \in D : \A k \in D : d <= k
  <2> HIDE DEF D
  <2>1. QED
    BY <1>1, LeastOf
<1>3. n - d \in T
  BY <1>2
<1>4. ASSUME NEW j \in T PROVE j <= n - d
  <2>1. n - j \in D
    OBVIOUS
  <2>2. d <= n - j
    BY <1>2, <2>1
  <2>3. d \in Nat
    BY <1>2
  <2>4. QED
    BY <2>2, <2>3
<1>5. \E x \in T : \A y \in T : x >= y
  <2>1. \A y \in T : n - d >= y
    BY <1>2, <1>4
  <2>2. QED
    BY <1>3, <2>1
<1>6. Max(T) \in T /\ \A y \in T : Max(T) >= y
  BY <1>5, Zenon DEF Max
<1>7. QED
  BY <1>6

LEMMA MaxIn ==
  ASSUME NEW lines, NEW n \in Nat, DOMAIN lines = 1 .. n, NEW T \in SUBSET DOMAIN lines, T # {}
  PROVE  Max(T) \in T /\ Max(T) \in DOMAIN lines /\ \A j \in T : j <= Max(T)
  BY MaxIs

\* A file that REDscope and its settings script read alike.
ReadAlike(lines) ==
  /\ \A i \in DOMAIN lines : lines[i].kind = "header" => lines[i].rest \in {"", "spaces"}
  /\ ~ \E i, j \in DOMAIN lines :
         /\ lines[i].kind = "header" /\ lines[i].name = "symbols" /\ lines[i].rest = ""
         /\ lines[j].kind = "header" /\ lines[j].name = "symbols" /\ lines[j].rest = "spaces"

HeadersTo(lines, i) == {j \in 1 .. i : lines[j].kind = "header"}

\* A line is below the same header for both; REDscope finds it by its name, the script only if there
\* are no spaces around that.
LEMMA SectionsAgree ==
  ASSUME NEW lines, NEW n \in Nat, DOMAIN lines = 1 .. n, ReadAlike(lines), NEW i \in 1 .. n
  PROVE  /\ HeadersTo(lines, i) = {} => SectionOf(lines, i) = "" /\ Section(lines, i) = ""
         /\ HeadersTo(lines, i) # {} =>
              /\ Max(HeadersTo(lines, i)) \in 1 .. n
              /\ lines[Max(HeadersTo(lines, i))].kind = "header" /\ lines[Max(HeadersTo(lines, i))].rest \in {"", "spaces"}
              /\ SectionOf(lines, i) = lines[Max(HeadersTo(lines, i))].name
              /\ Section(lines, i) = IF lines[Max(HeadersTo(lines, i))].rest = "spaces" THEN " " ELSE lines[Max(HeadersTo(lines, i))].name
<1> DEFINE T == HeadersTo(lines, i)
<1>1. T \in SUBSET (1 .. n)
  BY DEF HeadersTo
<1>2. {j \in 1..i : lines[j].kind = "header" /\ lines[j].rest \in {"", "spaces"}} = T
  <2>1. \A j \in 1 .. i : j \in DOMAIN lines
    OBVIOUS
  <2>2. QED
    BY <2>1 DEF HeadersTo, ReadAlike
<1>3. SectionOf(lines, i) = IF T = {} THEN "" ELSE lines[Max(T)].name
  BY <1>2 DEF SectionOf
<1>4. Section(lines, i) = IF T = {} \/ lines[Max(T)].rest = "open" THEN ""
                          ELSE IF lines[Max(T)].rest = "spaces" THEN " " ELSE lines[Max(T)].name
  BY DEF Section, HeadersTo
<1>5. ASSUME T # {}
      PROVE  Max(T) \in 1 .. n /\ lines[Max(T)].kind = "header" /\ lines[Max(T)].rest \in {"", "spaces"}
  <2>1. Max(T) \in T
    <3> HIDE DEF T
    <3>1. QED
      BY <1>1, <1>5, MaxIs
  <2>2. Max(T) \in 1 .. n /\ lines[Max(T)].kind = "header"
    <3> DEFINE m == Max(T)
    <3>1. m \in T
      BY <2>1
    <3> HIDE DEF m
    <3>2. m \in 1 .. n /\ lines[m].kind = "header"
      BY <3>1, <1>1 DEF HeadersTo
    <3>3. QED
      BY <3>2 DEF m
  <2>3. QED
    BY <2>2 DEF ReadAlike
<1> HIDE DEF T
<1>6. QED
  BY <1>3, <1>4, <1>5 DEF T

\* Lines that are not headers have no part in what section a line is in.
LEMMA SameSections ==
  ASSUME NEW lines, NEW after, NEW n \in Nat, NEW i \in 1 .. n,
         \A j \in 1 .. n : /\ lines[j].kind = "header" <=> after[j].kind = "header"
                           /\ lines[j].kind = "header" => after[j] = lines[j]
  PROVE  SectionOf(after, i) = SectionOf(lines, i) /\ Section(after, i) = Section(lines, i)
<1>0. i \in Nat /\ \A j \in 1 .. i : j \in 1 .. n
  OBVIOUS
<1>1. ASSUME NEW T \in SUBSET (1 .. i), T # {}, \A j \in T : lines[j].kind = "header"
      PROVE  after[Max(T)] = lines[Max(T)]
  <2>1. Max(T) \in T
    BY <1>0, <1>1, MaxIs
  <2>2. QED
    BY <1>0, <1>1, <2>1
<1>2. SectionOf(after, i) = SectionOf(lines, i)
  <2> DEFINE A == {j \in 1..i : after[j].kind = "header" /\ after[j].rest \in {"", "spaces"}}
             L == {j \in 1..i : lines[j].kind = "header" /\ lines[j].rest \in {"", "spaces"}}
  <2>1. A = L
    BY <1>0
  <2>2. L # {} => after[Max(L)] = lines[Max(L)]
    <3>1. L \in SUBSET (1 .. i) /\ \A j \in L : lines[j].kind = "header"
      OBVIOUS
    <3> HIDE DEF L
    <3>2. QED
      BY <1>1, <3>1
  <2>3. SectionOf(after, i) = IF A = {} THEN "" ELSE after[Max(A)].name
    BY DEF SectionOf
  <2>4. SectionOf(lines, i) = IF L = {} THEN "" ELSE lines[Max(L)].name
    BY DEF SectionOf
  <2> HIDE DEF A, L
  <2>5. CASE L = {}
    BY ONLY <2>1, <2>3, <2>4, <2>5, Zenon
  <2>6. CASE L # {}
    <3>1. Max(A) = Max(L)
      BY <2>1, Zenon
    <3>2. after[Max(A)] = lines[Max(L)]
      BY <2>2, <2>6, <3>1
    <3>3. A # {}
      BY <2>1, <2>6
    <3> DEFINE a == Max(A)
               l == Max(L)
    <3> HIDE DEF a, l
    <3>4. QED
      BY ONLY <2>3, <2>4, <2>6, <3>2, <3>3, Zenon
  <2>7. QED
    BY <2>5, <2>6
<1>3. Section(after, i) = Section(lines, i)
  <2> DEFINE A == {j \in 1..i : after[j].kind = "header"}
             L == {j \in 1..i : lines[j].kind = "header"}
             Of1(l) == IF l.rest = "open" THEN "" ELSE IF l.rest = "spaces" THEN " " ELSE l.name
  <2>1. A = L
    BY <1>0
  <2>2. L # {} => after[Max(L)] = lines[Max(L)]
    <3>1. L \in SUBSET (1 .. i) /\ \A j \in L : lines[j].kind = "header"
      OBVIOUS
    <3> HIDE DEF L
    <3>2. QED
      BY <1>1, <3>1
  <2>3. Section(after, i) = IF A = {} THEN "" ELSE Of1(after[Max(A)])
    BY DEF Section
  <2>4. Section(lines, i) = IF L = {} THEN "" ELSE Of1(lines[Max(L)])
    BY DEF Section
  <2> HIDE DEF A, L, Of1
  <2>5. CASE L = {}
    BY ONLY <2>1, <2>3, <2>4, <2>5, Zenon
  <2>6. CASE L # {}
    <3>1. Max(A) = Max(L)
      BY <2>1, Zenon
    <3>2. after[Max(A)] = lines[Max(L)]
      BY <2>2, <2>6, <3>1
    <3>3. A # {}
      BY <2>1, <2>6
    <3> DEFINE a == Max(A)
               l == Max(L)
    <3> HIDE DEF a, l
    <3>4. QED
      BY ONLY <2>3, <2>4, <2>6, <3>2, <3>3, Zenon
  <2>7. QED
    BY <2>5, <2>6
<1>4. QED
  BY <1>2, <1>3

\* The script replaces only lines that REDscope finds in the section, and, if any, all of those.
LEMMA HitsAre ==
  ASSUME NEW lines, NEW n \in Nat, DOMAIN lines = 1 .. n, ReadAlike(lines)
  PROVE  /\ \A i \in Hits(lines) : /\ i \in 1 .. n /\ lines[i].kind # "header" /\ lines[i].name \in Prefixed
                                   /\ SectionOf(lines, i) = "symbols" /\ Section(lines, i) = "symbols"
         /\ Hits(lines) # {} =>
              \A i \in 1 .. n : lines[i].kind # "header" /\ lines[i].name \in Prefixed /\ SectionOf(lines, i) = "symbols" => i \in Hits(lines)
<1> DEFINE Top(i) == Max(HeadersTo(lines, i))
           Is(i, rest) == /\ Top(i) \in 1 .. n /\ lines[Top(i)].kind = "header"
                          /\ lines[Top(i)].name = "symbols" /\ lines[Top(i)].rest = rest
<1>1. \A i \in 1 .. n : Section(lines, i) = "symbols" => Is(i, "") /\ SectionOf(lines, i) = "symbols"
  <2> SUFFICES ASSUME NEW i \in 1 .. n, Section(lines, i) = "symbols" PROVE Is(i, "") /\ SectionOf(lines, i) = "symbols"
    OBVIOUS
  <2>1. HeadersTo(lines, i) # {}
    BY SectionsAgree
  <2> DEFINE m == Top(i)
  <2>2. /\ m \in 1 .. n /\ lines[m].kind = "header" /\ lines[m].rest \in {"", "spaces"}
        /\ SectionOf(lines, i) = lines[m].name /\ Section(lines, i) = IF lines[m].rest = "spaces" THEN " " ELSE lines[m].name
    BY <2>1, SectionsAgree
  <2> HIDE DEF m
  <2>3. CASE lines[m].rest = "spaces"
    BY <2>2, <2>3 DEF m
  <2>4. CASE lines[m].rest = ""
    BY <2>2, <2>4 DEF m
  <2>5. QED
    BY <2>2, <2>3, <2>4
<1>2. \A i \in 1 .. n : SectionOf(lines, i) = "symbols" => (Is(i, "") /\ Section(lines, i) = "symbols") \/ Is(i, "spaces")
  <2> SUFFICES ASSUME NEW i \in 1 .. n, SectionOf(lines, i) = "symbols"
               PROVE  (Is(i, "") /\ Section(lines, i) = "symbols") \/ Is(i, "spaces")
    OBVIOUS
  <2>1. HeadersTo(lines, i) # {}
    BY SectionsAgree
  <2> DEFINE m == Top(i)
  <2>2. /\ m \in 1 .. n /\ lines[m].kind = "header" /\ lines[m].rest \in {"", "spaces"}
        /\ SectionOf(lines, i) = lines[m].name /\ Section(lines, i) = IF lines[m].rest = "spaces" THEN " " ELSE lines[m].name
    BY <2>1, SectionsAgree
  <2> HIDE DEF m
  <2>3. CASE lines[m].rest = "spaces"
    BY <2>2, <2>3 DEF m
  <2>4. CASE lines[m].rest = ""
    BY <2>2, <2>4 DEF m
  <2>5. QED
    BY <2>2, <2>3, <2>4
<1>3. \A i, j \in 1 .. n : ~(Is(i, "") /\ Is(j, "spaces"))
  <2> SUFFICES ASSUME NEW i \in 1 .. n, NEW j \in 1 .. n, Is(i, ""), Is(j, "spaces") PROVE FALSE
    OBVIOUS
  <2>1. Top(i) \in DOMAIN lines /\ Top(j) \in DOMAIN lines
    OBVIOUS
  <2>2. QED
    BY <2>1, Zenon DEF ReadAlike
<1>4. \A i \in Hits(lines) : i \in 1 .. n /\ lines[i].kind # "header" /\ lines[i].name \in Prefixed /\ Section(lines, i) = "symbols"
  BY DEF Hits
<1>5. \A i \in 1 .. n : lines[i].kind # "header" /\ lines[i].name \in Prefixed /\ Section(lines, i) = "symbols" => i \in Hits(lines)
  BY DEF Hits
<1> HIDE DEF Is
<1>6. QED
  BY <1>1, <1>2, <1>3, <1>4, <1>5

LEMMA KeysOfConfig ==
  /\ AutoDownload \in DOMAIN Config /\ Config[AutoDownload].kind = "bool"
  /\ AutoDownload = <<"symbols", "auto_download">> /\ "auto_download" \in Prefixed
  /\ \A section : \A name \in Prefixed : <<section, name>> \in DOMAIN Config => <<section, name>> = AutoDownload
<1>1. AutoDownload \in Off /\ AutoDownload \notin On
  BY DEF Off, On, AutoDownload
<1>2. AutoDownload \in DOMAIN Config
  BY <1>1 DEF Config
<1>3. Config[AutoDownload] = Bool(FALSE)
  BY <1>1 DEF Config
<1>4. Config[AutoDownload].kind = "bool"
  BY <1>3 DEF Bool
<1>5. \A k \in DOMAIN Config : k[2] \in Prefixed <=> k = AutoDownload
  BY SettingsAssumption
<1>6. "auto_download" \in Prefixed
  <2>1. AutoDownload[2] = "auto_download"
    BY DEF AutoDownload
  <2>2. QED
    BY <1>2, <1>5, <2>1
<1>7. ASSUME NEW section, NEW name \in Prefixed, <<section, name>> \in DOMAIN Config
      PROVE  <<section, name>> = AutoDownload
  <2> DEFINE k == <<section, name>>
  <2>1. k[2] = name
    OBVIOUS
  <2> HIDE DEF k
  <2>2. k \in DOMAIN Config
    BY <1>7 DEF k
  <2>3. k = AutoDownload
    BY <1>5, <2>1, <2>2
  <2>4. QED
    BY <2>3 DEF k
<1>8. QED
  BY <1>2, <1>4, <1>6, <1>7 DEF AutoDownload

\* What changes nothing but the line of one setting that counts changes only that setting.
LEMMA ConfigWith ==
  ASSUME NEW lines, NEW after, NEW enabled \in BOOLEAN,
         \A k \in DOMAIN Config \ {AutoDownload} :
            /\ Settings(after, k) = Settings(lines, k)
            /\ Settings(lines, k) # {} => after[Max(Settings(lines, k))] = lines[Max(Settings(lines, k))],
         Settings(after, AutoDownload) # {},
         after[Max(Settings(after, AutoDownload))] = Line(enabled)
  PROVE  LoadConfig(after) = [LoadConfig(lines) EXCEPT ![AutoDownload] = enabled]
<1> DEFINE V(k, v) == IF Config[k].kind = "bool" THEN ParseBool(v, Config[k].default)
                      ELSE ParseUintClamped(v, Config[k].default, Config[k].lo, Config[k].hi)
           R(ls, k) == IF Settings(ls, k) = {} THEN Config[k].default ELSE V(k, ls[Max(Settings(ls, k))].value)
<1>1. LoadConfig(after) = [k \in DOMAIN Config |-> R(after, k)] /\ LoadConfig(lines) = [k \in DOMAIN Config |-> R(lines, k)]
  BY DEF LoadConfig
<1>2. R(after, AutoDownload) = enabled
  <2>1. Line(enabled).value.says = IF enabled THEN "true" ELSE "false"
    BY DEF Line
  <2>2. R(after, AutoDownload) = ParseBool(Line(enabled).value, Config[AutoDownload].default)
    BY KeysOfConfig
  <2>3. CASE enabled = TRUE
    BY <2>1, <2>2, <2>3 DEF ParseBool
  <2>4. CASE enabled = FALSE
    BY <2>1, <2>2, <2>4 DEF ParseBool
  <2>5. QED
    BY <2>3, <2>4
<1> HIDE DEF V
<1>3. \A k \in DOMAIN Config \ {AutoDownload} : R(after, k) = R(lines, k)
  OBVIOUS
<1> HIDE DEF R
<1>4. QED
  BY <1>1, <1>2, <1>3

\* A setting whose last line is the same is the same.
LEMMA SameValue ==
  ASSUME NEW lines, NEW after, NEW k \in DOMAIN Config, Settings(after, k) = {} <=> Settings(lines, k) = {},
         Settings(lines, k) # {} => after[Max(Settings(after, k))] = lines[Max(Settings(lines, k))]
  PROVE  LoadConfig(after)[k] = LoadConfig(lines)[k]
<1> DEFINE V(v) == IF Config[k].kind = "bool" THEN ParseBool(v, Config[k].default)
                   ELSE ParseUintClamped(v, Config[k].default, Config[k].lo, Config[k].hi)
           R(ls) == IF Settings(ls, k) = {} THEN Config[k].default ELSE V(ls[Max(Settings(ls, k))].value)
<1>1. LoadConfig(after)[k] = R(after) /\ LoadConfig(lines)[k] = R(lines)
  BY DEF LoadConfig
<1> HIDE DEF V
<1>2. R(after) = R(lines)
  OBVIOUS
<1> HIDE DEF R
<1>3. QED
  BY <1>1, <1>2

LEMMA SameSetting ==
  ASSUME NEW lines, NEW after, NEW k \in DOMAIN Config, Settings(after, k) = Settings(lines, k),
         Settings(lines, k) # {} => after[Max(Settings(lines, k))] = lines[Max(Settings(lines, k))]
  PROVE  LoadConfig(after)[k] = LoadConfig(lines)[k]
  BY SameValue, Zenon

LEMMA LineIs ==
  ASSUME NEW enabled
  PROVE  Line(enabled).kind = "key" /\ Line(enabled).name = "auto_download"
  BY DEF Line

\* The section has lines of the setting: they are all replaced.
LEMMA ReplacedIsKept ==
  ASSUME NEW lines, NEW n \in Nat, DOMAIN lines = 1 .. n, NEW enabled \in BOOLEAN, Hits(lines) # {}
  PROVE  LET after == Rewritten(lines, enabled)
             set == [LoadConfig(lines) EXCEPT ![AutoDownload] = enabled]
         IN /\ LoadConfig(after) \in {set, LoadConfig(lines)}
            /\ ReadAlike(lines) => LoadConfig(after) = set
            /\ Rewritten(after, enabled) = after
<1> DEFINE after == Rewritten(lines, enabled)
           H == Hits(lines)
<1>1. after = [i \in 1 .. n |-> IF i \in H THEN Line(enabled) ELSE lines[i]]
  BY DEF Rewritten, Replaced
<1>2. \A i \in H : i \in 1 .. n /\ lines[i].kind # "header" /\ lines[i].name \in Prefixed
  BY DEF Hits
<1>r. ASSUME ReadAlike(lines)
      PROVE  /\ \A i \in H : SectionOf(lines, i) = "symbols"
             /\ \A i \in 1 .. n : lines[i].kind # "header" /\ lines[i].name \in Prefixed /\ SectionOf(lines, i) = "symbols" => i \in H
  BY <1>r, HitsAre
<1>h. H # {}
  OBVIOUS
<1>a. Rewritten(after, enabled) = Replaced(after, Hits(after), enabled)
  BY DEF Rewritten
<1>s. \A i \in 1 .. n : i \in H <=> lines[i].kind # "header" /\ lines[i].name \in Prefixed /\ Section(lines, i) = "symbols"
  BY DEF Hits
<1> HIDE DEF after, H
<1>3. /\ DOMAIN after = 1 .. n
      /\ \A i \in 1 .. n : (i \in H => after[i] = Line(enabled)) /\ (i \notin H => after[i] = lines[i])
  BY <1>1
<1>4. \A i \in 1 .. n : (lines[i].kind = "header" <=> after[i].kind = "header") /\ (lines[i].kind = "header" => after[i] = lines[i])
  <2> SUFFICES ASSUME NEW i \in 1 .. n PROVE (lines[i].kind = "header" <=> after[i].kind = "header") /\ (lines[i].kind = "header" => after[i] = lines[i])
    OBVIOUS
  <2>1. CASE i \in H
    BY <1>2, <1>3, <2>1, LineIs
  <2>2. QED
    BY <1>3, <2>1
<1>5. \A i \in 1 .. n : SectionOf(after, i) = SectionOf(lines, i) /\ Section(after, i) = Section(lines, i)
  BY <1>4, SameSections
<1>6. \A k \in DOMAIN Config \ {AutoDownload} : Settings(lines, k) \cap H = {} /\ Settings(after, k) = Settings(lines, k)
  <2> TAKE k \in DOMAIN Config \ {AutoDownload}
  <2>1. ASSUME NEW i \in 1 .. n, i \in H PROVE i \notin Settings(lines, k) /\ i \notin Settings(after, k)
    <3>1. <<SectionOf(lines, i), lines[i].name>> # k
      BY <1>2, <2>1, KeysOfConfig
    <3>2. <<SectionOf(after, i), after[i].name>> # k
      BY <1>3, <2>1, LineIs, KeysOfConfig
    <3>3. QED
      BY <3>1, <3>2 DEF Settings
  <2>2. ASSUME NEW i \in 1 .. n, i \notin H PROVE i \in Settings(lines, k) <=> i \in Settings(after, k)
    BY <1>3, <1>5, <2>2 DEF Settings
  <2>3. Settings(lines, k) \subseteq 1 .. n /\ Settings(after, k) \subseteq 1 .. n
    BY <1>3 DEF Settings
  <2>4. QED
    BY <2>1, <2>2, <2>3
<1>7. \A k \in DOMAIN Config \ {AutoDownload} :
        Settings(lines, k) # {} => after[Max(Settings(lines, k))] = lines[Max(Settings(lines, k))]
  <2> TAKE k \in DOMAIN Config \ {AutoDownload}
  <2> HAVE Settings(lines, k) # {}
  <2>1. Settings(lines, k) \in SUBSET DOMAIN lines
    BY DEF Settings
  <2>2. Max(Settings(lines, k)) \in Settings(lines, k) /\ Max(Settings(lines, k)) \in 1 .. n
    BY <2>1, MaxIn
  <2>3. QED
    BY <1>3, <1>6, <2>2
<1> DEFINE old == Settings(lines, AutoDownload)
           new == Settings(after, AutoDownload)
           set == [LoadConfig(lines) EXCEPT ![AutoDownload] = enabled]
<1>o. /\ old \in SUBSET (1 .. n) /\ new \in SUBSET (1 .. n) /\ old \subseteq new
      /\ \A i \in new : i \notin H => i \in old
  <2>1. old \subseteq 1 .. n /\ new \subseteq 1 .. n
    BY <1>3 DEF Settings
  <2>2. ASSUME NEW i \in 1 .. n, i \notin H PROVE i \in old <=> i \in new
    BY <1>3, <1>5, <2>2 DEF Settings
  <2>3. ASSUME NEW i \in 1 .. n, i \in H, i \in old PROVE i \in new
    <3>1. SectionOf(lines, i) = "symbols"
      BY <2>3, KeysOfConfig DEF Settings
    <3>2. QED
      BY <1>3, <1>5, <2>3, <3>1, LineIs, KeysOfConfig DEF Settings
  <2>4. QED
    BY <2>1, <2>2, <2>3
<1>m. new # {} => Max(new) \in new /\ \A j \in new : j <= Max(new)
  <2> HIDE DEF new
  <2>1. QED
    BY <1>o, MaxIs
<1>8. LoadConfig(after) \in {set, LoadConfig(lines)} /\ (new # {} /\ Max(new) \in H => LoadConfig(after) = set)
  <2>1. ASSUME new # {}, Max(new) \in H PROVE LoadConfig(after) = set
    <3>1. after[Max(new)] = Line(enabled)
      BY <1>2, <1>3, <2>1
    <3>2. QED
      BY <1>6, <1>7, <2>1, <3>1, ConfigWith
  <2>2. ASSUME ~(new # {} /\ Max(new) \in H) PROVE LoadConfig(after) = LoadConfig(lines)
    <3>1. (new = {} <=> old = {}) /\ (old # {} => after[Max(new)] = lines[Max(old)])
      <4>1. CASE new = {}
        BY <1>o, <4>1
      <4>2. CASE new # {}
        <5>1. Max(new) \in old /\ \A j \in old : j <= Max(new)
          BY <1>m, <1>o, <2>2, <4>2
        <5>2. Max(old) \in old /\ \A j \in old : j <= Max(old)
          <6> HIDE DEF old
          <6>1. QED
            BY <1>o, <5>1, MaxIs
        <5> DEFINE x == Max(new)
                   y == Max(old)
        <5>3. x \in old /\ y \in old /\ x <= y /\ y <= x
          BY <5>1, <5>2
        <5> HIDE DEF x, y
        <5>4. x \in Nat /\ y \in Nat
          BY <1>o, <5>3
        <5>5. x = y
          BY <5>3, <5>4
        <5>6. x \notin H /\ x \in 1 .. n
          BY <1>o, <2>2, <4>2, <5>3 DEF x
        <5>7. QED
          BY <1>3, <4>2, <5>1, <5>5, <5>6 DEF x, y
      <4>3. QED
        BY <4>1, <4>2
    <3>2. LoadConfig(after)[AutoDownload] = LoadConfig(lines)[AutoDownload]
      BY <3>1, KeysOfConfig, SameValue
    <3>3. \A k \in DOMAIN Config \ {AutoDownload} : LoadConfig(after)[k] = LoadConfig(lines)[k]
      BY <1>6, <1>7, SameSetting
    <3>4. /\ LoadConfig(after) = [k \in DOMAIN Config |-> LoadConfig(after)[k]]
          /\ LoadConfig(lines) = [k \in DOMAIN Config |-> LoadConfig(lines)[k]]
      BY DEF LoadConfig
    <3>5. \A k \in DOMAIN Config : LoadConfig(after)[k] = LoadConfig(lines)[k]
      BY <3>2, <3>3
    <3>6. QED
      BY ONLY <3>4, <3>5
  <2>3. QED
    BY <2>1, <2>2
<1>k. ASSUME ReadAlike(lines) PROVE new # {} /\ Max(new) \in H
  <2>1. ASSUME NEW i \in 1 .. n, i \in H PROVE i \in new
    BY <1>k, <1>r, <1>2, <1>3, <1>5, <2>1, LineIs, KeysOfConfig DEF Settings
  <2>2. ASSUME NEW i \in new PROVE i \in H
    <3>1. CASE i \notin H
      <4>1. i \in old /\ i \in 1 .. n
        BY <1>o, <2>2, <3>1
      <4>2. lines[i].kind = "key" /\ <<SectionOf(lines, i), lines[i].name>> = <<"symbols", "auto_download">>
        BY <4>1, KeysOfConfig DEF Settings
      <4>3. SectionOf(lines, i) = "symbols" /\ lines[i].name = "auto_download"
        BY <4>2
      <4>4. QED
        BY <1>k, <1>r, <4>1, <4>2, <4>3, KeysOfConfig
    <3>2. QED
      BY <3>1
  <2> HIDE DEF new
  <2>3. QED
    BY <1>2, <1>h, <1>m, <2>1, <2>2
<1>9. Hits(after) = H
  <2>1. ASSUME NEW i \in 1 .. n, i \in H PROVE i \in Hits(after)
    BY <1>2, <1>3, <1>5, <1>s, <2>1, LineIs, KeysOfConfig DEF Hits
  <2>2. ASSUME NEW i \in 1 .. n, i \notin H PROVE i \notin Hits(after)
    BY <1>3, <1>5, <1>s, <2>2 DEF Hits
  <2>3. Hits(after) \subseteq 1 .. n
    BY <1>3 DEF Hits
  <2>4. QED
    BY <1>2, <2>1, <2>2, <2>3
<1>10. Rewritten(after, enabled) = after
  <2>1. Rewritten(after, enabled) = [i \in 1 .. n |-> IF i \in H THEN Line(enabled) ELSE after[i]]
    BY <1>3, <1>9, <1>a, <1>h DEF Replaced
  <2>2. \A i \in 1 .. n : (IF i \in H THEN Line(enabled) ELSE after[i]) = after[i]
    BY <1>3
  <2>3. after = [i \in 1 .. n |-> after[i]]
    BY <1>1, <1>3
  <2>4. QED
    BY <2>1, <2>2, <2>3
<1>11. QED
  BY <1>8, <1>k, <1>10 DEF after

\* The section has none: the setting is added at the end, below a header of its own.
LEMMA AddedIsKept ==
  ASSUME NEW lines, NEW S, lines \in Seq(S), NEW enabled \in BOOLEAN, Hits(lines) = {}
  PROVE  LET after == Rewritten(lines, enabled)
         IN /\ LoadConfig(after) = [LoadConfig(lines) EXCEPT ![AutoDownload] = enabled]
            /\ Rewritten(after, enabled) = after
<1> DEFINE after == Rewritten(lines, enabled)
           n == Len(lines)
           header == Header("symbols")
           line == Line(enabled)
<1>1. n \in Nat /\ DOMAIN lines = 1 .. n
  OBVIOUS
<1>2. after = lines \o <<header, line>>
  BY DEF Rewritten, Replaced
<1>a. Rewritten(after, enabled) = Replaced(after, Hits(after), enabled)
  BY DEF Rewritten
<1>l. line.kind = "key" /\ line.name = "auto_download"
  BY LineIs
<1>g. header.kind = "header" /\ header.name = "symbols" /\ header.rest = ""
  BY DEF Header
<1>s. \A i \in 1 .. n : ~(lines[i].kind # "header" /\ lines[i].name \in Prefixed /\ Section(lines, i) = "symbols")
  BY <1>1 DEF Hits
<1> HIDE DEF header, line
<1>3. /\ DOMAIN after = 1 .. n + 2 /\ after[n + 1] = header /\ after[n + 2] = line
      /\ \A i \in 1 .. n : after[i] = lines[i]
  <2>1. lines \in Seq(S \cup {header, line}) /\ <<header, line>> \in Seq(S \cup {header, line})
    <3>1. lines \in Seq(S \cup {header, line})
      <4>1. \A i \in 1 .. Len(lines) : lines[i] \in S \cup {header, line}
        OBVIOUS
      <4>2. QED
        BY <4>1
    <3>2. QED
      BY <3>1
  <2> HIDE DEF after
  <2>2. QED
    BY <1>2, <2>1
<1>d. after = [i \in 1 .. n + 2 |-> after[i]]
  BY <1>2
<1> HIDE DEF after, n
<1>4. \A i \in 1 .. n : SectionOf(after, i) = SectionOf(lines, i) /\ Section(after, i) = Section(lines, i)
  <2>1. \A j \in 1 .. n : /\ lines[j].kind = "header" <=> after[j].kind = "header"
                          /\ lines[j].kind = "header" => after[j] = lines[j]
    BY <1>3
  <2>2. QED
    BY <1>1, <2>1, SameSections
<1>5. SectionOf(after, n + 2) = "symbols" /\ Section(after, n + 2) = "symbols"
  <2> DEFINE A == {j \in 1 .. n + 2 : after[j].kind = "header" /\ after[j].rest \in {"", "spaces"}}
             B == {j \in 1 .. n + 2 : after[j].kind = "header"}
  <2>n. n + 1 \in 1 .. n + 2 /\ n + 2 \in Nat /\ \A j \in 1 .. n + 2 : j # n + 2 => j <= n + 1
    BY <1>1
  <2>1. ASSUME NEW T \in SUBSET (1 .. n + 2), n + 1 \in T, n + 2 \notin T PROVE Max(T) = n + 1
    <3> DEFINE m == Max(T)
    <3>1. m \in T /\ \A j \in T : j <= m
      BY <2>1, <2>n, MaxIs
    <3> HIDE DEF m
    <3>2. m \in Nat /\ m <= n + 1 /\ n + 1 <= m
      BY <2>1, <2>n, <3>1
    <3>3. m = n + 1
      BY <1>1, <3>2
    <3>4. QED
      BY <3>3 DEF m
  <2>2. A \in SUBSET (1 .. n + 2) /\ n + 1 \in A /\ n + 2 \notin A
    BY <1>3, <1>l, <1>g, <2>n
  <2>3. B \in SUBSET (1 .. n + 2) /\ n + 1 \in B /\ n + 2 \notin B
    BY <1>3, <1>l, <1>g, <2>n
  <2>4. SectionOf(after, n + 2) = IF A = {} THEN "" ELSE after[Max(A)].name
    BY DEF SectionOf
  <2>5. Section(after, n + 2) = IF B = {} \/ after[Max(B)].rest = "open" THEN "" ELSE IF after[Max(B)].rest = "spaces" THEN " " ELSE after[Max(B)].name
    BY DEF Section
  <2> HIDE DEF A, B
  <2>6. Max(A) = n + 1 /\ Max(B) = n + 1 /\ A # {} /\ B # {}
    BY <2>1, <2>2, <2>3
  <2>7. QED
    BY <1>3, <1>g, <2>4, <2>5, <2>6
<1>n. n + 2 \in 1 .. n + 2 /\ n + 2 \notin 1 .. n /\ \A i \in 1 .. n + 2 : i \in 1 .. n \/ i = n + 1 \/ i = n + 2
  BY <1>1
<1>m. 1 .. n \subseteq 1 .. n + 2
  BY <1>1
<1>6. ASSUME NEW k
      PROVE  Settings(after, k) = Settings(lines, k) \cup (IF k = AutoDownload THEN {n + 2} ELSE {})
  <2>1. ASSUME NEW i \in 1 .. n PROVE i \in Settings(after, k) <=> i \in Settings(lines, k)
    BY <1>1, <1>3, <1>4, <1>m DEF Settings
  <2>2. n + 1 \notin Settings(after, k)
    BY <1>3, <1>g DEF Settings
  <2>3. n + 2 \in Settings(after, k) <=> k = AutoDownload
    BY <1>3, <1>5, <1>l, <1>n, KeysOfConfig DEF Settings
  <2>4. Settings(lines, k) \subseteq 1 .. n /\ Settings(after, k) \subseteq 1 .. n + 2
    BY <1>1, <1>3 DEF Settings
  <2>5. QED
    BY <1>n, <2>1, <2>2, <2>3, <2>4
<1>7. LoadConfig(after) = [LoadConfig(lines) EXCEPT ![AutoDownload] = enabled]
  <2>1. \A k \in DOMAIN Config \ {AutoDownload} :
            /\ Settings(after, k) = Settings(lines, k)
            /\ Settings(lines, k) # {} => after[Max(Settings(lines, k))] = lines[Max(Settings(lines, k))]
    <3> TAKE k \in DOMAIN Config \ {AutoDownload}
    <3>1. Settings(after, k) = Settings(lines, k)
      BY <1>6
    <3>2. ASSUME Settings(lines, k) # {} PROVE after[Max(Settings(lines, k))] = lines[Max(Settings(lines, k))]
      <4>1. Settings(lines, k) \in SUBSET DOMAIN lines
        BY DEF Settings
      <4>2. Max(Settings(lines, k)) \in 1 .. n
        BY <1>1, <3>2, <4>1, MaxIn
      <4>3. QED
        BY <1>3, <4>2
    <3>3. QED
      BY <3>1, <3>2
  <2>2. Max(Settings(after, AutoDownload)) = n + 2 /\ Settings(after, AutoDownload) # {}
    <3> DEFINE T == Settings(after, AutoDownload)
               m == Max(T)
    <3>1. n + 2 \in T /\ T \in SUBSET (1 .. n + 2)
      BY <1>3, <1>6 DEF Settings
    <3>2. m \in T /\ \A j \in T : j <= m
      <4> HIDE DEF T
      <4>1. n + 2 \in Nat /\ T # {}
        BY <1>1, <3>1
      <4>2. QED
        BY <3>1, <4>1, MaxIs
    <3> HIDE DEF m, T
    <3>3. m = n + 2
      <4>1. m \in Nat /\ m <= n + 2 /\ n + 2 <= m
        BY <1>1, <3>1, <3>2
      <4>2. QED
        BY <1>1, <4>1
    <3>4. QED
      BY <3>1, <3>3 DEF m, T
  <2>3. after[Max(Settings(after, AutoDownload))] = Line(enabled)
    BY <1>3, <2>2 DEF line
  <2>4. QED
    BY <2>1, <2>2, <2>3, ConfigWith
<1>8. Hits(after) = {n + 2}
  <2>1. ASSUME NEW i \in 1 .. n PROVE i \notin Hits(after)
    BY <1>3, <1>4, <1>s DEF Hits
  <2>2. n + 1 \notin Hits(after)
    BY <1>3, <1>g DEF Hits
  <2>3. n + 2 \in Hits(after)
    BY <1>3, <1>5, <1>l, <1>n, KeysOfConfig DEF Hits
  <2>4. Hits(after) \subseteq 1 .. n + 2
    BY <1>3 DEF Hits
  <2>5. QED
    BY <1>n, <2>1, <2>2, <2>3, <2>4
<1>9. Rewritten(after, enabled) = after
  <2>1. Rewritten(after, enabled) = [i \in 1 .. n + 2 |-> IF i \in {n + 2} THEN line ELSE after[i]]
    BY <1>3, <1>8, <1>a DEF Replaced, line
  <2>2. \A i \in 1 .. n + 2 : (IF i \in {n + 2} THEN line ELSE after[i]) = after[i]
    BY <1>3
  <2>3. QED
    BY <1>d, <2>1, <2>2
<1>10. QED
  BY <1>7, <1>9 DEF after

LEMMA SettingKept ==
  ASSUME NEW lines \in Inis, NEW enabled \in BOOLEAN
  PROVE  SettingIsKept(lines, enabled)
<1>1. lines \in Seq(IniLine)
  BY SettingsAssumption
<1>2. Len(lines) \in Nat /\ DOMAIN lines = 1 .. Len(lines)
  BY <1>1
<1> DEFINE Rests(name) == {l.rest : l \in {k \in Range(lines) : k.kind = "header" /\ k.name = name}}
<1>3. ASSUME \A l \in Range(lines) : l.kind = "header" => l.rest \in {"", "spaces"},
             ~({"", "spaces"} \subseteq Rests("symbols"))
      PROVE  ReadAlike(lines)
  <2>1. \A i \in DOMAIN lines : lines[i] \in Range(lines)
    BY DEF Range
  <2>2. ASSUME NEW i \in DOMAIN lines, lines[i].kind = "header", lines[i].name = "symbols"
        PROVE  lines[i].rest \in Rests("symbols")
    BY <2>1, <2>2
  <2>3. \A i \in DOMAIN lines : lines[i].kind = "header" => lines[i].rest \in {"", "spaces"}
    BY <1>3, <2>1
  <2> HIDE DEF Rests
  <2>4. QED
    BY <1>3, <2>2, <2>3 DEF ReadAlike
<1> DEFINE after == Rewritten(lines, enabled)
           set == [LoadConfig(lines) EXCEPT ![AutoDownload] = enabled]
<1>4. /\ LoadConfig(after) \in {set, LoadConfig(lines)}
      /\ ReadAlike(lines) => LoadConfig(after) = set
      /\ Rewritten(after, enabled) = after
  <2>1. CASE Hits(lines) # {}
    BY <1>2, <2>1, ReplacedIsKept
  <2>2. CASE Hits(lines) = {}
    BY <1>1, <2>2, AddedIsKept
  <2>3. QED
    BY <2>1, <2>2
<1> HIDE DEF after, set, Rests
<1>5. QED
  BY <1>3, <1>4, Zenon DEF SettingIsKept, after, set, Rests

(* A change that fails: what is left begins like the file, up to a line that may be torn; behind *)
(* that is nothing but what the script adds. *)

\* The lines that may be in a file, with those that the script adds.
Names == STRING \cup {"symbols", "auto_download"}
AnyLine == [kind : {"header", "key", "note"}, name : Names, rest : {"", "spaces", "comment", "open"}, value : Value]

LEMMA LinesAreLines ==
  ASSUME NEW lines \in Seq(IniLine)
  PROVE  lines \in Seq(AnyLine)
<1>1. IniLine \subseteq AnyLine
  BY DEF IniLine, AnyLine, Names
<1>2. QED
  BY <1>1

LEMMA LineWith ==
  ASSUME NEW l \in AnyLine, NEW x
  PROVE  /\ [l EXCEPT !.kind = x] = [kind |-> x, name |-> l.name, rest |-> l.rest, value |-> l.value]
         /\ [l EXCEPT !.rest = x] = [kind |-> l.kind, name |-> l.name, rest |-> x, value |-> l.value]
         /\ [l EXCEPT !.value = x] = [kind |-> l.kind, name |-> l.name, rest |-> l.rest, value |-> x]
<1> DEFINE K == {"header", "key", "note"}
           N == Names
           R == {"", "spaces", "comment", "open"}
           V == Value
<1>1. l \in [kind : K, name : N, rest : R, value : V]
  BY DEF AnyLine
<1> HIDE DEF K, N, R, V
<1>2. QED
  BY ONLY <1>1

LEMMA ValueIs ==
  ASSUME NEW says \in {"true", "false", "neither"}
  PROVE  [says |-> says, isNum |-> FALSE, num |-> 0] \in Value
  BY DEF Value

LEMMA NoValueIs == NoValue \in Value
  BY ValueIs DEF NoValue

LEMMA CutIs ==
  ASSUME NEW l \in AnyLine, NEW c \in Cut(l)
  PROVE  /\ c \in AnyLine /\ c.name = l.name /\ (c.kind = "header" <=> l.kind = "header")
         /\ Cut(c) \subseteq Cut(l)
<1>0. TornValues \subseteq Value
  BY SettingsAssumption
<1>1. CASE l.kind = "header"
  <2>1. PICK rest \in {"open", "", "comment"} :
          c = [l EXCEPT !.rest = rest] /\ (rest \in {"", "comment"} => l.rest = "comment")
    BY <1>1 DEF Cut
  <2>2. /\ c = [kind |-> l.kind, name |-> l.name, rest |-> rest, value |-> l.value]
        /\ \A x : [c EXCEPT !.rest = x] = [l EXCEPT !.rest = x]
    BY <2>1 DEF AnyLine
  <2>3. c.kind = "header" /\ c.name = l.name /\ c.rest = rest /\ c \in AnyLine
    BY <1>1, <2>2 DEF AnyLine
  <2>4. Cut(c) \subseteq Cut(l)
    <3> DEFINE C == {"open"} \cup IF c.rest = "comment" THEN {"", "comment"} ELSE {}
               L == {"open"} \cup IF l.rest = "comment" THEN {"", "comment"} ELSE {}
    <3>1. C \subseteq L
      BY <2>1, <2>3
    <3>2. Cut(c) = {[c EXCEPT !.rest = x] : x \in C} /\ Cut(l) = {[l EXCEPT !.rest = x] : x \in L}
      BY <1>1, <2>3 DEF Cut
    <3> HIDE DEF C, L
    <3>3. QED
      BY <2>2, <3>1, <3>2
  <2>5. QED
    BY <1>1, <2>3, <2>4
<1>2. CASE l.kind = "key"
  <2> DEFINE note == Note(l.name)
  <2>1. Cut(l) = {note} \cup {[l EXCEPT !.value = v] : v \in TornValues}
    BY <1>2 DEF Cut
  <2>2. note = [kind |-> "note", name |-> l.name, rest |-> "", value |-> NoValue]
    BY DEF Note
  <2>3. CASE c = note
    <3>1. c = [kind |-> "note", name |-> l.name, rest |-> "", value |-> NoValue]
      BY <2>2, <2>3
    <3>n. NoValue \in Value /\ l.name \in Names
      <4>1. NoValue \in Value
        BY NoValueIs
      <4>2. l.name \in Names
        BY DEF AnyLine
      <4>3. QED
        BY <4>1, <4>2
    <3>a. c.kind = "note" /\ c.name = l.name /\ c \in AnyLine
      <4> HIDE DEF note
      <4>1. QED
        BY <3>1, <3>n DEF AnyLine
    <3>2. Cut(c) = {c}
      BY <3>a DEF Cut
    <3>3. QED
      BY <1>2, <2>3, <3>a, <3>2
  <2>4. CASE c # note
    <3>1. PICK v \in TornValues : c = [l EXCEPT !.value = v]
      BY <2>1, <2>4
    <3>2. c = [kind |-> "key", name |-> l.name, rest |-> l.rest, value |-> v]
      BY <1>2, <3>1, LineWith
    <3>3. c.kind = "key" /\ c.name = l.name /\ c \in AnyLine
      BY <1>0, <3>2 DEF AnyLine
    <3>4. Cut(c) = {note} \cup {[c EXCEPT !.value = w] : w \in TornValues}
      BY <3>3 DEF Cut
    <3>5. ASSUME NEW w PROVE [c EXCEPT !.value = w] = [l EXCEPT !.value = w]
      <4>1. [c EXCEPT !.value = w] = [kind |-> c.kind, name |-> c.name, rest |-> c.rest, value |-> w]
        BY <3>3, LineWith, Zenon
      <4>2. [l EXCEPT !.value = w] = [kind |-> l.kind, name |-> l.name, rest |-> l.rest, value |-> w]
        BY LineWith, Zenon
      <4>3. c.kind = l.kind /\ c.name = l.name /\ c.rest = l.rest
        BY <1>2, <3>2
      <4>4. QED
        BY <4>1, <4>2, <4>3, Zenon
    <3>6. Cut(c) \subseteq Cut(l)
      <4> HIDE DEF note
      <4>1. QED
        BY <2>1, <3>4, <3>5, Zenon
    <3>7. QED
      BY <1>2, <3>3, <3>6
  <2>5. QED
    BY <2>3, <2>4
<1>3. CASE l.kind = "note"
  <2>1. Cut(l) = {l}
    BY <1>3 DEF Cut
  <2>2. QED
    BY <2>1
<1>4. QED
  BY <1>1, <1>2, <1>3 DEF AnyLine

\* What the script puts in the place of a line, or adds, is a header or of the one setting.
IsAdded(line) == line.kind = "header" \/ line.name \in Prefixed
IsReplaced(line, by) == line.kind # "header" /\ line.name \in Prefixed /\ by.kind # "header" /\ by.name \in Prefixed

\* A file that has the first n lines of another.
Begins(left, lines, n) ==
  /\ left \in Seq(AnyLine) /\ n \in 0 .. Len(lines) /\ n <= Len(left)
  /\ \A i \in 1 .. n : left[i] = lines[i] \/ IsReplaced(lines[i], left[i])
  /\ n < Len(left) => IsAdded(left[n + 1]) \/ (n < Len(lines) /\ left[n + 1] \in Cut(lines[n + 1]))
  /\ \A i \in n + 2 .. Len(left) : IsAdded(left[i])

LEMMA HitsArePrefixed ==
  ASSUME NEW read
  PROVE  \A i \in Hits(read) : i \in DOMAIN read /\ read[i].kind # "header" /\ read[i].name \in Prefixed
  BY DEF Hits

LEMMA RecordIs ==
  ASSUME NEW kind \in {"header", "key", "note"}, NEW name \in Names, NEW rest \in {"", "spaces", "comment", "open"},
         NEW v \in Value
  PROVE  [kind |-> kind, name |-> name, rest |-> rest, value |-> v] \in AnyLine
  BY DEF AnyLine

LEMMA LinesAdded ==
  ASSUME NEW enabled
  PROVE  /\ Line(enabled) \in AnyLine /\ Line(enabled).kind = "key" /\ Line(enabled).name \in Prefixed
         /\ Header("symbols") \in AnyLine /\ Header("symbols").kind = "header"
<1>1. "auto_download" \in Prefixed
  BY KeysOfConfig
<1> DEFINE header == Header("symbols")
           line == Line(enabled)
           says == IF enabled THEN "true" ELSE "false"
           v == [says |-> says, isNum |-> FALSE, num |-> 0]
<1>2. header = [kind |-> "header", name |-> "symbols", rest |-> "", value |-> NoValue]
  BY DEF Header
<1>3. line = [kind |-> "key", name |-> "auto_download", rest |-> "", value |-> v]
  BY DEF Line
<1>4. says \in {"true", "false", "neither"}
  OBVIOUS
<1> HIDE DEF says
<1>5. v \in Value /\ NoValue \in Value
  BY <1>4, ValueIs, NoValueIs, Zenon
<1> HIDE DEF v, header, line
<1>s. "symbols" \in Names /\ "auto_download" \in Names
  BY DEF Names
<1>6. header \in AnyLine /\ header.kind = "header"
  BY <1>2, <1>5, <1>s, RecordIs
<1>7. line \in AnyLine /\ line.kind = "key" /\ line.name = "auto_download"
  BY <1>3, <1>5, <1>s, RecordIs
<1>8. QED
  BY <1>1, <1>6, <1>7 DEF header, line

\* The script keeps a beginning that it reads.
LEMMA RewrittenBegins ==
  ASSUME NEW lines \in Seq(AnyLine), NEW read, NEW n, Begins(read, lines, n), NEW enabled
  PROVE  Begins(Rewritten(read, enabled), lines, n)
<1> DEFINE new == Rewritten(read, enabled)
           m == Len(read)
           H == Hits(read)
           line == Line(enabled)
           header == Header("symbols")
<1>1. /\ read \in Seq(AnyLine) /\ m \in Nat /\ DOMAIN read = 1 .. m /\ Len(lines) \in Nat
      /\ n \in Nat /\ n <= Len(lines) /\ n <= m
  BY DEF Begins
<1>2. /\ \A i \in 1 .. n : read[i] = lines[i] \/ IsReplaced(lines[i], read[i])
      /\ n < m => IsAdded(read[n + 1]) \/ (n < Len(lines) /\ read[n + 1] \in Cut(lines[n + 1]))
      /\ \A i \in n + 2 .. m : IsAdded(read[i])
  BY DEF Begins
<1>3. \A i \in H : i \in DOMAIN read /\ read[i].kind # "header" /\ read[i].name \in Prefixed
  BY HitsArePrefixed
<1>4. line \in AnyLine /\ line.kind = "key" /\ line.name \in Prefixed /\ header \in AnyLine /\ header.kind = "header"
  BY LinesAdded
<1>5. new = IF H = {} THEN read \o <<header, line>> ELSE [i \in DOMAIN read |-> IF i \in H THEN line ELSE read[i]]
  BY DEF Rewritten, Replaced
<1>6. IsAdded(line) /\ IsAdded(header)
  BY <1>4 DEF IsAdded
<1>7. ASSUME NEW i \in 1 .. n PROVE read[i].kind # "header" /\ read[i].name \in Prefixed => IsReplaced(lines[i], line)
  BY <1>2, <1>4 DEF IsReplaced
<1> HIDE DEF new, m, H, line, header
<1>8. CASE H = {}
  <2>1. new = read \o <<header, line>>
    BY <1>5, <1>8
  <2>2. /\ new \in Seq(AnyLine) /\ Len(new) = m + 2
        /\ \A i \in 1 .. m : new[i] = read[i]
        /\ new[m + 1] = header /\ new[m + 2] = line
    <3>1. <<header, line>> \in Seq(AnyLine) /\ Len(<<header, line>>) = 2
      BY <1>4
    <3>2. new \in Seq(AnyLine)
      BY <1>1, <2>1, <3>1
    <3>3. QED
      BY <1>1, <2>1, <3>1, <3>2 DEF m
  <2>3. \A i \in 1 .. n : new[i] = lines[i] \/ IsReplaced(lines[i], new[i])
    BY <1>1, <1>2, <2>2
  <2>4. IsAdded(new[n + 1]) \/ (n < Len(lines) /\ new[n + 1] \in Cut(lines[n + 1]))
    <3>1. CASE n = m
      BY <1>6, <2>2, <3>1
    <3>2. CASE n # m
      <4>1. n < m /\ n + 1 \in 1 .. m
        BY <1>1, <3>2
      <4>2. QED
        BY <1>2, <2>2, <4>1
    <3>3. QED
      BY <3>1, <3>2
  <2>5. ASSUME NEW i \in n + 2 .. m + 2 PROVE IsAdded(new[i])
    <3>1. i \in n + 2 .. m \/ i = m + 1 \/ i = m + 2
      BY <1>1
    <3>2. CASE i \in n + 2 .. m
      <4>1. i \in 1 .. m
        BY <1>1, <3>2
      <4>2. QED
        BY <1>2, <2>2, <3>2, <4>1
    <3>3. QED
      BY <1>6, <2>2, <3>1, <3>2
  <2>6. n \in 0 .. Len(lines) /\ n <= Len(new)
    BY <1>1, <2>2
  <2>7. QED
    BY <2>2, <2>3, <2>4, <2>5, <2>6 DEF Begins, new
<1>9. CASE H # {}
  <2>1. new = [i \in 1 .. m |-> IF i \in H THEN line ELSE read[i]]
    BY <1>1, <1>5, <1>9
  <2>2. /\ new \in Seq(AnyLine) /\ Len(new) = m
        /\ \A i \in 1 .. m : (i \in H => new[i] = line) /\ (i \notin H => new[i] = read[i])
    <3>1. \A i \in 1 .. m : read[i] \in AnyLine
      BY <1>1
    <3>2. new \in [1 .. m -> AnyLine]
      BY <1>4, <2>1, <3>1
    <3>3. QED
      BY <1>1, <2>1, <3>2
  <2>3. ASSUME NEW i \in 1 .. n PROVE new[i] = lines[i] \/ IsReplaced(lines[i], new[i])
    <3>1. i \in 1 .. m
      BY <1>1
    <3>2. QED
      BY <1>2, <1>3, <1>7, <2>2, <3>1
  <2>4. ASSUME n < m PROVE IsAdded(new[n + 1]) \/ (n < Len(lines) /\ new[n + 1] \in Cut(lines[n + 1]))
    <3>1. n + 1 \in 1 .. m
      BY <1>1, <2>4
    <3>2. QED
      BY <1>2, <1>6, <2>2, <2>4, <3>1
  <2>5. ASSUME NEW i \in n + 2 .. m PROVE IsAdded(new[i])
    <3>1. i \in 1 .. m
      BY <1>1
    <3>2. QED
      BY <1>2, <1>6, <2>2, <3>1
  <2>6. n \in 0 .. Len(lines) /\ n <= Len(new)
    BY <1>1, <2>2
  <2>7. QED
    BY <2>2, <2>3, <2>4, <2>5, <2>6 DEF Begins, new
<1>10. QED
  BY <1>8, <1>9

LEMMA BeginsItself ==
  ASSUME NEW lines \in Seq(AnyLine)
  PROVE  Begins(lines, lines, Len(lines))
<1>1. Len(lines) \in Nat
  OBVIOUS
<1>2. QED
  BY <1>1 DEF Begins

\* What is left of a file that begins like another does so too.
LEMMA TruncationBegins ==
  ASSUME NEW lines \in Seq(AnyLine), NEW s, NEW n, Begins(s, lines, n), NEW left \in Truncations(s)
  PROVE  \E k \in 0 .. Len(lines) : Begins(left, lines, k)
<1> DEFINE m == Len(s)
<1>1. /\ s \in Seq(AnyLine) /\ m \in Nat /\ DOMAIN s = 1 .. m /\ Len(lines) \in Nat
      /\ n \in Nat /\ n <= Len(lines) /\ n <= m /\ \A i \in 1 .. m : s[i] \in AnyLine
  BY DEF Begins
<1>2. /\ \A i \in 1 .. n : s[i] = lines[i] \/ IsReplaced(lines[i], s[i])
      /\ n < m => IsAdded(s[n + 1]) \/ (n < Len(lines) /\ s[n + 1] \in Cut(lines[n + 1]))
      /\ \A i \in n + 2 .. m : IsAdded(s[i])
  BY DEF Begins
<1> HIDE DEF m
<1>3. CASE \E b \in 0 .. m : left = SubSeq(s, 1, b)
  <2>1. PICK b \in 0 .. m : left = SubSeq(s, 1, b)
    BY <1>3
  <2>2. left \in Seq(AnyLine) /\ Len(left) = b /\ \A i \in 1 .. b : left[i] = s[i]
    BY <1>1, <2>1
  <2> DEFINE k == IF b <= n THEN b ELSE n
  <2>3. k \in 0 .. Len(lines) /\ k <= b /\ k <= n /\ k \in Nat /\ (k < b => k = n) /\ b \in Nat /\ b <= m
    BY <1>1, <2>1
  <2> HIDE DEF k
  <2>4. ASSUME NEW i \in 1 .. k PROVE left[i] = lines[i] \/ IsReplaced(lines[i], left[i])
    <3>1. i \in 1 .. n /\ i \in 1 .. b
      BY <1>1, <2>3
    <3>2. QED
      BY <1>2, <2>2, <3>1
  <2>5. ASSUME k < b PROVE IsAdded(left[k + 1]) \/ (k < Len(lines) /\ left[k + 1] \in Cut(lines[k + 1]))
    <3>1. k = n /\ n < m /\ k + 1 \in 1 .. b
      BY <1>1, <2>3, <2>5
    <3>2. QED
      BY <1>2, <2>2, <3>1
  <2>6. ASSUME NEW i \in k + 2 .. b PROVE IsAdded(left[i])
    <3>1. k < b /\ i \in 1 .. b
      BY <2>3
    <3>2. i \in n + 2 .. m
      BY <1>1, <2>3, <3>1
    <3>3. QED
      BY <1>2, <2>2, <3>1, <3>2
  <2>7. QED
    BY <2>2, <2>3, <2>4, <2>5, <2>6 DEF Begins
<1>4. CASE \E b \in 1 .. m : \E c \in Cut(s[b]) : left = Append(SubSeq(s, 1, b - 1), c)
  <2>1. PICK b \in 1 .. m : \E c \in Cut(s[b]) : left = Append(SubSeq(s, 1, b - 1), c)
    BY <1>4
  <2>2. PICK c \in Cut(s[b]) : left = Append(SubSeq(s, 1, b - 1), c)
    BY <2>1
  <2>3. /\ c \in AnyLine /\ c.name = s[b].name /\ (c.kind = "header" <=> s[b].kind = "header")
        /\ Cut(c) \subseteq Cut(s[b])
    BY <1>1, CutIs
  <2>4. left \in Seq(AnyLine) /\ Len(left) = b /\ left[b] = c /\ \A i \in 1 .. b - 1 : left[i] = s[i]
    <3> DEFINE first == SubSeq(s, 1, b - 1)
    <3>1. first \in Seq(AnyLine) /\ Len(first) = b - 1 /\ \A i \in 1 .. b - 1 : first[i] = s[i]
      BY <1>1
    <3>2. left = Append(first, c)
      BY <2>2
    <3> HIDE DEF first
    <3>3. QED
      BY <1>1, <2>3, <3>1, <3>2
  <2>5. IsAdded(s[b]) => IsAdded(c)
    BY <2>3 DEF IsAdded
  <2>6. \A l : IsReplaced(l, s[b]) => IsAdded(c)
    BY <2>3 DEF IsReplaced, IsAdded
  <2> DEFINE k == IF b <= n THEN b - 1 ELSE n
  <2>7. k \in 0 .. Len(lines) /\ k < b /\ k <= n /\ k \in Nat /\ b \in Nat /\ b <= m /\ (k + 1 < b => k = n)
    BY <1>1
  <2>8. ASSUME NEW i \in 1 .. k PROVE left[i] = lines[i] \/ IsReplaced(lines[i], left[i])
    <3>1. i \in 1 .. n /\ i \in 1 .. b - 1
      BY <1>1, <2>7
    <3>2. QED
      BY <1>2, <2>4, <3>1
  <2>9. IsAdded(left[k + 1]) \/ (k < Len(lines) /\ left[k + 1] \in Cut(lines[k + 1]))
    <3>1. CASE b <= n
      <4>1. k + 1 = b /\ b \in 1 .. n /\ k < Len(lines)
        BY <1>1, <3>1
      <4>2. s[b] = lines[b] \/ IsReplaced(lines[b], s[b])
        BY <1>2, <4>1
      <4> HIDE DEF k
      <4>3. QED
        BY <2>4, <2>6, <4>1, <4>2
    <3>2. CASE b = n + 1
      <4>1. k = n /\ k + 1 = b /\ n < m
        BY <1>1, <3>2
      <4>2. IsAdded(s[b]) \/ (k < Len(lines) /\ s[b] \in Cut(lines[b]))
        BY <1>2, <4>1
      <4> HIDE DEF k
      <4>3. CASE IsAdded(s[b])
        BY <2>4, <2>5, <4>1, <4>3
      <4>4. CASE k < Len(lines) /\ s[b] \in Cut(lines[b])
        <5>1. lines[b] \in AnyLine
          BY <1>1, <4>1, <4>4
        <5>2. Cut(s[b]) \subseteq Cut(lines[b])
          BY <4>4, <5>1, CutIs
        <5>3. QED
          BY <2>2, <2>4, <4>1, <4>4, <5>2
      <4>5. QED
        BY <4>2, <4>3, <4>4
    <3>3. CASE b > n + 1
      <4>1. k = n /\ n < m /\ n + 1 \in 1 .. b - 1
        BY <1>1, <3>3
      <4>2. QED
        BY <1>2, <2>4, <4>1
    <3>4. QED
      BY <1>1, <3>1, <3>2, <3>3
  <2>10. ASSUME NEW i \in k + 2 .. b PROVE IsAdded(left[i])
    <3>1. k = n /\ i \in n + 2 .. m
      BY <1>1, <2>7
    <3>2. IsAdded(s[i])
      BY <1>2, <3>1
    <3>3. CASE i = b
      BY <2>4, <2>5, <3>2, <3>3
    <3>4. CASE i # b
      <4>1. i \in 1 .. b - 1
        BY <1>1, <3>1, <3>4
      <4>2. QED
        BY <2>4, <3>2, <4>1
    <3>5. QED
      BY <3>3, <3>4
  <2> HIDE DEF k
  <2>11. k <= b
    BY <2>7
  <2>12. QED
    BY <2>4, <2>7, <2>8, <2>9, <2>10, <2>11 DEF Begins
<1>5. QED
  BY <1>3, <1>4 DEF Truncations, m

\* In a file that begins like another the settings are those of the lines that both have.
LEMMA BeginningSays ==
  ASSUME NEW lines \in Seq(AnyLine), NEW left, NEW n, Begins(left, lines, n), NEW k \in DOMAIN Config \ {AutoDownload}
  PROVE  \/ LoadConfig(left)[k] = LoadConfig(SubSeq(lines, 1, n))[k]
         \/ n + 1 \in Settings(left, k) /\ n < Len(lines) /\ left[n + 1] \in Cut(lines[n + 1])
<1> DEFINE first == SubSeq(lines, 1, n)
           m == Len(left)
<1>1. /\ left \in Seq(AnyLine) /\ m \in Nat /\ DOMAIN left = 1 .. m /\ Len(lines) \in Nat
      /\ n \in Nat /\ n <= Len(lines) /\ n <= m
  BY DEF Begins
<1>2. /\ \A i \in 1 .. n : left[i] = lines[i] \/ IsReplaced(lines[i], left[i])
      /\ n < m => IsAdded(left[n + 1]) \/ (n < Len(lines) /\ left[n + 1] \in Cut(lines[n + 1]))
      /\ \A i \in n + 2 .. m : IsAdded(left[i])
  BY DEF Begins
<1>3. DOMAIN first = 1 .. n /\ \A i \in 1 .. n : first[i] = lines[i]
  BY <1>1
<1> HIDE DEF first, m
<1>4. \A i \in 1 .. n : left[i] = first[i] \/ IsReplaced(first[i], left[i])
  BY <1>2, <1>3
<1>5. ASSUME NEW i \in 1 .. n PROVE SectionOf(left, i) = SectionOf(first, i)
  <2>1. \A j \in 1 .. n : /\ first[j].kind = "header" <=> left[j].kind = "header"
                          /\ first[j].kind = "header" => left[j] = first[j]
    BY <1>4 DEF IsReplaced
  <2>2. QED
    BY <1>1, <2>1, SameSections
<1>6. ASSUME NEW section, NEW name \in Prefixed PROVE <<section, name>> # k
  BY <1>6, KeysOfConfig
<1>7. ASSUME NEW i \in 1 .. n
      PROVE  /\ i \in Settings(left, k) <=> i \in Settings(first, k)
             /\ i \in Settings(first, k) => left[i] = first[i]
  <2>1. i \in DOMAIN left /\ i \in DOMAIN first
    BY <1>1, <1>3
  <2>2. CASE left[i] = first[i]
    BY <1>5, <2>1, <2>2 DEF Settings
  <2>3. CASE IsReplaced(first[i], left[i])
    <3>1. first[i].name \in Prefixed /\ left[i].name \in Prefixed
      BY <2>3 DEF IsReplaced
    <3>2. i \notin Settings(left, k) /\ i \notin Settings(first, k)
      BY <1>6, <3>1 DEF Settings
    <3>3. QED
      BY <3>2
  <2>4. QED
    BY <1>4, <2>2, <2>3
<1>8. \A i \in Settings(left, k) : ~IsAdded(left[i])
  BY <1>6 DEF Settings, IsAdded
<1>9. CASE n + 1 \in Settings(left, k)
  <2>1. n < m /\ ~IsAdded(left[n + 1])
    <3>1. n + 1 \in 1 .. m
      BY <1>1, <1>9 DEF Settings
    <3>2. QED
      BY <1>1, <1>8, <1>9, <3>1
  <2>2. QED
    BY <1>2, <1>9, <2>1
<1>10. CASE n + 1 \notin Settings(left, k)
  <2>1. Settings(left, k) \subseteq 1 .. m /\ Settings(first, k) \subseteq 1 .. n
    BY <1>1, <1>3 DEF Settings
  <2>2. Settings(left, k) \subseteq 1 .. n
    <3>1. ASSUME NEW i \in Settings(left, k), i \notin 1 .. n PROVE FALSE
      <4>1. i \in n + 2 .. m
        BY <1>1, <1>10, <2>1, <3>1
      <4>2. QED
        BY <1>2, <1>8, <4>1
    <3>2. QED
      BY <3>1
  <2>3. Settings(left, k) = Settings(first, k)
    BY <1>7, <2>1, <2>2
  <2>4. ASSUME Settings(first, k) # {} PROVE left[Max(Settings(first, k))] = first[Max(Settings(first, k))]
    <3>1. Settings(first, k) \in SUBSET (1 .. n)
      BY <2>1
    <3>2. Max(Settings(first, k)) \in Settings(first, k)
      BY <1>1, <2>4, <3>1, MaxIs
    <3>3. QED
      BY <1>7, <3>1, <3>2
  <2>5. LoadConfig(left)[k] = LoadConfig(first)[k]
    BY <2>3, <2>4, SameSetting
  <2>6. QED
    BY <2>5 DEF first
<1>11. QED
  BY <1>9, <1>10

LEMMA SettingsKept ==
  ASSUME NEW lines \in Inis, NEW enabled \in BOOLEAN
  PROVE  SettingsSurvive(lines, enabled)
<1>1. lines \in Seq(AnyLine)
  BY SettingsAssumption, LinesAreLines
<1>2. Begins(lines, lines, Len(lines)) /\ Len(lines) \in 0 .. Len(lines)
  BY <1>1, BeginsItself DEF Begins
<1>3. ASSUME NEW left \in WriteAutoDownloadIni(lines, enabled)
      PROVE  \E n \in 0 .. Len(lines) : Begins(left, lines, n)
  <2>1. CASE left = lines
    BY <1>2, <2>1
  <2>2. CASE left # lines
    <3>1. PICK read \in Truncations(lines) : left \in Truncations(Rewritten(read, enabled))
      BY <1>3, <2>2 DEF WriteAutoDownloadIni
    <3>2. PICK n \in 0 .. Len(lines) : Begins(read, lines, n)
      BY <1>1, <1>2, <3>1, TruncationBegins
    <3>3. Begins(Rewritten(read, enabled), lines, n)
      BY <1>1, <3>2, RewrittenBegins
    <3>4. QED
      BY <1>1, <3>1, <3>3, TruncationBegins
  <2>3. QED
    BY <2>1, <2>2
<1>4. QED
  BY <1>1, <1>3, BeginningSays DEF SettingsSurvive

----------------------------------------------------------------------------
\* A file of settings that was picked is one of those that are looked at.
PickedSettings ==
  Of("settings") => \E lines \in Inis, enabled \in BOOLEAN : input = <<<<lines, enabled>>>>

LEMMA PickedSettingsHolds == MCSpec => []PickedSettings
<1>1. MCInit => PickedSettings
  BY DEF MCInit, PickedSettings, Of
<1>2. PickedSettings /\ [Pick \/ SessionStep \/ FolderStep]_<<inputVars, historyVars, folderVars>> => PickedSettings'
  <2> SUFFICES ASSUME PickedSettings, [Pick \/ SessionStep \/ FolderStep]_<<inputVars, historyVars, folderVars>>
               PROVE  PickedSettings'
    OBVIOUS
  <2>1. CASE Pick
    <3>1. subject' = subject /\ input' \in {<<i>> : i \in Inputs}
      BY <2>1 DEF Pick
    <3>2. ASSUME subject = "settings" PROVE Inputs = Inis \X BOOLEAN
      BY <3>2, Zenon DEF Inputs
    <3>3. QED
      BY <3>1, <3>2 DEF PickedSettings, Of
  <2>2. CASE UNCHANGED inputVars
    BY <2>2 DEF inputVars, PickedSettings, Of
  <2>3. QED
    BY <2>1, <2>2 DEF SessionStep, FolderStep
<1>3. QED
  BY <1>1, <1>2, PTL DEF MCSpec

\* When a script changes the setting that it may change, in any file of settings of any length, no
\* other setting is read differently by the next launch, and changing it so again changes nothing;
\* if REDscope and the script find the headers of the file alike, what the script set is what is
\* read.  When reading or writing the file fails at any place, the other settings that are read
\* are those of a beginning of the file, but for one whose line is torn.
THEOREM SettingsAreRead == MCSpec => []SettingsAreKept
<1>1. PickedSettings => SettingsAreKept
  <2> SUFFICES ASSUME PickedSettings, Of("settings")
               PROVE  SettingIsKept(input[1][1], input[1][2]) /\ SettingsSurvive(input[1][1], input[1][2])
    BY DEF SettingsAreKept
  <2>1. PICK lines \in Inis, enabled \in BOOLEAN : input = <<<<lines, enabled>>>>
    BY DEF PickedSettings
  <2>2. input[1][1] = lines /\ input[1][2] = enabled
    BY <2>1
  <2>3. QED
    BY <2>2, SettingKept, SettingsKept
<1>2. QED
  BY <1>1, PickedSettingsHolds, PTL

-----------------------------------------------------------------------------
(* The conflicts *)

\* The database after a file, from the one before it.
IsMerged(m, files) == m = [i \in 0..Len(files) |-> IF i = 0 THEN EmptyDB ELSE MergeConflictJson(m[i - 1], files[i])]
MergedTo(m, files, k) == \A i \in 0 .. k : m[i] = IF i = 0 THEN EmptyDB ELSE MergeConflictJson(m[i - 1], files[i])

LEMMA MergedIs ==
  ASSUME NEW files, Len(files) \in Nat
  PROVE  MergedTo(Merged(files), files, Len(files))
<1> DEFINE N == Len(files)
           T == {k \in Nat : ~\E m : MergedTo(m, files, k)}
<1>1. T = {}
  <2>1. SUFFICES ASSUME T # {} PROVE FALSE
    OBVIOUS
  <2>2. PICK k \in T : \A l \in T : k <= l
    <3>1. T \in SUBSET Nat
      OBVIOUS
    <3> HIDE DEF T
    <3>2. QED
      BY <2>1, <3>1, LeastOf
  <2>3. k \in Nat /\ ~\E m : MergedTo(m, files, k)
    OBVIOUS
  <2>4. CASE k = 0
    <3> DEFINE m == [i \in 0 .. 0 |-> EmptyDB]
    <3>1. \A i \in 0 .. 0 : i = 0 /\ m[i] = EmptyDB
      OBVIOUS
    <3> HIDE DEF m
    <3>2. MergedTo(m, files, 0)
      BY <3>1 DEF MergedTo
    <3>3. QED
      BY <2>3, <2>4, <3>2
  <2>5. CASE k # 0
    <3>1. k - 1 \in Nat /\ ~(k <= k - 1)
      BY <2>3, <2>5
    <3>2. PICK m : MergedTo(m, files, k - 1)
      BY <2>2, <3>1
    <3> DEFINE e == [i \in 0 .. k |-> IF i = k THEN MergeConflictJson(m[k - 1], files[k]) ELSE m[i]]
    <3>3. e[k] = MergeConflictJson(m[k - 1], files[k]) /\ \A i \in 0 .. k - 1 : e[i] = m[i]
      BY <2>3
    <3> HIDE DEF e
    <3>4. ASSUME NEW i \in 0 .. k PROVE e[i] = IF i = 0 THEN EmptyDB ELSE MergeConflictJson(e[i - 1], files[i])
      <4>1. CASE i = k
        BY <2>3, <2>5, <3>1, <3>3, <4>1
      <4>2. CASE i # k /\ i # 0
        <5>1. i \in 0 .. k - 1 /\ i - 1 \in 0 .. k - 1
          BY <2>3, <4>2
        <5>2. m[i] = MergeConflictJson(m[i - 1], files[i])
          BY <3>2, <4>2, <5>1 DEF MergedTo
        <5>3. e[i] = m[i] /\ e[i - 1] = m[i - 1]
          BY <3>3, <5>1
        <5>4. QED
          BY <4>2, <5>2, <5>3
      <4>3. CASE i # k /\ i = 0
        <5>1. i \in 0 .. k - 1
          BY <2>3, <4>3
        <5>2. m[i] = EmptyDB
          BY <3>2, <4>3, <5>1 DEF MergedTo
        <5>3. QED
          BY <3>3, <4>3, <5>1, <5>2
      <4>4. QED
        BY <4>1, <4>2, <4>3
    <3>5. MergedTo(e, files, k)
      BY <3>4 DEF MergedTo
    <3>6. QED
      BY <2>3, <3>5
  <2>6. QED
    BY <2>4, <2>5
<1>2. PICK d : MergedTo(d, files, N)
  BY <1>1
<1> DEFINE m == [i \in 0 .. N |-> d[i]]
<1>3. \A i \in 0 .. N : m[i] = d[i]
  OBVIOUS
<1>4. \A i \in 0 .. N : m[i] = IF i = 0 THEN EmptyDB ELSE MergeConflictJson(m[i - 1], files[i])
  <2> TAKE i \in 0 .. N
  <2> HIDE DEF m
  <2>1. CASE i = 0
    BY <1>2, <1>3, <2>1 DEF MergedTo
  <2>2. CASE i # 0
    <3>1. i - 1 \in 0 .. N
      BY <2>2
    <3>2. QED
      BY <1>2, <1>3, <2>2, <3>1 DEF MergedTo
  <2>3. QED
    BY <2>1, <2>2
<1>5. m = [i \in 0 .. N |-> m[i]]
  OBVIOUS
<1> HIDE DEF m
<1>6. IsMerged(m, files)
  BY <1>4, <1>5 DEF IsMerged
<1>7. IsMerged(Merged(files), files)
  BY <1>6, Zenon DEF Merged, IsMerged
<1> DEFINE M == Merged(files)
<1> HIDE DEF M
<1>8. M = [i \in 0..N |-> IF i = 0 THEN EmptyDB ELSE MergeConflictJson(M[i - 1], files[i])]
  BY <1>7 DEF IsMerged, M
<1>9. QED
  BY <1>8 DEF MergedTo, M

\* What the database has after the first k files.
ModsOf(db, files, k) ==
  /\ IsFiniteSet(DOMAIN db.mods)
  /\ \A n : n \in DOMAIN db.mods <=> \E j \in 1 .. k : n \in DOMAIN files[j].mods
  /\ \A n \in DOMAIN db.mods : \E j \in 1 .. k :
       /\ n \in DOMAIN files[j].mods /\ db.mods[n] = files[j].mods[n]
       /\ \A i \in 1 .. k : n \in DOMAIN files[i].mods => j <= i
DependenciesOf(db, files, k) ==
  /\ \A n : n \in DOMAIN db.dependencies <=> \E j \in 1 .. k : n \in DOMAIN files[j].dependencies
  /\ \A n \in DOMAIN db.dependencies : \E j \in 1 .. k :
       /\ n \in DOMAIN files[j].dependencies /\ db.dependencies[n] = files[j].dependencies[n]
       /\ \A i \in 1 .. k : n \in DOMAIN files[i].dependencies => i <= j
GroupsOf(db, files, k) ==
  /\ \A g : g \in db.conflicts <=> \E j \in 1 .. k : g \in Groups(files[j].conflicts)
  /\ \A g : g \in db.exceptions <=> \E j \in 1 .. k : g \in Groups(files[j].exceptions)

LEMMA MergeOne ==
  ASSUME NEW db, NEW json
  PROVE  LET d == MergeConflictJson(db, json)
         IN /\ d.mods = Over(db.mods, json.mods) /\ d.dependencies = Over(json.dependencies, db.dependencies)
            /\ d.conflicts = db.conflicts \cup Groups(json.conflicts)
            /\ d.exceptions = db.exceptions \cup Groups(json.exceptions)
  BY DEF MergeConflictJson

LEMMA ModsStep ==
  ASSUME NEW files, IsDatabase(files), NEW k \in Nat, k + 1 \in 1 .. Len(files), NEW db, ModsOf(db, files, k)
  PROVE  ModsOf(MergeConflictJson(db, files[k + 1]), files, k + 1)
<1> DEFINE d == MergeConflictJson(db, files[k + 1])
           f == files[k + 1].mods
<1>1. d.mods = Over(db.mods, f)
  BY MergeOne
<1> HIDE DEF d
<1>2. /\ DOMAIN d.mods = DOMAIN db.mods \cup DOMAIN f
      /\ \A n \in DOMAIN db.mods : d.mods[n] = db.mods[n]
      /\ \A n \in DOMAIN f : n \notin DOMAIN db.mods => d.mods[n] = f[n]
  <2> DEFINE e == db.mods
           h == d.mods
  <2>1. h = Over(e, f)
    BY <1>1
  <2> HIDE DEF e, f, h
  <2>2. DOMAIN h = DOMAIN e \cup DOMAIN f
    BY <2>1 DEF Over
  <2>3. \A n \in DOMAIN e : h[n] = e[n]
    BY <2>1 DEF Over
  <2>4. \A n \in DOMAIN f : n \notin DOMAIN e => h[n] = f[n]
    BY <2>1 DEF Over
  <2>5. QED
    BY <2>2, <2>3, <2>4 DEF e, h
<1>3. IsFiniteSet(DOMAIN d.mods)
  <2>1. IsFiniteSet(DOMAIN f)
    BY DEF IsDatabase
  <2>2. IsFiniteSet(DOMAIN db.mods)
    BY DEF ModsOf
  <2> HIDE DEF f
  <2>3. IsFiniteSet(DOMAIN db.mods \cup DOMAIN f)
    BY <2>1, <2>2, FS_Union
  <2>4. QED
    BY <1>2, <2>3
<1>4. \A j : j \in 1 .. k + 1 <=> j \in 1 .. k \/ j = k + 1
  OBVIOUS
<1>5. ASSUME NEW n PROVE n \in DOMAIN d.mods <=> \E j \in 1 .. k + 1 : n \in DOMAIN files[j].mods
  BY <1>2, <1>4 DEF ModsOf
<1>6. ASSUME NEW n \in DOMAIN d.mods
      PROVE  \E j \in 1 .. k + 1 : /\ n \in DOMAIN files[j].mods /\ d.mods[n] = files[j].mods[n]
                                   /\ \A i \in 1 .. k + 1 : n \in DOMAIN files[i].mods => j <= i
  <2>1. CASE n \in DOMAIN db.mods
    <3>1. PICK j \in 1 .. k : /\ n \in DOMAIN files[j].mods /\ db.mods[n] = files[j].mods[n]
                              /\ \A i \in 1 .. k : n \in DOMAIN files[i].mods => j <= i
      BY <2>1 DEF ModsOf
    <3>2. j <= k + 1 /\ j \in 1 .. k + 1
      OBVIOUS
    <3>3. \A i \in 1 .. k + 1 : n \in DOMAIN files[i].mods => j <= i
      BY <1>4, <3>1, <3>2
    <3>4. QED
      BY <1>2, <2>1, <3>1, <3>2, <3>3
  <2>2. CASE n \notin DOMAIN db.mods
    <3>1. n \in DOMAIN f /\ d.mods[n] = f[n]
      BY <1>2, <2>2
    <3>2. \A i \in 1 .. k : n \notin DOMAIN files[i].mods
      BY <2>2 DEF ModsOf
    <3>3. \A i \in 1 .. k + 1 : n \in DOMAIN files[i].mods => k + 1 <= i
      BY <1>4, <3>2
    <3>4. k + 1 \in 1 .. k + 1
      OBVIOUS
    <3>5. QED
      BY <3>1, <3>3, <3>4
  <2>3. QED
    BY <2>1, <2>2
<1> HIDE DEF f
<1>7. QED
  BY <1>3, <1>5, <1>6 DEF ModsOf, d

LEMMA DependenciesStep ==
  ASSUME NEW files, IsDatabase(files), NEW k \in Nat, k + 1 \in 1 .. Len(files), NEW db, DependenciesOf(db, files, k)
  PROVE  DependenciesOf(MergeConflictJson(db, files[k + 1]), files, k + 1)
<1> DEFINE d == MergeConflictJson(db, files[k + 1])
           f == files[k + 1].dependencies
<1>1. d.dependencies = Over(f, db.dependencies)
  BY MergeOne
<1> HIDE DEF d
<1>2. /\ DOMAIN d.dependencies = DOMAIN db.dependencies \cup DOMAIN f
      /\ \A n \in DOMAIN f : d.dependencies[n] = f[n]
      /\ \A n \in DOMAIN db.dependencies : n \notin DOMAIN f => d.dependencies[n] = db.dependencies[n]
  <2> DEFINE e == db.dependencies
           h == d.dependencies
  <2>1. h = Over(f, e)
    BY <1>1
  <2> HIDE DEF e, f, h
  <2>2. DOMAIN h = DOMAIN e \cup DOMAIN f
    BY <2>1 DEF Over
  <2>3. \A n \in DOMAIN f : h[n] = f[n]
    BY <2>1 DEF Over
  <2>4. \A n \in DOMAIN e : n \notin DOMAIN f => h[n] = e[n]
    BY <2>1 DEF Over
  <2>5. QED
    BY <2>2, <2>3, <2>4 DEF e, h
<1>4. \A j : j \in 1 .. k + 1 <=> j \in 1 .. k \/ j = k + 1
  OBVIOUS
<1>5. ASSUME NEW n PROVE n \in DOMAIN d.dependencies <=> \E j \in 1 .. k + 1 : n \in DOMAIN files[j].dependencies
  BY <1>2, <1>4 DEF DependenciesOf
<1>6. ASSUME NEW n \in DOMAIN d.dependencies
      PROVE  \E j \in 1 .. k + 1 : /\ n \in DOMAIN files[j].dependencies /\ d.dependencies[n] = files[j].dependencies[n]
                                   /\ \A i \in 1 .. k + 1 : n \in DOMAIN files[i].dependencies => i <= j
  <2>1. CASE n \in DOMAIN f
    <3>1. k + 1 \in 1 .. k + 1 /\ \A i \in 1 .. k + 1 : i <= k + 1
      OBVIOUS
    <3>2. QED
      BY <1>2, <2>1, <3>1
  <2>2. CASE n \notin DOMAIN f
    <3>1. n \in DOMAIN db.dependencies /\ d.dependencies[n] = db.dependencies[n]
      BY <1>2, <2>2
    <3>2. PICK j \in 1 .. k : /\ n \in DOMAIN files[j].dependencies /\ db.dependencies[n] = files[j].dependencies[n]
                              /\ \A i \in 1 .. k : n \in DOMAIN files[i].dependencies => i <= j
      BY <3>1 DEF DependenciesOf
    <3>3. \A i \in 1 .. k + 1 : n \in DOMAIN files[i].dependencies => i <= j
      BY <1>4, <2>2, <3>2
    <3>4. QED
      BY <1>4, <3>1, <3>2, <3>3
  <2>3. QED
    BY <2>1, <2>2
<1> HIDE DEF f
<1>7. QED
  BY <1>5, <1>6 DEF DependenciesOf, d

LEMMA GroupsStep ==
  ASSUME NEW files, IsDatabase(files), NEW k \in Nat, k + 1 \in 1 .. Len(files), NEW db, GroupsOf(db, files, k)
  PROVE  GroupsOf(MergeConflictJson(db, files[k + 1]), files, k + 1)
<1> DEFINE d == MergeConflictJson(db, files[k + 1])
<1>1. /\ d.conflicts = db.conflicts \cup Groups(files[k + 1].conflicts)
      /\ d.exceptions = db.exceptions \cup Groups(files[k + 1].exceptions)
  BY MergeOne
<1> HIDE DEF d
<1>3. \A j : j \in 1 .. k + 1 <=> j \in 1 .. k \/ j = k + 1
  OBVIOUS
<1>4. \A g : g \in d.conflicts <=> \E j \in 1 .. k + 1 : g \in Groups(files[j].conflicts)
  BY <1>1, <1>3 DEF GroupsOf
<1>5. \A g : g \in d.exceptions <=> \E j \in 1 .. k + 1 : g \in Groups(files[j].exceptions)
  BY <1>1, <1>3 DEF GroupsOf
<1>6. QED
  BY <1>4, <1>5 DEF GroupsOf, d

LEMMA MergedSays ==
  ASSUME NEW files, IsDatabase(files)
  PROVE  LET db == Merged(files)[Len(files)] N == Len(files)
         IN DOMAIN db = {"mods", "conflicts", "exceptions", "dependencies"} /\ ModsOf(db, files, N) /\ DependenciesOf(db, files, N) /\ GroupsOf(db, files, N)
<1> DEFINE N == Len(files)
           M == Merged(files)
           HasMerged(k) == DOMAIN M[k] = {"mods", "conflicts", "exceptions", "dependencies"} /\ ModsOf(M[k], files, k) /\ DependenciesOf(M[k], files, k) /\ GroupsOf(M[k], files, k)
           T == {k \in 0 .. N : ~HasMerged(k)}
<1>n. N \in Nat
  BY DEF IsDatabase
<1>1. MergedTo(M, files, N)
  BY <1>n, MergedIs
<1> HIDE DEF M
<1>2. HasMerged(0)
  <2>1. M[0] = EmptyDB
    BY <1>1, <1>n DEF MergedTo
  <2>2. /\ DOMAIN EmptyDB.mods = {} /\ EmptyDB.conflicts = {} /\ EmptyDB.exceptions = {}
        /\ DOMAIN EmptyDB.dependencies = {}
    BY DEF EmptyDB
  <2>3. \A j : j \notin 1 .. 0
    OBVIOUS
  <2>4. IsFiniteSet({})
    BY FS_EmptySet
  <2>5. ModsOf(EmptyDB, files, 0)
    BY <2>2, <2>3, <2>4 DEF ModsOf
  <2>6. DependenciesOf(EmptyDB, files, 0)
    BY <2>2, <2>3, <2>4 DEF DependenciesOf
  <2>7. GroupsOf(EmptyDB, files, 0)
    BY <2>2, <2>3, <2>4 DEF GroupsOf
  <2>8. DOMAIN EmptyDB = {"mods", "conflicts", "exceptions", "dependencies"}
    BY DEF EmptyDB
  <2>9. QED
    BY <2>1, <2>5, <2>6, <2>7, <2>8
<1>3. ASSUME NEW k \in Nat, k + 1 \in 1 .. N, HasMerged(k) PROVE HasMerged(k + 1)
  <2>1. M[k + 1] = MergeConflictJson(M[k], files[k + 1])
    <3>1. k + 1 \in 0 .. N /\ k + 1 # 0 /\ (k + 1) - 1 = k
      BY <1>3, <1>n
    <3>2. QED
      BY <1>1, <3>1 DEF MergedTo
  <2>2. ModsOf(M[k + 1], files, k + 1)
    BY <1>3, <2>1, ModsStep
  <2>3. DependenciesOf(M[k + 1], files, k + 1)
    BY <1>3, <2>1, DependenciesStep
  <2>4. GroupsOf(M[k + 1], files, k + 1)
    BY <1>3, <2>1, GroupsStep
  <2>5. DOMAIN M[k + 1] = {"mods", "conflicts", "exceptions", "dependencies"}
    BY <2>1 DEF MergeConflictJson
  <2>6. QED
    BY <2>2, <2>3, <2>4, <2>5
<1> HIDE DEF HasMerged
<1>4. T = {}
  <2>1. SUFFICES ASSUME T # {} PROVE FALSE
    OBVIOUS
  <2>2. PICK k \in T : \A l \in T : k <= l
    <3>1. T \in SUBSET Nat
      BY <1>n
    <3> HIDE DEF T
    <3>2. QED
      BY <2>1, <3>1, LeastOf
  <2>3. k \in 0 .. N /\ ~HasMerged(k)
    OBVIOUS
  <2>4. k # 0
    BY <1>2, <2>3
  <2>5. k - 1 \in Nat /\ k - 1 \in 0 .. N /\ ~(k <= k - 1) /\ (k - 1) + 1 = k /\ k \in 1 .. N
    BY <1>n, <2>3, <2>4
  <2>6. HasMerged(k - 1)
    BY <2>2, <2>5
  <2>7. HasMerged((k - 1) + 1)
    BY <1>3, <2>5, <2>6
  <2>8. QED
    BY <2>3, <2>5, <2>7
<1>5. HasMerged(N)
  BY <1>4, <1>n
<1>6. QED
  BY <1>5 DEF HasMerged, M

\* The sequence of a set has each of its elements.
LEMMA SetToSeqHas ==
  ASSUME NEW S, IsFiniteSet(S), NEW x \in S
  PROVE  \E i \in 1 .. Cardinality(S) : SetToSeq(S)[i] = x
<1> DEFINE n == Cardinality(S)
           f == SetToSeq(S)
<1>1. n \in Nat /\ f \in [1 .. n -> S]
  BY SetToSeqIs
<1>2. IsInjective(f)
  <2>1. \E g \in [1 .. n -> S] : IsInjective(g)
    <3>1. ExistsBijection(1 .. n, S)
      BY FS_CardinalityType
    <3>2. PICK g \in Bijection(1 .. n, S) : TRUE
      BY <3>1 DEF ExistsBijection
    <3>3. g \in [1 .. n -> S] /\ IsInjective(g)
      BY <3>2 DEF Bijection, Injection
    <3>4. QED
      BY <3>3
  <2>2. QED
    BY <2>1, Zenon DEF SetToSeq
<1> HIDE DEF f
<1>3. f \in Injection(1 .. n, S)
  BY <1>1, <1>2 DEF Injection
<1>4. Cardinality(1 .. n) = n
  <2>1. 1 \in Int /\ n \in Int
    BY <1>1
  <2>2. Cardinality(1 .. n) = IF 1 > n THEN 0 ELSE n - 1 + 1
    BY <2>1, FS_Interval
  <2> HIDE DEF n
  <2>3. QED
    BY <1>1, <2>2
<1>5. f \in Surjection(1 .. n, S)
  BY <1>3, <1>4, FS_Injection
<1>6. QED
  BY <1>5 DEF Surjection, f

LEMMA FirstOfIs ==
  ASSUME NEW S, IsFiniteSet(S), NEW cap \in Nat
  PROVE  /\ FirstOf(S, cap) \subseteq S
         /\ ~(Cardinality(S) > cap) => FirstOf(S, cap) = S
<1> DEFINE n == IF Cardinality(S) > cap THEN cap ELSE Cardinality(S)
           f == SetToSeq(S)
<1>1. Cardinality(S) \in Nat /\ f \in [1 .. Cardinality(S) -> S]
  BY SetToSeqIs
<1>2. \A x \in S : \E i \in 1 .. Cardinality(S) : f[i] = x
  BY SetToSeqHas
<1>3. FirstOf(S, cap) = {f[i] : i \in 1 .. n}
  BY DEF FirstOf
<1> HIDE DEF f
<1>4. 1 .. n \subseteq 1 .. Cardinality(S) /\ (~(Cardinality(S) > cap) => n = Cardinality(S))
  BY <1>1
<1> HIDE DEF n
<1>5. FirstOf(S, cap) \subseteq S
  BY <1>1, <1>3, <1>4
<1>6. ASSUME ~(Cardinality(S) > cap) PROVE S \subseteq FirstOf(S, cap)
  BY <1>2, <1>3, <1>4, <1>6
<1>7. QED
  BY <1>5, <1>6

LEMMA TwoIn ==
  ASSUME NEW S, IsFiniteSet(S), NEW a \in S, NEW b \in S, a # b
  PROVE  Cardinality(S) >= 2
<1>1. IsFiniteSet({a}) /\ Cardinality({a}) = 1
  BY FS_Singleton
<1>2. Cardinality({a} \cup {b}) = 2
  <2>1. Cardinality({a} \cup {b}) = IF b \in {a} THEN Cardinality({a}) ELSE Cardinality({a}) + 1
    BY <1>1, FS_AddElement
  <2>2. QED
    BY <1>1, <2>1
<1>3. {a} \cup {b} \in SUBSET S
  OBVIOUS
<1>4. Cardinality({a} \cup {b}) <= Cardinality(S)
  BY <1>3, FS_Subset
<1>5. Cardinality(S) \in Nat
  BY FS_CardinalityType
<1>6. QED
  BY <1>2, <1>4, <1>5

\* The entry of a mod is the first one, and what it requires is what the last file says.
LEMMA EntryIs ==
  ASSUME NEW files, IsDatabase(files), NEW db, ModsOf(db, files, Len(files)), NEW n
  PROVE  /\ Describes(files, n) # {} <=> n \in DOMAIN db.mods
         /\ n \in DOMAIN db.mods => Entry(files, n) = db.mods[n]
<1> DEFINE N == Len(files)
           C == Describes(files, n)
<1>0. N \in Nat /\ DOMAIN files = 1 .. N
  BY DEF IsDatabase
<1>1. C # {} <=> n \in DOMAIN db.mods
  BY <1>0 DEF Describes, ModsOf
<1>2. ASSUME n \in DOMAIN db.mods PROVE Entry(files, n) = db.mods[n]
  <2>1. PICK j \in 1 .. N : /\ n \in DOMAIN files[j].mods /\ db.mods[n] = files[j].mods[n]
                            /\ \A i \in 1 .. N : n \in DOMAIN files[i].mods => j <= i
    BY <1>2 DEF ModsOf
  <2>2. j \in C /\ \A i \in C : j <= i
    BY <1>0, <2>1 DEF Describes
  <2>3. \A i \in C : i \in Nat
    BY <1>0 DEF Describes
  <2> DEFINE c == CHOOSE i \in C : \A l \in C : i <= l
  <2>4. c \in C /\ \A l \in C : c <= l
    <3> HIDE DEF C
    <3>1. QED
      BY <2>2, Zenon
  <2>5. Entry(files, n) = files[c].mods[n]
    BY DEF Entry
  <2> HIDE DEF c, C
  <2>6. c = j
    BY <2>2, <2>3, <2>4
  <2>7. QED
    BY <2>1, <2>5, <2>6
<1>3. QED
  BY <1>1, <1>2

Required(files, n) ==
  LET said == {i \in DOMAIN files : n \in DOMAIN files[i].dependencies}
  IN IF said = {} THEN {} ELSE files[CHOOSE i \in said : \A j \in said : j <= i].dependencies[n]

LEMMA RequiredIs ==
  ASSUME NEW files, IsDatabase(files), NEW db, DependenciesOf(db, files, Len(files)), NEW n
  PROVE  Required(files, n) = IF n \in DOMAIN db.dependencies THEN db.dependencies[n] ELSE {}
<1> DEFINE N == Len(files)
           C == {i \in DOMAIN files : n \in DOMAIN files[i].dependencies}
           c == CHOOSE i \in C : \A l \in C : l <= i
<1>0. N \in Nat /\ DOMAIN files = 1 .. N
  BY DEF IsDatabase
<1>1. C # {} <=> n \in DOMAIN db.dependencies
  BY <1>0 DEF DependenciesOf
<1>2. Required(files, n) = IF C = {} THEN {} ELSE files[c].dependencies[n]
  BY DEF Required
<1>3. ASSUME n \in DOMAIN db.dependencies PROVE files[c].dependencies[n] = db.dependencies[n]
  <2>1. PICK j \in 1 .. N : /\ n \in DOMAIN files[j].dependencies /\ db.dependencies[n] = files[j].dependencies[n]
                            /\ \A i \in 1 .. N : n \in DOMAIN files[i].dependencies => i <= j
    BY <1>3 DEF DependenciesOf
  <2>2. j \in C /\ \A i \in C : i <= j
    BY <1>0, <2>1
  <2>3. \A i \in C : i \in Nat
    BY <1>0
  <2>4. c \in C /\ \A l \in C : l <= c
    <3> HIDE DEF C
    <3>1. QED
      BY <2>2, Zenon
  <2> HIDE DEF c, C
  <2>5. c = j
    BY <2>2, <2>3, <2>4
  <2>6. QED
    BY <2>1, <2>5
<1> HIDE DEF c, C
<1>4. QED
  BY <1>1, <1>2, <1>3

\* The database that is evaluated: what it has is what the files say together.
LEMMA FinalIs ==
  ASSUME NEW files, IsDatabase(files), NEW final, final = LoadConflictDir(files),
         NEW known, known = DOMAIN final.mods
  PROVE  /\ IsFiniteSet(known)
         /\ \A n : n \in known <=> Describes(files, n) # {}
         /\ \A n \in known : final.mods[n] = Entry(files, n)
         /\ \A a, b : a # b =>
              (Excepted(final, a, b) <=> \E i \in DOMAIN files : \E g \in files[i].exceptions : {a, b} \subseteq g)
         /\ \A g \in final.conflicts : /\ g \subseteq known
              /\ \A a, b \in g : \/ \E i \in DOMAIN files : \E h \in files[i].conflicts : {a, b} \subseteq h
                                 \/ Entry(files, a).tags \cap Entry(files, b).tags # {}
         /\ \A a, b \in known :
              a # b /\ (\/ \E i \in DOMAIN files : \E h \in files[i].conflicts : {a, b} \subseteq h
                        \/ Entry(files, a).tags \cap Entry(files, b).tags # {}) =>
              \E g \in final.conflicts : {a, b} \subseteq g
         /\ \A n : n \in DOMAIN final.dependencies => n \in known
         /\ \A n \in known : \A r :
              (n \in DOMAIN final.dependencies /\ r \in final.dependencies[n]) <=>
                 r \in Required(files, n) /\ (r = kPhantomLiberty \/ r \in known)
<1> DEFINE N == Len(files)
           D == Merged(files)[N]
           K == DOMAIN D.mods
           tagged == {{n \in K : t \in D.mods[n].tags} : t \in UNION {D.mods[n].tags : n \in K}}
           Reqs(n) == {r \in D.dependencies[n] : r = kPhantomLiberty \/ r \in K}
           dependent == {n \in DOMAIN D.dependencies \cap K : Reqs(n) # {}}
<1>0. N \in Nat /\ DOMAIN files = 1 .. N
  BY DEF IsDatabase
<1>1. DOMAIN D = {"mods", "conflicts", "exceptions", "dependencies"}
      /\ ModsOf(D, files, N) /\ DependenciesOf(D, files, N) /\ GroupsOf(D, files, N)
  BY MergedSays
<1>2. final = [D EXCEPT !.conflicts = Groups({g \cap K : g \in D.conflicts \cup Groups(tagged)}),
                        !.dependencies = [n \in dependent |-> Reqs(n)]]
  BY DEF LoadConflictDir, FinalizeConflictDB
<1> HIDE DEF D
<1>3. /\ final.mods = D.mods /\ final.exceptions = D.exceptions
      /\ final.conflicts = Groups({g \cap K : g \in D.conflicts \cup Groups(tagged)})
      /\ final.dependencies = [n \in dependent |-> Reqs(n)]
  <2> DEFINE c == Groups({g \cap K : g \in D.conflicts \cup Groups(tagged)})
             d == [n \in dependent |-> Reqs(n)]
  <2>1. final = [D EXCEPT !.conflicts = c, !.dependencies = d]
    BY <1>2
  <2> HIDE DEF c, d
  <2>2. final.mods = D.mods /\ final.exceptions = D.exceptions /\ final.conflicts = c /\ final.dependencies = d
    BY ONLY <1>1, <2>1
  <2>3. QED
    BY <2>2 DEF c, d
<1>k. known = K
  BY <1>3
<1>4. IsFiniteSet(K)
  BY <1>1 DEF ModsOf
<1>5. \A n : n \in K <=> Describes(files, n) # {}
  BY <1>1, EntryIs
<1>6. \A n \in K : D.mods[n] = Entry(files, n)
  BY <1>1, EntryIs
<1>g. ASSUME NEW i \in DOMAIN files, NEW g \in files[i].conflicts \cup files[i].exceptions, NEW a \in g, NEW b \in g, a # b
      PROVE  Cardinality(g) >= 2
  BY <1>g, TwoIn DEF IsDatabase
<1>7. ASSUME NEW a, NEW b, a # b
      PROVE  Excepted(final, a, b) <=> \E i \in DOMAIN files : \E g \in files[i].exceptions : {a, b} \subseteq g
  <2>1. ASSUME NEW g \in D.exceptions PROVE \E i \in DOMAIN files : g \in files[i].exceptions
    BY <1>0, <1>1 DEF GroupsOf, Groups
  <2>2. ASSUME NEW i \in DOMAIN files, NEW g \in files[i].exceptions, {a, b} \subseteq g
        PROVE  g \in D.exceptions
    <3>1. Cardinality(g) >= 2
      BY <1>7, <1>g, <2>2
    <3>2. g \in Groups(files[i].exceptions)
      BY <3>1 DEF Groups
    <3>3. QED
      BY <1>0, <1>1, <3>2 DEF GroupsOf
  <2>3. QED
    BY <1>3, <2>1, <2>2 DEF Excepted
<1>8. ASSUME NEW g \in final.conflicts
      PROVE  /\ g \subseteq K
             /\ \A a, b \in g : \/ \E i \in DOMAIN files : \E h \in files[i].conflicts : {a, b} \subseteq h
                                \/ Entry(files, a).tags \cap Entry(files, b).tags # {}
  <2>1. PICK h \in D.conflicts \cup Groups(tagged) : g = h \cap K
    <3>1. g \in {x \cap K : x \in D.conflicts \cup Groups(tagged)}
      <4> DEFINE X == {x \cap K : x \in D.conflicts \cup Groups(tagged)}
      <4>1. g \in Groups(X)
        BY <1>3
      <4> HIDE DEF X
      <4>2. g \in X
        BY <4>1 DEF Groups
      <4>3. QED
        BY <4>2 DEF X
    <3> HIDE DEF tagged
    <3>2. QED
      BY <3>1
  <2>2. CASE h \in D.conflicts
    <3>1. \E i \in DOMAIN files : h \in files[i].conflicts
      BY <1>0, <1>1, <2>2 DEF GroupsOf, Groups
    <3>2. QED
      BY <2>1, <3>1
  <2>3. CASE h \in Groups(tagged)
    <3>1. h \in tagged
      <4> HIDE DEF tagged
      <4>1. QED
        BY <2>3 DEF Groups
    <3>2. PICK t : h = {n \in K : t \in D.mods[n].tags}
      BY <3>1
    <3>3. \A a \in g : a \in K /\ t \in Entry(files, a).tags
      BY <1>6, <2>1, <3>2
    <3>4. QED
      BY <2>1, <3>3
  <2>4. QED
    BY <2>1, <2>2, <2>3
<1>9. ASSUME NEW a \in K, NEW b \in K, a # b,
             \/ \E i \in DOMAIN files : \E h \in files[i].conflicts : {a, b} \subseteq h
             \/ Entry(files, a).tags \cap Entry(files, b).tags # {}
      PROVE  \E g \in final.conflicts : {a, b} \subseteq g
  <2>1. \E h \in D.conflicts \cup Groups(tagged) : {a, b} \subseteq h
    <3>1. CASE \E i \in DOMAIN files : \E h \in files[i].conflicts : {a, b} \subseteq h
      <4>1. PICK i \in DOMAIN files : \E h \in files[i].conflicts : {a, b} \subseteq h
        BY <3>1
      <4>2. PICK h \in files[i].conflicts : {a, b} \subseteq h
        BY <4>1
      <4>3. Cardinality(h) >= 2
        BY <1>9, <1>g, <4>2
      <4>4. h \in Groups(files[i].conflicts)
        BY <4>3 DEF Groups
      <4>5. h \in D.conflicts
        BY <1>0, <1>1, <4>4 DEF GroupsOf
      <4> HIDE DEF tagged
      <4>6. QED
        BY <4>2, <4>5
    <3>2. CASE Entry(files, a).tags \cap Entry(files, b).tags # {}
      <4>1. PICK t : t \in D.mods[a].tags /\ t \in D.mods[b].tags
        BY <1>6, <3>2
      <4> DEFINE h == {n \in K : t \in D.mods[n].tags}
      <4>2. h \in tagged
        <5>1. t \in UNION {D.mods[n].tags : n \in K}
          BY <4>1
        <5>2. QED
          BY <5>1
      <4>3. a \in h /\ b \in h
        BY <4>1
      <4>4. IsFiniteSet(h)
        <5>1. h \in SUBSET K
          OBVIOUS
        <5> HIDE DEF h
        <5>2. QED
          BY <1>4, <5>1, FS_Subset
      <4> HIDE DEF h, tagged
      <4>5. Cardinality(h) >= 2
        BY <1>9, <4>3, <4>4, TwoIn
      <4>6. h \in Groups(tagged)
        BY <4>2, <4>5 DEF Groups
      <4>7. QED
        BY <4>3, <4>6
    <3>3. QED
      BY <1>9, <3>1, <3>2
  <2> HIDE DEF tagged
  <2>2. PICK h \in D.conflicts \cup Groups(tagged) : {a, b} \subseteq h
    BY <2>1
  <2> DEFINE g == h \cap K
             X == {x \cap K : x \in D.conflicts \cup Groups(tagged)}
  <2>3. a \in g /\ b \in g /\ g \in X
    BY <2>2
  <2>4. IsFiniteSet(g)
    <3>1. g \in SUBSET K
      OBVIOUS
    <3> HIDE DEF g
    <3>2. QED
      BY <1>4, <3>1, FS_Subset
  <2>5. final.conflicts = Groups(X)
    BY <1>3
  <2> HIDE DEF g, X
  <2>6. Cardinality(g) >= 2
    BY <1>9, <2>3, <2>4, TwoIn
  <2>7. g \in Groups(X)
    BY <2>3, <2>6 DEF Groups
  <2>8. QED
    BY <2>3, <2>5, <2>7
<1>10. \A n : n \in DOMAIN final.dependencies => n \in K
  BY <1>3
<1>11. ASSUME NEW n \in K, NEW r
       PROVE  (n \in DOMAIN final.dependencies /\ r \in final.dependencies[n]) <=>
                 r \in Required(files, n) /\ (r = kPhantomLiberty \/ r \in K)
  <2>1. Required(files, n) = IF n \in DOMAIN D.dependencies THEN D.dependencies[n] ELSE {}
    BY <1>1, RequiredIs
  <2>2. n \in DOMAIN final.dependencies <=> n \in DOMAIN D.dependencies /\ Reqs(n) # {}
    BY <1>3
  <2>3. n \in DOMAIN final.dependencies => final.dependencies[n] = Reqs(n)
    BY <1>3
  <2>4. CASE n \in DOMAIN D.dependencies
    <3>1. r \in Reqs(n) <=> r \in Required(files, n) /\ (r = kPhantomLiberty \/ r \in K)
      BY <2>1, <2>4
    <3> HIDE DEF Reqs
    <3>2. QED
      BY <2>2, <2>3, <2>4, <3>1
  <2>5. CASE n \notin DOMAIN D.dependencies
    BY <2>1, <2>2, <2>5
  <2>6. QED
    BY <2>4, <2>5
<1> HIDE DEF K, tagged
<1>12. \A n \in known : final.mods[n] = Entry(files, n)
  BY <1>k, <1>3, <1>6
<1>13. \A a, b : a # b =>
              (Excepted(final, a, b) <=> \E i \in DOMAIN files : \E g \in files[i].exceptions : {a, b} \subseteq g)
  BY <1>7
<1>14. \A g \in final.conflicts : /\ g \subseteq known
              /\ \A a, b \in g : \/ \E i \in DOMAIN files : \E h \in files[i].conflicts : {a, b} \subseteq h
                                 \/ Entry(files, a).tags \cap Entry(files, b).tags # {}
  BY <1>k, <1>8
<1>15. \A a, b \in known :
              a # b /\ (\/ \E i \in DOMAIN files : \E h \in files[i].conflicts : {a, b} \subseteq h
                        \/ Entry(files, a).tags \cap Entry(files, b).tags # {}) =>
              \E g \in final.conflicts : {a, b} \subseteq g
  BY <1>k, <1>9
<1>16. \A n \in known : \A r :
              (n \in DOMAIN final.dependencies /\ r \in final.dependencies[n]) <=>
                 r \in Required(files, n) /\ (r = kPhantomLiberty \/ r \in known)
  BY <1>k, <1>11
<1>17. IsFiniteSet(known) /\ (\A n : n \in known <=> Describes(files, n) # {}) /\ (\A n : n \in DOMAIN final.dependencies => n \in known)
  BY <1>k, <1>4, <1>5, <1>10
<1>18. QED
  BY <1>12, <1>13, <1>14, <1>15, <1>16, <1>17

\* What a report says of conflicts is exact for any files.
LEMMA ConflictsAre ==
  ASSUME NEW files, IsDatabase(files), kMaxConflictGroups \in Nat, kMaxMissingDeps \in Nat,
         NEW archives, NEW isEP1, NEW engineReadOk
  PROVE  ConflictsExact(files, archives, isEP1, engineReadOk)
<1> DEFINE final == LoadConflictDir(files)
           known == DOMAIN final.mods
           there == Installed(final, archives)
           U(n) == Unmet(final, there, n, isEP1, engineReadOk)
           Dep == {m \in DOMAIN final.dependencies \cap there : U(m) # {}}
           active == {Survivors(final, g \cap there) : g \in final.conflicts} \ {{}}
           missing == {[mod |-> n, unmet |-> U(n)] : n \in Dep}
           told == EvaluateConflicts(final, archives, isEP1, engineReadOk)
           Is(n) == Present(files, archives, n)
           Together(a, b) == \/ \E i \in DOMAIN files : \E h \in files[i].conflicts : {a, b} \subseteq h
                             \/ Entry(files, a).tags \cap Entry(files, b).tags # {}
           Excluded(a, b) == \E i \in DOMAIN files : \E g \in files[i].exceptions : {a, b} \subseteq g
           C(a, b) == Clash(files, archives, a, b)
           Stops == engineReadOk /\ ~isEP1
<1>1. /\ told.active = FirstOf(active, kMaxConflictGroups)
      /\ told.missingDeps = FirstOf(missing, kMaxMissingDeps)
      /\ told.truncated <=> Cardinality(active) > kMaxConflictGroups \/ Cardinality(missing) > kMaxMissingDeps
  BY DEF EvaluateConflicts
<1> HIDE DEF told
<1>2. /\ IsFiniteSet(known)
      /\ \A n : n \in known <=> Describes(files, n) # {}
      /\ \A n \in known : final.mods[n] = Entry(files, n)
  BY FinalIs
<1>3. \A a, b : a # b => (Excepted(final, a, b) <=> Excluded(a, b))
  BY FinalIs
<1>4. \A g \in final.conflicts : g \subseteq known /\ \A a, b \in g : Together(a, b)
  BY FinalIs
<1>5. \A a, b \in known : a # b /\ Together(a, b) => \E g \in final.conflicts : {a, b} \subseteq g
  BY FinalIs
<1>6. \A n \in known : \A r :
        (n \in DOMAIN final.dependencies /\ r \in final.dependencies[n]) <=>
           r \in Required(files, n) /\ (r = kPhantomLiberty \/ r \in known)
  BY FinalIs
<1> HIDE DEF final
<1>7. there \subseteq known /\ \A n : n \in there <=> Is(n)
  <2>1. \A n : n \in there <=> n \in known /\ final.mods[n].archives \cap archives # {}
    BY DEF Installed
  <2>2. QED
    BY <1>2, <2>1 DEF Present
<1>8. \A a, b : C(a, b) <=> a # b /\ Is(a) /\ Is(b) /\ Together(a, b) /\ ~Excluded(a, b)
  BY DEF Clash
<1> HIDE DEF there, Is, Together, Excluded, C, known
<1>9. \A members : \A a : a \in Survivors(final, members) <=> a \in members /\ \E b \in members : b # a /\ ~Excepted(final, a, b)
  BY DEF Survivors
<1>10. IsFiniteSet(active)
  <2>1. active \in SUBSET (SUBSET known)
    <3>1. \A members : Survivors(final, members) \subseteq members
      BY <1>9
    <3>2. \A g : Survivors(final, g \cap there) \subseteq known
      BY <1>7, <3>1
    <3>3. QED
      BY <3>2
  <2>2. IsFiniteSet(SUBSET known)
    BY <1>2, FS_SUBSET
  <2> HIDE DEF active
  <2>3. QED
    BY <2>1, <2>2, FS_Subset
<1>11. IsFiniteSet(missing)
  <2>1. Dep \in SUBSET known
    BY <1>7
  <2>2. IsFiniteSet(Dep)
    <3> HIDE DEF Dep
    <3>1. QED
      BY <1>2, <2>1, FS_Subset
  <2> DEFINE f == [n \in Dep |-> [mod |-> n, unmet |-> U(n)]]
  <2> HIDE DEF Dep, U
  <2>3. f \in Surjection(Dep, missing)
    BY DEF Surjection
  <2> HIDE DEF f, missing
  <2>4. QED
    BY <2>2, <2>3, FS_Surjection
<1>12. ASSUME NEW g \in told.active, NEW a \in g PROVE \E b \in g : C(a, b)
  <2>1. g \in active
    <3> HIDE DEF active
    <3>1. QED
      BY <1>1, <1>10, FirstOfIs
  <2>2. PICK h \in final.conflicts : g = Survivors(final, h \cap there)
    BY <2>1
  <2>3. a \in h \cap there
    BY <1>9, <2>2
  <2>4. PICK b \in h \cap there : b # a /\ ~Excepted(final, a, b)
    BY <1>9, <2>2
  <2>5. ~Excepted(final, b, a)
    BY <2>4 DEF Excepted
  <2>6. b \in g
    BY <1>9, <2>2, <2>3, <2>4, <2>5
  <2>7. Together(a, b)
    BY <1>4, <2>3, <2>4
  <2>8. QED
    BY <1>3, <1>7, <1>8, <2>3, <2>4, <2>6, <2>7
<1>13. ASSUME ~told.truncated, NEW a, NEW b, C(a, b) PROVE \E g \in told.active : {a, b} \subseteq g
  <2>1. a # b /\ a \in there /\ b \in there /\ Together(a, b) /\ ~Excepted(final, a, b)
    BY <1>3, <1>7, <1>8, <1>13
  <2>2. PICK h \in final.conflicts : {a, b} \subseteq h
    BY <1>5, <1>7, <2>1
  <2>3. ~Excepted(final, b, a)
    BY <2>1 DEF Excepted
  <2> DEFINE g == Survivors(final, h \cap there)
  <2>4. a \in g /\ b \in g
    BY <1>9, <2>1, <2>2, <2>3
  <2>5. g \in active
    BY <2>4
  <2>6. told.active = active
    <3> HIDE DEF active, missing
    <3>1. ~(Cardinality(active) > kMaxConflictGroups)
      BY <1>1, <1>13
    <3>2. QED
      BY <1>1, <1>10, <3>1, FirstOfIs
  <2> HIDE DEF g
  <2>7. QED
    BY <2>4, <2>5, <2>6
<1>14. ASSUME ~told.truncated, NEW n \in known, NEW r, r \in known \cup {kPhantomLiberty}
       PROVE  (\E m \in told.missingDeps : m.mod = n /\ r \in m.unmet) <=>
                 /\ Is(n) /\ r \in Required(files, n)
                 /\ IF r = kPhantomLiberty THEN Stops ELSE ~Is(r)
  <2>1. told.missingDeps = missing
    <3> HIDE DEF active, missing
    <3>1. ~(Cardinality(missing) > kMaxMissingDeps)
      BY <1>1, <1>14
    <3>2. QED
      BY <1>1, <1>11, <3>1, FirstOfIs
  <2>2. r \in U(n) <=> r \in final.dependencies[n] /\ (IF r = kPhantomLiberty THEN Stops ELSE r \notin there)
    BY DEF Unmet
  <2> HIDE DEF Stops, U
  <2>3. (\E m \in missing : m.mod = n /\ r \in m.unmet) <=> n \in DOMAIN final.dependencies /\ n \in there /\ r \in U(n)
    <3>1. ASSUME NEW m \in missing, m.mod = n, r \in m.unmet PROVE n \in Dep /\ r \in U(n)
      BY <3>1
    <3>2. ASSUME n \in Dep, r \in U(n) PROVE \E m \in missing : m.mod = n /\ r \in m.unmet
      <4> DEFINE m == [mod |-> n, unmet |-> U(n)]
      <4>1. m.mod = n /\ m.unmet = U(n)
        OBVIOUS
      <4>2. m \in missing
        BY <3>2
      <4> HIDE DEF m, missing
      <4>3. QED
        BY <3>2, <4>1, <4>2
    <3>3. n \in Dep /\ r \in U(n) <=> n \in DOMAIN final.dependencies /\ n \in there /\ r \in U(n)
      OBVIOUS
    <3> HIDE DEF Dep, missing
    <3>4. QED
      BY <3>1, <3>2, <3>3
  <2> HIDE DEF Dep, missing
  <2>4. (n \in DOMAIN final.dependencies /\ r \in final.dependencies[n]) <=> r \in Required(files, n)
    BY <1>6, <1>14
  <2>5. QED
    BY <1>7, <2>1, <2>2, <2>3, <2>4
<1>15. UNION {DOMAIN files[i].mods : i \in DOMAIN files} = known
  <2>1. ASSUME NEW n PROVE n \in known <=> \E i \in DOMAIN files : n \in DOMAIN files[i].mods
    BY <1>2 DEF Describes
  <2>2. QED
    BY <2>1
<1>16. QED
  <2>1. ConflictsExact(files, archives, isEP1, engineReadOk) <=>
          /\ \A g \in told.active : \A a \in g : \E b \in g : C(a, b)
          /\ told.truncated \/
               /\ \A a, b \in known : C(a, b) => \E g \in told.active : {a, b} \subseteq g
               /\ \A n \in known, r \in known \cup {kPhantomLiberty} :
                    (\E m \in told.missingDeps : m.mod = n /\ r \in m.unmet) <=>
                      /\ Is(n) /\ r \in Required(files, n)
                      /\ IF r = kPhantomLiberty THEN Stops ELSE ~Is(r)
    BY <1>15, ZenonT(30) DEF ConflictsExact, Required, told, final, C, Is
  <2> HIDE DEF Stops
  <2>2. QED
    BY <1>12, <1>13, <1>14, <2>1

----------------------------------------------------------------------------
\* A database and archives that were picked are of those that are looked at.
PickedConflicts ==
  Of("conflicts") =>
    \E files \in Databases, archives \in SUBSET Archives, flags \in BOOLEAN \X BOOLEAN : input = <<<<files, archives, flags>>>>

LEMMA PickedConflictsHolds == MCSpec => []PickedConflicts
<1>1. MCInit => PickedConflicts
  BY DEF MCInit, PickedConflicts, Of
<1>2. PickedConflicts /\ [Pick \/ SessionStep \/ FolderStep]_<<inputVars, historyVars, folderVars>> => PickedConflicts'
  <2> SUFFICES ASSUME PickedConflicts, [Pick \/ SessionStep \/ FolderStep]_<<inputVars, historyVars, folderVars>>
               PROVE  PickedConflicts'
    OBVIOUS
  <2>1. CASE Pick
    <3>1. subject' = subject /\ input' \in {<<i>> : i \in Inputs}
      BY <2>1 DEF Pick
    <3>2. ASSUME subject = "conflicts" PROVE Inputs = Databases \X (SUBSET Archives) \X (BOOLEAN \X BOOLEAN)
      BY <3>2, Zenon DEF Inputs
    <3>3. QED
      BY <3>1, <3>2 DEF PickedConflicts, Of
  <2>2. CASE UNCHANGED inputVars
    BY <2>2 DEF inputVars, PickedConflicts, Of
  <2>3. QED
    BY <2>1, <2>2 DEF SessionStep, FolderStep
<1>3. QED
  BY <1>1, <1>2, PTL DEF MCSpec

\* The conflicts and the missing requirements of a report are, up to its caps, those that any number
\* of files have together among any installed archives, and no others.
THEOREM ConflictsAreOfTheFiles == MCSpec => []ConflictsAreExact
<1>1. PickedConflicts => ConflictsAreExact
  <2> SUFFICES ASSUME PickedConflicts, Of("conflicts")
               PROVE  ConflictsExact(input[1][1], input[1][2], input[1][3][1], input[1][3][2])
    BY DEF ConflictsAreExact
  <2>1. PICK files \in Databases, archives \in SUBSET Archives, flags \in BOOLEAN \X BOOLEAN : input = <<<<files, archives, flags>>>>
    BY DEF PickedConflicts
  <2>2. input[1][1] = files /\ input[1][2] = archives /\ input[1][3] = flags
    BY <2>1
  <2>3. IsDatabase(files) /\ kMaxConflictGroups \in Nat /\ kMaxMissingDeps \in Nat
    BY DatabasesAssumption
  <2>4. ConflictsExact(files, archives, flags[1], flags[2])
    BY <2>3, ConflictsAre
  <2>5. QED
    BY <2>2, <2>4
<1>2. QED
  BY <1>1, PickedConflictsHolds, PTL

-----------------------------------------------------------------------------
(* The headers of crashes *)

\* The search for a module.
Pairs(L) == (0..Len(L)) \X (0..Len(L))
Middle(range) == range[1] + (range[2] - range[1]) \div 2
Look(f, L, address, range) ==
  IF range[1] >= range[2] THEN NoModule
  ELSE IF address < L[Middle(range) + 1].base THEN f[<<range[1], Middle(range)>>]
  ELSE IF address >= L[Middle(range) + 1].base + L[Middle(range) + 1].size THEN f[<<Middle(range) + 1, range[2]>>]
  ELSE L[Middle(range) + 1]
IsSearch(f, L, address) == f = [range \in Pairs(L) |-> Look(f, L, address, range)]
Search(L, address) == CHOOSE f : IsSearch(f, L, address)

LEMMA FindIsSearch ==
  ASSUME NEW L, NEW address
  PROVE  FindModuleByPC(L, address) = Search(L, address)[<<0, Len(L)>>]
  BY Zenon DEF FindModuleByPC, Search, IsSearch, Pairs, Middle, Look

LEMMA MiddleIs ==
  ASSUME NEW L, Len(L) \in Nat, NEW range \in Pairs(L), range[1] < range[2]
  PROVE  /\ Middle(range) \in Nat /\ range[1] <= Middle(range) /\ Middle(range) < range[2]
         /\ range[1] \in Nat /\ range[2] \in Nat /\ range[2] <= Len(L)
<1>1. range[1] \in 0 .. Len(L) /\ range[2] \in 0 .. Len(L)
  BY DEF Pairs
<1>2. QED
  BY <1>1 DEF Middle

LEMMA SearchIsThere ==
  ASSUME NEW L, Len(L) \in Nat, NEW address
  PROVE  IsSearch(Search(L, address), L, address)
<1> DEFINE D == Pairs(L)
           K == Len(L)
           left == [range \in D |-> IF range[1] >= range[2] THEN 0 ELSE range[2] - range[1]]
           M(range) == L[Middle(range) + 1]
           end == {range \in D : \/ range[1] >= range[2]
                                 \/ ~(address < M(range).base) /\ ~(address >= M(range).base + M(range).size)}
           value == [range \in D |-> IF range[1] >= range[2] THEN NoModule ELSE M(range)]
           next == [range \in D |-> IF address < M(range).base THEN <<range[1], Middle(range)>> ELSE <<Middle(range) + 1, range[2]>>]
<1>1. left \in [D -> 0 .. K]
  <2>1. \A range \in D : range[1] \in 0 .. K /\ range[2] \in 0 .. K
    BY DEF Pairs
  <2>2. QED
    BY <2>1
<1>2. ASSUME NEW range \in D \ end PROVE next[range] \in D /\ left[next[range]] < left[range]
  <2> DEFINE below == address < M(range).base
             mid == Middle(range)
  <2>1. range[1] < range[2]
    <3>1. range[1] \in 0 .. K /\ range[2] \in 0 .. K
      BY DEF Pairs
    <3>2. ~(range[1] >= range[2])
      OBVIOUS
    <3>3. QED
      BY <3>1, <3>2
  <2>2. mid \in Nat /\ range[1] <= mid /\ mid < range[2] /\ range[1] \in Nat /\ range[2] \in Nat /\ range[2] <= K
    BY <2>1, MiddleIs
  <2>3. next[range] = IF below THEN <<range[1], mid>> ELSE <<mid + 1, range[2]>>
    OBVIOUS
  <2>4. <<range[1], mid>> \in D /\ <<mid + 1, range[2]>> \in D
    BY <2>2 DEF Pairs
  <2>5. left[range] = range[2] - range[1]
    BY <2>1, <2>2
  <2>6. left[<<range[1], mid>>] < left[range] /\ left[<<mid + 1, range[2]>>] < left[range]
    <3>1. left[<<range[1], mid>>] = IF range[1] >= mid THEN 0 ELSE mid - range[1]
      BY <2>4
    <3>2. left[<<mid + 1, range[2]>>] = IF mid + 1 >= range[2] THEN 0 ELSE range[2] - (mid + 1)
      BY <2>4
    <3> HIDE DEF left, mid
    <3>3. QED
      BY <2>1, <2>2, <2>5, <3>1, <3>2
  <2> HIDE DEF below, mid, left, next, D
  <2>7. QED
    BY <2>3, <2>4, <2>6
<1> HIDE DEF left, end, value, next
<1>3. PICK f : GoesOn(f, D, end, value, next)
  <2>1. K \in Nat /\ end \in SUBSET D
    BY DEF end
  <2>2. \A x \in D \ end : next[x] \in D /\ left[next[x]] < left[x]
    BY <1>2
  <2> HIDE DEF D, K
  <2>3. QED
    BY ONLY <1>1, <2>1, <2>2, TailRecursion
<1>4. ASSUME NEW range \in D PROVE (IF range \in end THEN value[range] ELSE f[next[range]]) = Look(f, L, address, range)
  <2>1. CASE range[1] >= range[2]
    BY <2>1 DEF Look, end, value
  <2>2. CASE ~(range[1] >= range[2]) /\ address < M(range).base
    <3>1. range \notin end /\ next[range] = <<range[1], Middle(range)>>
      BY <2>2 DEF end, next
    <3>2. QED
      BY <2>2, <3>1, Zenon DEF Look
  <2>3. CASE ~(range[1] >= range[2]) /\ ~(address < M(range).base) /\ address >= M(range).base + M(range).size
    <3>1. range \notin end /\ next[range] = <<Middle(range) + 1, range[2]>>
      BY <2>3 DEF end, next
    <3>2. QED
      BY <2>3, <3>1, Zenon DEF Look
  <2>4. CASE ~(range[1] >= range[2]) /\ ~(address < M(range).base) /\ ~(address >= M(range).base + M(range).size)
    <3>1. range \in end /\ value[range] = M(range)
      BY <2>4 DEF end, value
    <3>2. QED
      BY <2>4, <3>1, Zenon DEF Look
  <2>5. QED
    BY <2>1, <2>2, <2>3, <2>4
<1>5. f = [range \in D |-> Look(f, L, address, range)]
  BY <1>3, <1>4 DEF GoesOn
<1>6. IsSearch(f, L, address)
  BY <1>5 DEF IsSearch
<1>7. QED
  BY <1>6, Zenon DEF Search

\* Ranges in their order, one behind the other.
Ranges(L) ==
  /\ Len(L) \in Nat
  /\ \A k \in 1 .. Len(L) : L[k].base \in Nat /\ L[k].size \in Nat \ {0}
  /\ \A k, l \in 1 .. Len(L) : k < l => L[k].base + L[k].size <= L[l].base
In(m, address) == m.base <= address /\ address < m.base + m.size
Among(L, range, address, found1) ==
  \/ \E k \in range[1] + 1 .. range[2] : In(L[k], address) /\ found1 = L[k]
  \/ found1 = NoModule /\ \A k \in range[1] + 1 .. range[2] : ~In(L[k], address)

LEMMA SearchStep ==
  ASSUME NEW L, Ranges(L), NEW address \in Nat, NEW f, IsSearch(f, L, address), NEW range \in Pairs(L),
         \A r \in Pairs(L) : r[2] - r[1] < range[2] - range[1] => Among(L, r, address, f[r])
  PROVE  Among(L, range, address, f[range])
<1> DEFINE lo == range[1]
           hi == range[2]
           mid == Middle(range)
<1>1. lo \in 0 .. Len(L) /\ hi \in 0 .. Len(L) /\ Len(L) \in Nat
  BY DEF Pairs, Ranges
<1>2. f[range] = Look(f, L, address, range)
  BY DEF IsSearch
<1>3. CASE lo >= hi
  <2>1. f[range] = NoModule
    BY <1>2, <1>3 DEF Look
  <2>2. \A k \in lo + 1 .. hi : FALSE
    BY <1>1, <1>3
  <2>3. QED
    BY <2>1, <2>2 DEF Among
<1>4. CASE ~(lo >= hi)
  <2>1. mid \in Nat /\ lo <= mid /\ mid < hi /\ hi <= Len(L)
    <3>1. Len(L) \in Nat /\ range[1] < range[2]
      BY <1>1, <1>4
    <3>2. QED
      BY <3>1, MiddleIs
  <2>2. mid + 1 \in 1 .. Len(L) /\ mid + 1 \in lo + 1 .. hi
    BY <1>1, <2>1
  <2>3. /\ \A k \in lo + 1 .. hi : k \in 1 .. Len(L)
        /\ lo + 1 \in Nat
    BY <1>1
  <2>4. L[mid + 1].base \in Nat /\ L[mid + 1].size \in Nat
    BY <2>2 DEF Ranges
  <2>5. CASE address < L[mid + 1].base
    <3> DEFINE r == <<lo, mid>>
    <3>1. f[range] = f[r]
      BY <1>2, <1>4, <2>5 DEF Look
    <3>2. r \in Pairs(L) /\ r[1] = lo /\ r[2] = mid
      BY <1>1, <2>1 DEF Pairs
    <3>3. r[2] - r[1] < hi - lo
      BY <1>1, <2>1, <3>2
    <3>4. Among(L, r, address, f[r])
      BY <3>2, <3>3
    <3>5. ASSUME NEW k \in lo + 1 .. hi, In(L[k], address) PROVE k \in lo + 1 .. mid
      <4>1. k \in 1 .. Len(L) /\ L[k].base \in Nat /\ L[k].size \in Nat
        BY <2>3 DEF Ranges
      <4>2. k # mid + 1
        BY <2>5, <3>5, <4>1 DEF In
      <4>3. ASSUME mid + 1 < k PROVE FALSE
        <5>1. L[mid + 1].base + L[mid + 1].size <= L[k].base
          BY <2>2, <4>1, <4>3 DEF Ranges
        <5>2. QED
          BY <2>4, <2>5, <3>5, <4>1, <5>1 DEF In
      <4>4. QED
        BY <1>1, <2>1, <4>1, <4>2, <4>3
    <3>6. \A k \in lo + 1 .. mid : k \in lo + 1 .. hi
      BY <1>1, <2>1
    <3> HIDE DEF r
    <3>7. QED
      BY <3>1, <3>2, <3>4, <3>5, <3>6 DEF Among
  <2>6. CASE ~(address < L[mid + 1].base) /\ address >= L[mid + 1].base + L[mid + 1].size
    <3> DEFINE r == <<mid + 1, hi>>
    <3>1. f[range] = f[r]
      BY <1>2, <1>4, <2>6 DEF Look
    <3>2. r \in Pairs(L) /\ r[1] = mid + 1 /\ r[2] = hi
      BY <1>1, <2>1 DEF Pairs
    <3>3. r[2] - r[1] < hi - lo
      BY <1>1, <2>1, <3>2
    <3>4. Among(L, r, address, f[r])
      BY <3>2, <3>3
    <3>5. ASSUME NEW k \in lo + 1 .. hi, In(L[k], address) PROVE k \in (mid + 1) + 1 .. hi
      <4>1. k \in 1 .. Len(L) /\ L[k].base \in Nat /\ L[k].size \in Nat
        BY <2>3 DEF Ranges
      <4>2. k # mid + 1
        BY <2>4, <2>6, <3>5, <4>1 DEF In
      <4>3. ASSUME k < mid + 1 PROVE FALSE
        <5>1. L[k].base + L[k].size <= L[mid + 1].base
          BY <2>2, <4>1, <4>3 DEF Ranges
        <5>2. QED
          BY <2>4, <2>6, <3>5, <4>1, <5>1 DEF In
      <4>4. QED
        BY <1>1, <2>1, <4>1, <4>2, <4>3
    <3>6. \A k \in (mid + 1) + 1 .. hi : k \in lo + 1 .. hi
      BY <1>1, <2>1
    <3> HIDE DEF r
    <3>7. QED
      BY <3>1, <3>2, <3>4, <3>5, <3>6 DEF Among
  <2>7. CASE ~(address < L[mid + 1].base) /\ ~(address >= L[mid + 1].base + L[mid + 1].size)
    <3>1. f[range] = L[mid + 1]
      BY <1>2, <1>4, <2>7, Zenon DEF Look
    <3>2. In(L[mid + 1], address)
      BY <2>4, <2>7 DEF In
    <3>3. QED
      BY <2>2, <3>1, <3>2 DEF Among
  <2>8. QED
    BY <2>5, <2>6, <2>7
<1>5. QED
  BY <1>3, <1>4

\* The search finds the module that an address is in, if there is one.
LEMMA SearchFinds ==
  ASSUME NEW L, Ranges(L), NEW address \in Nat
  PROVE  Among(L, <<0, Len(L)>>, address, FindModuleByPC(L, address))
<1> DEFINE f == Search(L, address)
           Wide(k) == \A r \in Pairs(L) : r[2] - r[1] <= k => Among(L, r, address, f[r])
           T == {k \in Nat : ~Wide(k)}
<1>0. Len(L) \in Nat
  BY DEF Ranges
<1>1. IsSearch(f, L, address)
  BY <1>0, SearchIsThere
<1> HIDE DEF f
<1>2. \A r \in Pairs(L) : r[2] - r[1] \in Int /\ r[2] - r[1] <= Len(L)
  BY <1>0 DEF Pairs
<1>3. ASSUME NEW k \in Int, \A r \in Pairs(L) : r[2] - r[1] < k => Among(L, r, address, f[r])
      PROVE  \A r \in Pairs(L) : r[2] - r[1] <= k => Among(L, r, address, f[r])
  <2> TAKE range \in Pairs(L)
  <2> HAVE range[2] - range[1] <= k
  <2>1. \A r \in Pairs(L) : r[2] - r[1] < range[2] - range[1] => Among(L, r, address, f[r])
    BY <1>2, <1>3
  <2>2. QED
    BY <1>1, <2>1, SearchStep
<1>4. \A r \in Pairs(L) : r[2] - r[1] < 0 => Among(L, r, address, f[r])
  <2> TAKE r \in Pairs(L)
  <2> HAVE r[2] - r[1] < 0
  <2>1. r[1] \in Nat /\ r[2] \in Nat /\ r[1] >= r[2]
    BY <1>0 DEF Pairs
  <2>2. f[r] = NoModule
    BY <1>1, <2>1 DEF IsSearch, Look
  <2>3. \A k \in r[1] + 1 .. r[2] : FALSE
    BY <2>1
  <2>4. QED
    BY <2>2, <2>3 DEF Among
<1>5. T = {}
  <2>1. SUFFICES ASSUME T # {} PROVE FALSE
    OBVIOUS
  <2>2. PICK m \in T : \A k \in T : m <= k
    <3>1. T \in SUBSET Nat
      OBVIOUS
    <3> HIDE DEF T
    <3>2. QED
      BY <2>1, <3>1, LeastOf
  <2>3. m \in Nat /\ ~Wide(m)
    OBVIOUS
  <2>4. \A r \in Pairs(L) : r[2] - r[1] < m => Among(L, r, address, f[r])
    <3>1. CASE m = 0
      BY <1>4, <3>1
    <3>2. CASE m # 0
      <4>1. m - 1 \in Nat /\ ~(m <= m - 1)
        BY <2>3, <3>2
      <4>2. Wide(m - 1)
        BY <2>2, <4>1
      <4>3. \A r \in Pairs(L) : r[2] - r[1] < m => r[2] - r[1] <= m - 1
        BY <1>2, <2>3
      <4>4. QED
        BY <4>2, <4>3
    <3>3. QED
      BY <3>1, <3>2
  <2>5. QED
    BY <1>3, <2>3, <2>4
<1>6. Wide(Len(L))
  BY <1>0, <1>5
<1>7. <<0, Len(L)>> \in Pairs(L)
  BY <1>0 DEF Pairs
<1>8. Among(L, <<0, Len(L)>>, address, f[<<0, Len(L)>>])
  BY <1>2, <1>6, <1>7
<1>9. QED
  BY <1>8, FindIsSearch DEF f

\* The modules of a launch are listed in the order of their ranges, each of them.
Base(loaded, i) == loaded.base[Modules[i].name]
Loaded(loaded, i) == [name |-> Modules[i].name, kind |-> Modules[i].kind, base |-> Base(loaded, i), size |-> Modules[i].size]

LEMMA ModulesAre ==
  /\ Len(Modules) \in Nat /\ DOMAIN Modules = 1 .. Len(Modules)
  /\ \A i \in DOMAIN Modules :
       /\ Modules[i].name \notin {"", Heap} /\ Modules[i].kind # "none"
       /\ Modules[i].size \in Nat \ {0}
<1> DEFINE R == [name : STRING \ {"", Heap}, kind : {"Unknown", "Mod", "Game", "System"}, size : Nat \ {0}]
<1>1. Modules \in Seq(R)
  BY CrashAssumption
<1>2. \A r \in R : r.name \notin {"", Heap} /\ r.kind # "none" /\ r.size \in Nat \ {0}
  OBVIOUS
<1> HIDE DEF R
<1>3. /\ Len(Modules) \in Nat /\ DOMAIN Modules = 1 .. Len(Modules)
      /\ \A i \in DOMAIN Modules : Modules[i] \in R
  BY <1>1
<1>4. QED
  BY <1>2, <1>3

LEMMA LaunchIs ==
  ASSUME NEW loaded \in Launches
  PROVE  /\ loaded.base[Heap] \in Nat
         /\ \A i \in DOMAIN Modules : Base(loaded, i) \in Nat
         /\ \A i, j \in DOMAIN Modules :
              i # j => \/ Base(loaded, i) + Modules[i].size <= Base(loaded, j)
                       \/ Base(loaded, j) + Modules[j].size <= Base(loaded, i)
  BY CrashAssumption DEF IsLaunch, Base

LEMMA ListIs ==
  ASSUME NEW loaded \in Launches
  PROVE  /\ Ranges(FillModuleList(loaded))
         /\ \A k \in 1 .. Len(FillModuleList(loaded)) : \E i \in DOMAIN Modules : FillModuleList(loaded)[k] = Loaded(loaded, i)
         /\ \A i \in DOMAIN Modules : \E k \in 1 .. Len(FillModuleList(loaded)) : FillModuleList(loaded)[k] = Loaded(loaded, i)
<1> DEFINE T == {Base(loaded, i) : i \in DOMAIN Modules}
           order == Ascending(T)
           Place(k) == CHOOSE i \in DOMAIN Modules : Base(loaded, i) = order[k]
           L == FillModuleList(loaded)
           n == Cardinality(T)
<1>1. T \in SUBSET Nat
  BY LaunchIs
<1>2. IsFiniteSet(T)
  <2> DEFINE f == [i \in DOMAIN Modules |-> Base(loaded, i)]
  <2>1. IsFiniteSet(DOMAIN Modules)
    <3>n. Len(Modules) \in Nat
      BY ModulesAre
    <3>1. IsFiniteSet(1 .. Len(Modules))
      BY <3>n, FS_Interval
    <3>2. QED
      BY <3>1, ModulesAre
  <2>2. f \in Surjection(DOMAIN Modules, T)
    BY DEF Surjection
  <2>3. QED
    BY <2>1, <2>2, FS_Surjection
<1> HIDE DEF T
<1>3. IsAscending(order, T)
  BY <1>1, <1>2, AscendingIsAscending
<1>4. /\ n \in Nat /\ DOMAIN order = 1 .. n
      /\ \A k \in 1 .. n : order[k] \in T /\ order[k] \in Nat
      /\ \A k, l \in 1 .. n : k < l => order[k] < order[l]
      /\ \A t \in T : \E k \in 1 .. n : order[k] = t
  BY <1>1, <1>3 DEF IsAscending
<1>5. L = [k \in DOMAIN order |-> [name |-> Modules[Place(k)].name, kind |-> Modules[Place(k)].kind,
                                   base |-> order[k], size |-> Modules[Place(k)].size]]
  BY Zenon DEF FillModuleList, T, Base
<1> HIDE DEF order, L
<1>6. ASSUME NEW k \in 1 .. n PROVE Place(k) \in DOMAIN Modules /\ Base(loaded, Place(k)) = order[k]
  <2>1. \E i \in DOMAIN Modules : Base(loaded, i) = order[k]
    BY <1>4 DEF T
  <2>2. QED
    BY <2>1, Zenon
<1> HIDE DEF Place
<1>7. L = [k \in 1 .. n |-> [name |-> Modules[Place(k)].name, kind |-> Modules[Place(k)].kind,
                                   base |-> order[k], size |-> Modules[Place(k)].size]]
  BY <1>4, <1>5
<1> HIDE DEF n
<1>8. Len(L) = n /\ \A k \in 1 .. n : L[k] = Loaded(loaded, Place(k)) /\ L[k].base = order[k] /\ L[k].size = Modules[Place(k)].size
  BY <1>4, <1>6, <1>7 DEF Loaded
<1>9. \A i \in DOMAIN Modules : \E k \in 1 .. n : L[k] = Loaded(loaded, i)
  <2> TAKE i \in DOMAIN Modules
  <2>1. Base(loaded, i) \in T
    BY DEF T
  <2>2. PICK k \in 1 .. n : order[k] = Base(loaded, i)
    BY <1>4, <2>1
  <2>3. Place(k) \in DOMAIN Modules /\ Base(loaded, Place(k)) = Base(loaded, i)
    BY <1>6, <2>2
  <2>4. Place(k) = i
    <3> DEFINE j == Place(k)
    <3>1. j \in DOMAIN Modules /\ Base(loaded, j) = Base(loaded, i)
      BY <2>3
    <3> HIDE DEF j
    <3>2. /\ Base(loaded, i) \in Nat /\ Modules[i].size \in Nat \ {0} /\ Modules[j].size \in Nat \ {0}
          /\ i # j => \/ Base(loaded, i) + Modules[i].size <= Base(loaded, j)
                      \/ Base(loaded, j) + Modules[j].size <= Base(loaded, i)
      BY <3>1, LaunchIs, ModulesAre
    <3>3. i = j
      BY <3>1, <3>2
    <3>4. QED
      BY <3>3 DEF j
  <2>5. QED
    BY <1>8, <2>2, <2>4
<1>10. \A k, l \in 1 .. n : k < l => L[k].base + L[k].size <= L[l].base
  <2> TAKE k, l \in 1 .. n
  <2> HAVE k < l
  <2>1. order[k] < order[l] /\ order[k] \in Nat /\ order[l] \in Nat
    BY <1>4
  <2>2. Place(k) # Place(l) /\ Place(k) \in DOMAIN Modules /\ Place(l) \in DOMAIN Modules
    <3>1. order[k] # order[l]
      BY <2>1
    <3>2. QED
      BY <1>6, <3>1
  <2>3. Base(loaded, Place(k)) = order[k] /\ Base(loaded, Place(l)) = order[l]
    BY <1>6
  <2>4. Modules[Place(k)].size \in Nat \ {0} /\ Modules[Place(l)].size \in Nat \ {0}
    BY <2>2, ModulesAre
  <2>5. \/ order[k] + Modules[Place(k)].size <= order[l]
        \/ order[l] + Modules[Place(l)].size <= order[k]
    BY <2>2, <2>3, LaunchIs
  <2>6. order[k] + Modules[Place(k)].size <= order[l]
    BY <2>1, <2>4, <2>5
  <2>7. QED
    BY <1>8, <2>6
<1>11. \A k \in 1 .. n : L[k].base \in Nat /\ L[k].size \in Nat \ {0}
  BY <1>4, <1>6, <1>8, ModulesAre, ZenonT(30)
<1>12. Ranges(L)
  BY <1>4, <1>8, <1>10, <1>11 DEF Ranges
<1>13. QED
  BY <1>6, <1>8, <1>9, <1>12 DEF L

-----------------------------------------------------------------------------
\* Where a site of a crash is found: in its module, at its offset, or in none.
IsFound(loaded, site, m) ==
  \/ site.module = Heap /\ m = NoModule
  \/ \E i \in DOMAIN Modules : site.module = Modules[i].name /\ m = Loaded(loaded, i)

LEMMA CrashIs ==
  ASSUME NEW crash \in Crashes
  PROVE  /\ Len(crash.sites) \in Nat /\ Len(crash.sites) > 0 /\ DOMAIN crash.sites = 1 .. Len(crash.sites)
         /\ Len(crash.scripts) \in Nat /\ DOMAIN crash.scripts = 1 .. Len(crash.scripts)
         /\ \A k \in DOMAIN crash.sites :
              /\ crash.sites[k].rva \in Nat
              /\ \/ crash.sites[k].module = Heap
                 \/ \E i \in DOMAIN Modules : Modules[i].name = crash.sites[k].module /\ crash.sites[k].rva < Modules[i].size
<1>1. IsCrash(crash)
  BY CrashAssumption
<1> DEFINE R == [module : STRING, rva : Nat]
           sites == crash.sites
           scripts == crash.scripts
<1>2. sites \in Seq(R) /\ sites # <<>> /\ scripts \in Seq(STRING)
  BY <1>1 DEF IsCrash
<1>r. \A r \in R : r.rva \in Nat
  OBVIOUS
<1> HIDE DEF R, sites, scripts
<1>3. /\ Len(sites) \in Nat /\ Len(sites) > 0 /\ DOMAIN sites = 1 .. Len(sites)
      /\ Len(scripts) \in Nat /\ DOMAIN scripts = 1 .. Len(scripts)
  BY <1>2
<1>4. \A k \in DOMAIN sites : sites[k].rva \in Nat
  BY <1>2, <1>r
<1>5. QED
  BY <1>1, <1>3, <1>4 DEF IsCrash, sites, scripts

LEMMA SiteIsFound ==
  ASSUME NEW loaded \in Launches, NEW crash \in Crashes, NEW k \in DOMAIN crash.sites
  PROVE  /\ IsFound(loaded, crash.sites[k], FindModuleByPC(FillModuleList(loaded), Address(loaded, crash.sites[k])))
         /\ Address(loaded, crash.sites[k]) = loaded.base[crash.sites[k].module] + crash.sites[k].rva
<1> DEFINE L == FillModuleList(loaded)
           site == crash.sites[k]
           address == Address(loaded, site)
           m == FindModuleByPC(L, address)
<1>1. address = loaded.base[site.module] + site.rva
  BY DEF Address
<1>2. /\ Ranges(L)
      /\ \A l \in 1 .. Len(L) : \E i \in DOMAIN Modules : L[l] = Loaded(loaded, i)
      /\ \A i \in DOMAIN Modules : \E l \in 1 .. Len(L) : L[l] = Loaded(loaded, i)
  BY ListIs
<1>3. site.rva \in Nat
  BY CrashIs
<1> HIDE DEF L, address
<1>4. ASSUME address \in Nat
      PROVE  \/ \E l \in 1 .. Len(L) : In(L[l], address) /\ m = L[l]
             \/ m = NoModule /\ \A l \in 1 .. Len(L) : ~In(L[l], address)
  <2>1. Among(L, <<0, Len(L)>>, address, m)
    BY <1>2, <1>4, SearchFinds
  <2>2. <<0, Len(L)>>[1] + 1 = 1 /\ <<0, Len(L)>>[2] = Len(L)
    OBVIOUS
  <2> HIDE DEF m
  <2>3. QED
    BY <2>1, <2>2 DEF Among
<1> HIDE DEF m
<1>5. CASE site.module = Heap
  <2>1. address = loaded.base[Heap] + site.rva /\ address \in Nat
    BY <1>1, <1>3, <1>5, LaunchIs
  <2>2. \A l \in 1 .. Len(L) : ~In(L[l], address)
    <3> TAKE l \in 1 .. Len(L)
    <3>1. PICK i \in DOMAIN Modules : L[l] = Loaded(loaded, i)
      BY <1>2
    <3>2. \/ address < Base(loaded, i)
          \/ address >= Base(loaded, i) + Modules[i].size
      <4>1. Outside(crash, loaded)
        BY CrashAssumption
      <4>2. QED
        BY <1>5, <2>1, <4>1 DEF Outside, Base
    <3>3. Base(loaded, i) \in Nat /\ Modules[i].size \in Nat
      BY LaunchIs, ModulesAre
    <3>4. QED
      BY <2>1, <3>1, <3>2, <3>3 DEF In, Loaded
  <2>3. m = NoModule
    BY <1>4, <2>1, <2>2
  <2>4. QED
    BY <1>1, <1>5, <2>3 DEF IsFound, m, L, address
<1>6. CASE site.module # Heap
  <2>1. PICK i \in DOMAIN Modules : Modules[i].name = site.module /\ site.rva < Modules[i].size
    BY <1>6, CrashIs
  <2>a. Base(loaded, i) \in Nat /\ Modules[i].size \in Nat
    BY LaunchIs, ModulesAre
  <2>b. Base(loaded, i) = loaded.base[site.module]
    BY <2>1 DEF Base
  <2> HIDE DEF site
  <2>2. address = Base(loaded, i) + site.rva /\ address \in Nat
    BY <1>1, <1>3, <2>a, <2>b
  <2>3. PICK l \in 1 .. Len(L) : L[l] = Loaded(loaded, i)
    BY <1>2
  <2>4. In(L[l], address)
    BY <1>3, <2>1, <2>2, <2>3, <2>a DEF In, Loaded
  <2>5. PICK o \in 1 .. Len(L) : In(L[o], address) /\ m = L[o]
    BY <1>4, <2>2, <2>4
  <2>6. o = l
    <3>1. ASSUME NEW a \in 1 .. Len(L), NEW b \in 1 .. Len(L), a < b, In(L[a], address), In(L[b], address) PROVE FALSE
      <4>1. /\ L[a].base + L[a].size <= L[b].base /\ L[a].base \in Nat /\ L[a].size \in Nat /\ L[b].base \in Nat
        BY <1>2, <3>1 DEF Ranges
      <4>2. QED
        BY <2>2, <3>1, <4>1, SMTT(30) DEF In
    <3>2. o < l \/ l < o \/ o = l
      BY <1>2 DEF Ranges
    <3>3. QED
      BY <2>4, <2>5, <3>1, <3>2
  <2>7. IsFound(loaded, site, m)
    BY <2>1, <2>3, <2>5, <2>6 DEF IsFound
  <2>8. QED
    BY <1>1, <2>7 DEF m, L, address, site
<1>7. QED
  BY <1>5, <1>6

-----------------------------------------------------------------------------
\* A crash in two launches.
Pcs(crash, loaded) == [i \in DOMAIN crash.sites |-> Address(loaded, crash.sites[i])]
Where(crash, loaded, k) == FindModuleByPC(FillModuleList(loaded), Pcs(crash, loaded)[k])
Alike(m, p, n, q) ==
  \/ m = NoModule /\ n = NoModule
  \/ /\ m.name = n.name /\ m.kind = n.kind /\ m.name # "" /\ p - m.base = q - n.base

LEMMA SitesAreAlike ==
  ASSUME NEW crash \in Crashes, NEW a \in Launches, NEW b \in Launches, NEW k \in DOMAIN crash.sites
  PROVE  Alike(Where(crash, a, k), Pcs(crash, a)[k], Where(crash, b, k), Pcs(crash, b)[k])
<1> DEFINE site == crash.sites[k]
<1>1. ASSUME NEW l \in Launches
      PROVE  /\ IsFound(l, site, Where(crash, l, k))
             /\ Pcs(crash, l)[k] = l.base[site.module] + site.rva
  BY SiteIsFound DEF Pcs, Where
<1>2. site.rva \in Nat
  BY CrashIs
<1> HIDE DEF site
<1>3. CASE site.module = Heap
  <2>1. \A i \in DOMAIN Modules : Modules[i].name # Heap
    BY ModulesAre
  <2>2. Where(crash, a, k) = NoModule /\ Where(crash, b, k) = NoModule
    BY <1>1, <1>3, <2>1 DEF IsFound
  <2>3. QED
    BY <2>2 DEF Alike
<1>4. CASE site.module # Heap
  <2>1. ASSUME NEW l \in Launches
        PROVE  \E i \in DOMAIN Modules :
                 /\ site.module = Modules[i].name /\ Where(crash, l, k) = Loaded(l, i)
                 /\ Pcs(crash, l)[k] - Where(crash, l, k).base = site.rva
    <3>1. PICK i \in DOMAIN Modules : site.module = Modules[i].name /\ Where(crash, l, k) = Loaded(l, i)
      BY <1>1, <1>4 DEF IsFound
    <3>2. Where(crash, l, k).base = Base(l, i) /\ l.base[site.module] = Base(l, i) /\ Base(l, i) \in Nat
      BY <3>1, LaunchIs DEF Loaded, Base
    <3>3. Pcs(crash, l)[k] - Where(crash, l, k).base = site.rva
      BY <1>1, <1>2, <3>2
    <3>4. QED
      BY <3>1, <3>3
  <2>2. PICK i \in DOMAIN Modules : /\ site.module = Modules[i].name /\ Where(crash, a, k) = Loaded(a, i)
                                    /\ Pcs(crash, a)[k] - Where(crash, a, k).base = site.rva
    BY <2>1
  <2>3. PICK j \in DOMAIN Modules : /\ site.module = Modules[j].name /\ Where(crash, b, k) = Loaded(b, j)
                                    /\ Pcs(crash, b)[k] - Where(crash, b, k).base = site.rva
    BY <2>1
  <2>4. i = j
    BY <2>2, <2>3, CrashAssumption
  <2>5. /\ Where(crash, a, k).name = Modules[i].name /\ Where(crash, b, k).name = Modules[i].name
        /\ Where(crash, a, k).kind = Modules[i].kind /\ Where(crash, b, k).kind = Modules[i].kind
        /\ Modules[i].name # ""
    <3>1. Modules[i].name # ""
      BY ModulesAre
    <3>2. \A l : Loaded(l, i).name = Modules[i].name /\ Loaded(l, i).kind = Modules[i].kind
      BY DEF Loaded
    <3>3. Where(crash, a, k) = Loaded(a, i) /\ Where(crash, b, k) = Loaded(b, i)
      BY <2>2, <2>3, <2>4
    <3>4. QED
      BY <3>1, <3>2, <3>3
  <2>6. QED
    BY <2>2, <2>3, <2>5 DEF Alike
<1>5. QED
  BY <1>3, <1>4

LEMMA AlikeMeans ==
  ASSUME NEW m, NEW p, NEW n, NEW q, Alike(m, p, n, q)
  PROVE  /\ m.name = n.name /\ m.kind = n.kind
         /\ m.name # "" => p - m.base = q - n.base
         /\ m.kind = "Mod" => p - m.base = q - n.base
         /\ (m = NoModule) <=> (n = NoModule)
<1>1. CASE m = NoModule /\ n = NoModule
  BY <1>1 DEF NoModule
<1>2. CASE m.name = n.name /\ m.kind = n.kind /\ m.name # "" /\ p - m.base = q - n.base
  <2>1. m # NoModule /\ n # NoModule
    <3>1. NoModule.name = ""
      BY DEF NoModule
    <3>2. QED
      BY <1>2, <3>1
  <2>2. QED
    BY <1>2, <2>1
<1>3. QED
  BY <1>1, <1>2 DEF Alike

LEMMA SameSymbol ==
  ASSUME NEW a, NEW b, a.symbolsReady = b.symbolsReady, NEW m, NEW p, NEW n, NEW q, Alike(m, p, n, q)
  PROVE  SymbolOf(a, m.name, p - m.base) = SymbolOf(b, n.name, q - n.base)
<1>0. Alike(m, p, n, q)
  OBVIOUS
<1>1. m.name = n.name /\ (m.name # "" => p - m.base = q - n.base)
  <2>1. m.name = n.name
    BY ONLY <1>0, AlikeMeans, Zenon
  <2>2. CASE m.name # ""
    <3>1. p - m.base = q - n.base
      <4>1. NoModule.name = ""
        BY DEF NoModule
      <4>2. m # NoModule
        BY <2>2, <4>1
      <4>3. QED
        BY <1>0, <4>2, Zenon DEF Alike
    <3>2. QED
      BY <2>1, <3>1
  <2>3. QED
    BY <2>1, <2>2
<1>2. CASE m.name # ""
  <2>1. p - m.base = q - n.base
    BY <1>1, <1>2
  <2>2. SymbolOf(b, m.name, p - m.base) = SymbolOf(b, n.name, q - n.base)
    BY <1>1, <2>1
  <2>3. SymbolOf(a, m.name, p - m.base) = SymbolOf(b, m.name, p - m.base)
    <3> DEFINE rva == p - m.base
               below == {s \in Symbols : s.module = m.name /\ s.rva <= rva}
               nearest == {s \in below : \A o \in below : o.rva <= s.rva}
               one == (CHOOSE s \in nearest : TRUE).name
    <3>1. ASSUME NEW l
          PROVE  SymbolOf(l, m.name, rva) = IF nearest # {} /\ (m.name = "Cyberpunk2077" => l.symbolsReady) THEN one ELSE ""
      BY Zenon DEF SymbolOf
    <3> HIDE DEF rva, nearest, one
    <3>2. SymbolOf(a, m.name, rva) = SymbolOf(b, m.name, rva)
      <4> DEFINE Told(l) == nearest # {} /\ (m.name = "Cyberpunk2077" => l.symbolsReady)
      <4>1. \A l : SymbolOf(l, m.name, rva) = IF Told(l) THEN one ELSE ""
        BY <3>1
      <4>2. Told(a) <=> Told(b)
        BY Zenon
      <4> HIDE DEF Told
      <4>3. QED
        BY <4>1, <4>2
    <3>3. QED
      BY <3>2 DEF rva
  <2>4. QED
    BY <2>2, <2>3
<1>3. CASE m.name = ""
  <2>1. ASSUME NEW l, NEW rva PROVE SymbolOf(l, "", rva) = ""
    <3> DEFINE below == {s \in Symbols : s.module = "" /\ s.rva <= rva}
               nearest == {s \in below : \A o \in below : o.rva <= s.rva}
    <3>1. below = {}
      BY CrashAssumption
    <3>2. nearest = {}
      BY <3>1
    <3>3. SymbolOf(l, "", rva) = IF nearest # {} /\ ("" = "Cyberpunk2077" => l.symbolsReady) THEN (CHOOSE s \in nearest : TRUE).name ELSE ""
      BY Zenon DEF SymbolOf
    <3> HIDE DEF nearest
    <3>4. QED
      BY <3>2, <3>3
  <2>2. QED
    BY <1>1, <1>3, <2>1
<1>4. QED
  BY <1>2, <1>3

LEMMA SameFrames ==
  ASSUME NEW crash \in Crashes, NEW a \in Launches, NEW b \in Launches
  PROVE  GatherModFramesOnStack(FillModuleList(a), Pcs(crash, a)) = GatherModFramesOnStack(FillModuleList(b), Pcs(crash, b))
<1> DEFINE D == DOMAIN crash.sites
           Frames(l) == {i \in D : InMod(Where(crash, l, i))}
           Order == Ascending(Frames(a))
           Count == IF Cardinality(Frames(a)) > kMaxModFrames THEN kMaxModFrames ELSE Cardinality(Frames(a))
           Frame(l, k) == [name |-> Where(crash, l, Order[k]).name, rva |-> Pcs(crash, l)[Order[k]] - Where(crash, l, Order[k]).base]
<1>1. \A i \in D : Alike(Where(crash, a, i), Pcs(crash, a)[i], Where(crash, b, i), Pcs(crash, b)[i])
  BY SitesAreAlike
<1>2. \A i \in D : InMod(Where(crash, a, i)) <=> InMod(Where(crash, b, i))
  BY <1>1, AlikeMeans, ZenonT(30) DEF InMod
<1>3. Frames(a) = Frames(b)
  BY <1>2
<1>4. DOMAIN Pcs(crash, a) = D /\ DOMAIN Pcs(crash, b) = D
  BY DEF Pcs
<1>5. GatherModFramesOnStack(FillModuleList(a), Pcs(crash, a)) = [k \in 1 .. Count |-> Frame(a, k)]
  <2>1. {i \in DOMAIN Pcs(crash, a) : InMod(FindModuleByPC(FillModuleList(a), Pcs(crash, a)[i]))} = Frames(a)
    BY <1>4 DEF Where
  <2>2. QED
    BY <2>1, Zenon DEF GatherModFramesOnStack, Where
<1>6. GatherModFramesOnStack(FillModuleList(b), Pcs(crash, b)) = [k \in 1 .. Count |-> Frame(b, k)]
  <2>1. {i \in DOMAIN Pcs(crash, b) : InMod(FindModuleByPC(FillModuleList(b), Pcs(crash, b)[i]))} = Frames(a)
    BY <1>3, <1>4 DEF Where
  <2>2. QED
    BY <2>1, Zenon DEF GatherModFramesOnStack, Where
<1>7. Frames(a) \in SUBSET Nat /\ IsFiniteSet(Frames(a))
  <2>1. D = 1 .. Len(crash.sites) /\ Len(crash.sites) \in Nat
    BY CrashIs
  <2>2. IsFiniteSet(1 .. Len(crash.sites))
    BY <2>1, FS_Interval
  <2>3. Frames(a) \in SUBSET (1 .. Len(crash.sites))
    BY <2>1
  <2>4. IsFiniteSet(Frames(a))
    BY <2>2, <2>3, FS_Subset
  <2>5. QED
    BY <2>1, <2>3, <2>4
<1>8. IsAscending(Order, Frames(a))
  BY <1>7, AscendingIsAscending
<1>9. \A k \in 1 .. Count : Order[k] \in Frames(a)
  <2>1. Cardinality(Frames(a)) \in Nat /\ kMaxModFrames \in Nat
    BY <1>7, FS_CardinalityType, CrashAssumption
  <2>2. \A k \in 1 .. Count : k \in 1 .. Cardinality(Frames(a))
    BY <2>1
  <2> HIDE DEF Order, Count, Frames
  <2>3. QED
    BY <1>8, <2>2 DEF IsAscending
<1>10. \A k \in 1 .. Count : Frame(a, k) = Frame(b, k)
  <2> TAKE k \in 1 .. Count
  <2>1. Order[k] \in D /\ InMod(Where(crash, a, Order[k]))
    BY <1>9
  <2> DEFINE i == Order[k]
  <2> HIDE DEF i, Order
  <2>2. i \in D /\ InMod(Where(crash, a, i))
    BY <2>1 DEF i
  <2>3. /\ Where(crash, a, i).name = Where(crash, b, i).name
        /\ Pcs(crash, a)[i] - Where(crash, a, i).base = Pcs(crash, b)[i] - Where(crash, b, i).base
    <3> DEFINE m == Where(crash, a, i)
               n == Where(crash, b, i)
               p == Pcs(crash, a)[i]
               q == Pcs(crash, b)[i]
    <3>1. Alike(m, p, n, q) /\ m.kind = "Mod"
      BY <1>1, <2>2 DEF InMod
    <3> HIDE DEF m, n, p, q
    <3>2. m.name = n.name /\ p - m.base = q - n.base
      BY <3>1, AlikeMeans, ZenonT(30)
    <3>3. QED
      BY <3>2 DEF m, n, p, q
  <2>4. QED
    BY <2>3 DEF i
<1> HIDE DEF Count, Frame, Frames
<1>11. QED
  BY <1>5, <1>6, <1>10

LEMMA SameVerdict ==
  ASSUME NEW code, NEW oom, NEW m, NEW n, NEW frames, m.name = n.name, m.kind = n.kind, (m = NoModule) <=> (n = NoModule)
  PROVE  ComputeVerdict(code, oom, m, frames) = ComputeVerdict(code, oom, n, frames)
  BY Zenon DEF ComputeVerdict

LEMMA SameModSet ==
  ASSUME NEW x, NEW y, IsFiniteSet(DOMAIN y), NEW place \in Bijection(DOMAIN y, DOMAIN x), \A i \in DOMAIN y : y[i] = x[place[i]]
  PROVE  ComputeModSetHash(x) = ComputeModSetHash(y)
<1>1. place \in [DOMAIN y -> DOMAIN x] /\ (\A i, j \in DOMAIN y : place[i] = place[j] => i = j) /\ \A k \in DOMAIN x : \E i \in DOMAIN y : place[i] = k
  BY DEF Bijection, Injection, IsInjective, Surjection
<1>2. Range(x) = Range(y)
  <2>1. ASSUME NEW k \in DOMAIN x PROVE \E i \in DOMAIN y : x[k] = y[i]
    BY <1>1
  <2>2. ASSUME NEW i \in DOMAIN y PROVE \E k \in DOMAIN x : x[k] = y[i]
    BY <1>1
  <2>3. QED
    BY <2>1, <2>2 DEF Range
<1>3. ASSUME NEW m PROVE Cardinality({i \in DOMAIN x : x[i] = m}) = Cardinality({i \in DOMAIN y : y[i] = m})
  <2> DEFINE X == {i \in DOMAIN x : x[i] = m}
             Y == {i \in DOMAIN y : y[i] = m}
             f == [i \in Y |-> place[i]]
  <2>1. IsFiniteSet(Y)
    <3>1. Y \in SUBSET DOMAIN y
      OBVIOUS
    <3>2. QED
      BY <3>1, FS_Subset
  <2>2. f \in Bijection(Y, X)
    <3>1. f \in [Y -> X]
      BY <1>1
    <3>2. \A i, j \in Y : f[i] = f[j] => i = j
      BY <1>1
    <3>3. \A k \in X : \E i \in Y : f[i] = k
      BY <1>1
    <3> HIDE DEF X, Y, f
    <3>4. QED
      BY <3>1, <3>2, <3>3 DEF Bijection, Injection, IsInjective, Surjection
  <2>3. ExistsBijection(Y, X)
    BY <2>2 DEF ExistsBijection
  <2> HIDE DEF X, Y
  <2>4. Cardinality(Y) = Cardinality(X)
    BY <2>1, <2>3, FS_Bijection
  <2>5. QED
    BY <2>4 DEF X, Y
<1> DEFINE N == {n \in Range(x) : n.enabled}
<1>4. ComputeModSetHash(x) = [m \in N |-> Cardinality({i \in DOMAIN x : x[i] = m})]
  BY Zenon DEF ComputeModSetHash
<1>5. ComputeModSetHash(y) = [m \in N |-> Cardinality({i \in DOMAIN y : y[i] = m})]
  BY <1>2, Zenon DEF ComputeModSetHash
<1> HIDE DEF N
<1>6. QED
  BY <1>3, <1>4, <1>5

\* The fields that an identifier begins with, and those of the tail.
Fields0(code, module, rva, symbol) ==
  IF module = "" THEN <<code, Sep, Build, Sep>>
  ELSE <<code, Sep, Build, Sep, module, Sep, IF symbol # "" THEN <<symbol>> ELSE <<symbol, rva>>>>
NamesOfTail(tail, n) == [i \in 1..2 * n |-> IF i % 2 = 1 THEN Sep ELSE tail[i \div 2]]

LEMMA CoreIs ==
  ASSUME NEW code, NEW module, NEW rva, NEW symbol, NEW tail
  PROVE  ComputeFingerprintCore(code, module, rva, symbol, tail) =
           [loose |-> IF module = "Cyberpunk2077" /\ symbol = "" /\ tail # <<>>
                      THEN Fields0(code, module, rva, symbol) \o NamesOfTail(tail, 1) ELSE Fields0(code, module, rva, symbol),
            primary |-> Fields0(code, module, rva, symbol) \o NamesOfTail(tail, Len(tail))]
  BY Zenon DEF ComputeFingerprintCore, Fields0, NamesOfTail

LEMMA SameCore ==
  ASSUME NEW code, NEW rva, NEW other, NEW symbol, NEW tail
  PROVE  ComputeFingerprintCore(code, "", rva, symbol, tail) = ComputeFingerprintCore(code, "", other, symbol, tail)
<1>1. Fields0(code, "", rva, symbol) = Fields0(code, "", other, symbol)
  BY DEF Fields0
<1>2. QED
  BY <1>1, CoreIs

HeaderOf(crash, loaded, m, p, frames, names) ==
  LET symbol == SymbolOf(loaded, m.name, p - m.base)
  IN [verdict |-> ComputeVerdict(crash.code, crash.oom, m, frames),
      id |-> ComputeFingerprint(crash.code, p, m, symbol, frames, crash.scripts, crash.beat, loaded.mods),
      class |-> ClassifyCrash(names, Len(crash.scripts))]

LEMMA HeaderIs ==
  ASSUME NEW crash, NEW loaded
  PROVE  EmitHeader(crash, loaded) =
           HeaderOf(crash, loaded, Where(crash, loaded, 1), Pcs(crash, loaded)[1],
                    GatherModFramesOnStack(FillModuleList(loaded), Pcs(crash, loaded)),
                    [i \in DOMAIN crash.sites |-> Where(crash, loaded, i).name])
<1>1. DOMAIN Pcs(crash, loaded) = DOMAIN crash.sites
  BY DEF Pcs
<1>2. EmitHeader(crash, loaded) =
        HeaderOf(crash, loaded, Where(crash, loaded, 1), Pcs(crash, loaded)[1],
                 GatherModFramesOnStack(FillModuleList(loaded), Pcs(crash, loaded)),
                 [i \in DOMAIN Pcs(crash, loaded) |-> Where(crash, loaded, i).name])
  BY Zenon DEF EmitHeader, HeaderOf, Where, Pcs
<1>3. QED
  BY <1>1, <1>2

\* Whatever the modules' addresses and the order of the mods, a crash has one header.
LEMMA SameHeader ==
  ASSUME NEW crash \in Crashes, NEW a \in Launches, NEW b \in Launches
  PROVE  SameCrashSameHeader(crash, a, b)
<1> SUFFICES ASSUME a.symbolsReady = b.symbolsReady,
                    NEW place \in Bijection(DOMAIN b.mods, DOMAIN a.mods), \A i \in DOMAIN b.mods : b.mods[i] = a.mods[place[i]]
             PROVE  EmitHeader(crash, a) = EmitHeader(crash, b)
  BY DEF SameCrashSameHeader
<1> DEFINE m == Where(crash, a, 1)
           n == Where(crash, b, 1)
           p == Pcs(crash, a)[1]
           q == Pcs(crash, b)[1]
           frames == GatherModFramesOnStack(FillModuleList(a), Pcs(crash, a))
           symbol == SymbolOf(a, m.name, p - m.base)
           Called(l) == [i \in DOMAIN crash.sites |-> Where(crash, l, i).name]
           tail == TailNames(crash.scripts, frames, crash.beat)
<1>1. 1 \in DOMAIN crash.sites
  BY CrashIs
<1>2. Alike(m, p, n, q)
  BY <1>1, SitesAreAlike
<1>3. frames = GatherModFramesOnStack(FillModuleList(b), Pcs(crash, b))
  BY SameFrames
<1>4. Called(a) = Called(b)
  <2>1. ASSUME NEW i \in DOMAIN crash.sites PROVE Where(crash, a, i).name = Where(crash, b, i).name
    <3>1. Alike(Where(crash, a, i), Pcs(crash, a)[i], Where(crash, b, i), Pcs(crash, b)[i])
      BY SitesAreAlike
    <3>2. QED
      BY ONLY <3>1, AlikeMeans, Zenon
  <2>2. QED
    BY <2>1
<1>5. EmitHeader(crash, a) = HeaderOf(crash, a, m, p, frames, Called(a))
  BY HeaderIs, Zenon
<1>6. EmitHeader(crash, b) = HeaderOf(crash, b, n, q, frames, Called(a))
  BY <1>3, <1>4, HeaderIs, Zenon
<1> HIDE DEF m, n, p, q, frames, Called
<1>7. symbol = SymbolOf(b, n.name, q - n.base)
  BY <1>2, SameSymbol
<1>8. m.name = n.name /\ m.kind = n.kind /\ ((m = NoModule) <=> (n = NoModule))
  <2>1. m.name = n.name
    BY ONLY <1>2, AlikeMeans, Zenon
  <2>2. m.kind = n.kind
    BY ONLY <1>2, AlikeMeans, Zenon
  <2>3. (m = NoModule) <=> (n = NoModule)
    <3>1. NoModule.name = ""
      BY DEF NoModule
    <3>2. QED
      BY <1>2, <3>1, Zenon DEF Alike
  <2>4. QED
    BY <2>1, <2>2, <2>3
<1>9. m.name # "" => p - m.base = q - n.base
  <2>1. NoModule.name = ""
    BY DEF NoModule
  <2>2. QED
    BY <1>2, <2>1, Zenon DEF Alike
<1>10. ComputeVerdict(crash.code, crash.oom, m, frames) = ComputeVerdict(crash.code, crash.oom, n, frames)
  BY <1>8, SameVerdict
<1>11. ComputeModSetHash(a.mods) = ComputeModSetHash(b.mods)
  <2>1. IsFiniteSet(DOMAIN b.mods)
    <3> DEFINE R == [name : STRING, enabled : BOOLEAN]
               mods == b.mods
    <3>1. mods \in Seq(R)
      BY CrashAssumption DEF IsLaunch
    <3> HIDE DEF R, mods
    <3>2. Len(mods) \in Nat /\ DOMAIN mods = 1 .. Len(mods)
      BY <3>1
    <3>3. IsFiniteSet(1 .. Len(mods))
      <4> DEFINE k == Len(mods)
      <4>1. k \in Nat
        BY <3>2
      <4> HIDE DEF k
      <4>2. IsFiniteSet(1 .. k)
        BY ONLY <4>1, FS_Interval
      <4>3. QED
        BY <4>2 DEF k
    <3>4. QED
      BY <3>2, <3>3 DEF mods
  <2>2. QED
    BY <2>1, SameModSet
<1> HIDE DEF symbol
<1>12. ComputeFingerprintCore(crash.code, m.name, p - m.base, symbol, tail) =
         ComputeFingerprintCore(crash.code, n.name, q - n.base, symbol, tail)
  <2> DEFINE of == m.name
             x == p - m.base
             y == q - n.base
             T == tail
             S == symbol
  <2>1. of # "" => x = y
    BY <1>9
  <2>2. of = n.name
    BY <1>8
  <2> HIDE DEF of, x, y, T, S
  <2>3. ComputeFingerprintCore(crash.code, of, x, S, T) = ComputeFingerprintCore(crash.code, of, y, S, T)
    <3>1. CASE of = ""
      <4>1. ComputeFingerprintCore(crash.code, "", x, S, T) = ComputeFingerprintCore(crash.code, "", y, S, T)
        BY ONLY SameCore, ZenonT(30)
      <4>2. QED
        BY <3>1, <4>1
    <3>2. CASE of # ""
      BY <2>1, <3>2
    <3>3. QED
      BY <3>1, <3>2
  <2>4. QED
    BY <2>2, <2>3 DEF of, x, y, T, S
<1>13. ComputeFingerprint(crash.code, p, m, symbol, frames, crash.scripts, crash.beat, a.mods) =
         ComputeFingerprint(crash.code, q, n, symbol, frames, crash.scripts, crash.beat, b.mods)
  BY <1>11, <1>12, Zenon DEF ComputeFingerprint
<1>14. HeaderOf(crash, a, m, p, frames, Called(a)) = HeaderOf(crash, b, n, q, frames, Called(a))
  <2>1. HeaderOf(crash, a, m, p, frames, Called(a)) =
          [verdict |-> ComputeVerdict(crash.code, crash.oom, m, frames),
           id |-> ComputeFingerprint(crash.code, p, m, symbol, frames, crash.scripts, crash.beat, a.mods),
           class |-> ClassifyCrash(Called(a), Len(crash.scripts))]
    BY Zenon DEF HeaderOf, symbol
  <2>2. HeaderOf(crash, b, n, q, frames, Called(a)) =
          [verdict |-> ComputeVerdict(crash.code, crash.oom, n, frames),
           id |-> ComputeFingerprint(crash.code, q, n, symbol, frames, crash.scripts, crash.beat, b.mods),
           class |-> ClassifyCrash(Called(a), Len(crash.scripts))]
    BY <1>7, Zenon DEF HeaderOf
  <2>3. QED
    BY <1>10, <1>13, <2>1, <2>2
<1>15. QED
  BY <1>5, <1>6, <1>14

-----------------------------------------------------------------------------
\* What can be read back from an identifier.
LEMMA JoinedIs ==
  ASSUME NEW s, NEW n \in Nat, NEW t, NEW k \in Nat, s = [i \in 1 .. n |-> s[i]], t = [i \in 1 .. k |-> t[i]]
  PROVE  /\ Len(s \o t) = n + k
         /\ \A i \in 1 .. n : (s \o t)[i] = s[i]
         /\ \A i \in 1 .. k : (s \o t)[n + i] = t[i]
         /\ s \o t = [i \in 1 .. n + k |-> (s \o t)[i]]
<1> DEFINE S == {s[i] : i \in 1 .. n} \cup {t[i] : i \in 1 .. k}
<1>1. s \in Seq(S) /\ Len(s) = n
  BY DEF S
<1>2. t \in Seq(S) /\ Len(t) = k
  BY DEF S
<1> HIDE DEF S
<1>3. Len(s \o t) = n + k /\ s \o t \in Seq(S)
  BY <1>1, <1>2
<1>4. \A i \in 1 .. n : (s \o t)[i] = s[i]
  BY <1>1, <1>2
<1>5. \A i \in 1 .. k : (s \o t)[n + i] = t[i]
  BY <1>1, <1>2
<1>6. s \o t = [i \in 1 .. n + k |-> (s \o t)[i]]
  BY <1>3
<1>7. QED
  BY <1>3, <1>4, <1>5, <1>6

LEMMA NamesAre ==
  ASSUME NEW tail, NEW n \in Nat
  PROVE  /\ NamesOfTail(tail, n) = [i \in 1 .. 2 * n |-> NamesOfTail(tail, n)[i]]
         /\ \A k \in 1 .. n : NamesOfTail(tail, n)[2 * k] = tail[k]
<1>1. NamesOfTail(tail, n) = [i \in 1 .. 2 * n |-> NamesOfTail(tail, n)[i]]
  BY DEF NamesOfTail
<1>2. \A k \in 1 .. n : NamesOfTail(tail, n)[2 * k] = tail[k]
  <2> TAKE k \in 1 .. n
  <2>1. 2 * k \in 1 .. 2 * n /\ (2 * k) % 2 = 0 /\ (2 * k) \div 2 = k
    OBVIOUS
  <2>2. QED
    BY <2>1 DEF NamesOfTail
<1>3. QED
  BY <1>1, <1>2

\* The tail of an identifier is a sequence.
LEMMA TailIs ==
  ASSUME NEW crash \in Crashes, NEW frames
  PROVE  LET T == TailNames(crash.scripts, frames, crash.beat) IN Len(T) \in Nat /\ T = [i \in 1 .. Len(T) |-> T[i]]
<1> DEFINE T == TailNames(crash.scripts, frames, crash.beat)
<1>1. Len(crash.scripts) \in Nat /\ kMaxFingerprintTail \in Nat
  BY CrashIs, CrashAssumption
<1>2. CASE crash.scripts # <<>>
  <2> DEFINE K == IF Len(crash.scripts) > kMaxFingerprintTail THEN kMaxFingerprintTail ELSE Len(crash.scripts)
  <2>1. T = [i \in 1 .. K |-> <<crash.scripts[i]>>]
    BY <1>2, Zenon DEF TailNames
  <2>2. K \in Nat
    BY <1>1
  <2> HIDE DEF K, T
  <2>3. Len(T) = K
    BY <2>1, <2>2
  <2>4. T = [i \in 1 .. Len(T) |-> T[i]]
    BY <2>1, <2>3
  <2>5. QED
    BY <2>2, <2>3, <2>4 DEF T
<1>3. CASE ~(crash.scripts # <<>>) /\ frames # <<>>
  <2>1. T = <<<<frames[1].name, frames[1].rva>>>>
    BY <1>3, Zenon DEF TailNames
  <2> HIDE DEF T
  <2>2. Len(T) = 1 /\ T = [i \in 1 .. 1 |-> T[i]]
    BY <2>1
  <2>3. QED
    BY <2>2 DEF T
<1>4. CASE ~(crash.scripts # <<>>) /\ ~(frames # <<>>)
  <2>1. T = <<<<crash.beat>>>> \/ T = <<>>
    BY <1>4, Zenon DEF TailNames
  <2> HIDE DEF T
  <2>2. CASE T = <<<<crash.beat>>>>
    <3>1. Len(T) = 1 /\ T = [i \in 1 .. 1 |-> T[i]]
      BY <2>2
    <3>2. QED
      BY <3>1 DEF T
  <2>3. CASE T = <<>>
    <3>1. Len(T) = 0 /\ T = [i \in 1 .. 0 |-> T[i]]
      BY <2>3
    <3>2. QED
      BY <3>1 DEF T
  <2>4. QED
    BY <2>1, <2>2, <2>3 DEF T
<1>5. QED
  BY <1>2, <1>3, <1>4

\* How many fields come before those of the tail: four without a module, seven with one.
Named(name) == name # ""
Count0(module) == IF Named(module) THEN 7 ELSE 4

LEMMA CountIs ==
  ASSUME NEW module
  PROVE  /\ Count0(module) \in {4, 7}
         /\ Named(module) <=> Count0(module) = 7
<1>1. CASE Named(module)
  BY <1>1 DEF Count0
<1>2. CASE ~Named(module)
  BY <1>2 DEF Count0
<1>3. QED
  BY <1>1, <1>2

LEMMA FieldsAre ==
  ASSUME NEW code, NEW module, NEW rva, NEW symbol
  PROVE  LET B == Fields0(code, module, rva, symbol) IN
         /\ B = [i \in 1 .. Count0(module) |-> B[i]] /\ B[1] = code
         /\ Named(module) => B[5] = module
         /\ Named(module) /\ Named(symbol) => B[7] = <<symbol>>
         /\ Named(module) /\ ~Named(symbol) => B[7] = <<symbol, rva>>
<1> DEFINE B == Fields0(code, module, rva, symbol)
<1>1. CASE Named(module)
  <2>1. CASE Named(symbol)
    <3>1. B = <<code, Sep, Build, Sep, module, Sep, <<symbol>>>>
      BY <1>1, <2>1, Zenon DEF Fields0, Named
    <3> HIDE DEF B
    <3>2. B = [i \in 1 .. 7 |-> B[i]] /\ B[1] = code /\ B[5] = module /\ B[7] = <<symbol>>
      BY <3>1
    <3>3. QED
      BY <1>1, <2>1, <3>2 DEF Count0, B
  <2>2. CASE ~Named(symbol)
    <3>1. B = <<code, Sep, Build, Sep, module, Sep, <<symbol, rva>>>>
      BY <1>1, <2>2, Zenon DEF Fields0, Named
    <3> HIDE DEF B
    <3>2. B = [i \in 1 .. 7 |-> B[i]] /\ B[1] = code /\ B[5] = module /\ B[7] = <<symbol, rva>>
      BY <3>1
    <3>3. QED
      BY <1>1, <2>2, <3>2 DEF Count0, B
  <2>3. QED
    BY <2>1, <2>2
<1>2. CASE ~Named(module)
  <2>1. B = <<code, Sep, Build, Sep>>
    BY <1>2, Zenon DEF Fields0, Named
  <2> HIDE DEF B
  <2>2. B = [i \in 1 .. 4 |-> B[i]] /\ B[1] = code
    BY <2>1
  <2>3. QED
    BY <1>2, <2>2 DEF Count0, B
<1>3. QED
  BY <1>1, <1>2

\* The fields of both identifiers, by their places.
LEMMA CoreParts ==
  ASSUME NEW code, NEW module, NEW rva, NEW symbol, NEW tail,
         Len(tail) \in Nat, tail = [i \in 1 .. Len(tail) |-> tail[i]]
  PROVE  LET core == ComputeFingerprintCore(code, module, rva, symbol, tail)
             B == Fields0(code, module, rva, symbol)
             n == Count0(module)
         IN /\ Len(core.primary) = n + 2 * Len(tail)
            /\ \A i \in 1 .. n : core.primary[i] = B[i]
            /\ \A k \in 1 .. Len(tail) : core.primary[n + 2 * k] = tail[k]
            /\ \A i \in 1 .. n : core.loose[i] = B[i]
            /\ Len(core.loose) = n \/ (Named(module) /\ Len(core.loose) = n + 2)
<1> DEFINE core == ComputeFingerprintCore(code, module, rva, symbol, tail)
           B == Fields0(code, module, rva, symbol)
           n == Count0(module)
           one == NamesOfTail(tail, 1)
           all == NamesOfTail(tail, Len(tail))
           more == module = "Cyberpunk2077" /\ symbol = "" /\ tail # <<>>
<1>1. core = [loose |-> IF more THEN B \o one ELSE B, primary |-> B \o all]
  BY CoreIs, Zenon
<1>2. n \in Nat
  BY DEF Count0
<1>3. B = [i \in 1 .. n |-> B[i]]
  BY FieldsAre
<1>4. one = [i \in 1 .. 2 * 1 |-> one[i]]
  BY NamesAre
<1>5. all = [i \in 1 .. 2 * Len(tail) |-> all[i]] /\ \A k \in 1 .. Len(tail) : all[2 * k] = tail[k]
  BY NamesAre
<1>6. more => Named(module)
  BY DEF Named
<1> HIDE DEF core, B, n, one, all, more
<1>7. 2 * 1 \in Nat /\ 2 * Len(tail) \in Nat /\ 2 * 1 = 2
  OBVIOUS
<1>8. Len(B \o all) = n + 2 * Len(tail) /\ (\A i \in 1 .. n : (B \o all)[i] = B[i]) /\ \A i \in 1 .. 2 * Len(tail) : (B \o all)[n + i] = all[i]
  BY ONLY <1>2, <1>3, <1>5, <1>7, JoinedIs
<1>9. Len(B \o one) = n + 2 /\ \A i \in 1 .. n : (B \o one)[i] = B[i]
  BY ONLY <1>2, <1>3, <1>4, <1>7, JoinedIs
<1>10. core.primary = B \o all
  BY ONLY <1>1
<1>11. \A k \in 1 .. Len(tail) : core.primary[n + 2 * k] = tail[k]
  <2> TAKE k \in 1 .. Len(tail)
  <2>1. 2 * k \in 1 .. 2 * Len(tail)
    OBVIOUS
  <2>2. QED
    BY <1>5, <1>8, <1>10, <2>1
<1>12. Len(B) = n
  BY <1>2, <1>3
<1>13. (\A i \in 1 .. n : core.loose[i] = B[i]) /\ (Len(core.loose) = n \/ (Named(module) /\ Len(core.loose) = n + 2))
  <2>1. CASE more
    <3>1. core.loose = B \o one
      BY ONLY <1>1, <2>1
    <3>2. QED
      BY <1>6, <1>9, <2>1, <3>1
  <2>2. CASE ~more
    <3>1. core.loose = B
      BY ONLY <1>1, <2>2
    <3>2. QED
      BY <1>12, <3>1
  <2>3. QED
    BY <2>1, <2>2
<1>14. QED
  BY <1>8, <1>10, <1>11, <1>13 DEF core, B, n

LEMMA SameLoose ==
  ASSUME NEW code, NEW module, NEW rva, NEW symbol, NEW tail,
         Len(tail) \in Nat, tail = [i \in 1 .. Len(tail) |-> tail[i]],
         NEW code2, NEW module2, NEW rva2, NEW symbol2, NEW tail2,
         Len(tail2) \in Nat, tail2 = [i \in 1 .. Len(tail2) |-> tail2[i]],
         ComputeFingerprintCore(code, module, rva, symbol, tail).loose = ComputeFingerprintCore(code2, module2, rva2, symbol2, tail2).loose
  PROVE  code = code2 /\ module = module2
<1> DEFINE x == ComputeFingerprintCore(code, module, rva, symbol, tail).loose
           y == ComputeFingerprintCore(code2, module2, rva2, symbol2, tail2).loose
           B == Fields0(code, module, rva, symbol)
           C == Fields0(code2, module2, rva2, symbol2)
<1>1. (\A i \in 1 .. Count0(module) : x[i] = B[i]) /\ (Len(x) = Count0(module) \/ (Named(module) /\ Len(x) = Count0(module) + 2))
  BY CoreParts
<1>2. (\A i \in 1 .. Count0(module2) : y[i] = C[i]) /\ (Len(y) = Count0(module2) \/ (Named(module2) /\ Len(y) = Count0(module2) + 2))
  BY CoreParts
<1>3. B[1] = code /\ C[1] = code2 /\ (Named(module) => B[5] = module) /\ (Named(module2) => C[5] = module2)
  BY FieldsAre
<1>4. x = y
  OBVIOUS
<1> HIDE DEF x, y, B, C
<1>5. Named(module) <=> Named(module2)
  <2> DEFINE n == Count0(module)
             k == Count0(module2)
  <2>1. n \in {4, 7} /\ k \in {4, 7} /\ (Named(module) <=> n = 7) /\ (Named(module2) <=> k = 7)
    BY CountIs
  <2>2. (Len(x) = n \/ (n = 7 /\ Len(x) = n + 2)) /\ (Len(x) = k \/ (k = 7 /\ Len(x) = k + 2))
    BY ONLY <1>1, <1>2, <1>4, <2>1, Zenon
  <2> HIDE DEF n, k
  <2>n. n \in {4, 7} /\ k \in {4, 7}
    BY ONLY <2>1
  <2>3. n = k
    BY ONLY <2>n, <2>2
  <2>4. QED
    BY ONLY <2>1, <2>3, Zenon
<1>6. code = code2
  BY <1>1, <1>2, <1>3, <1>4 DEF Count0
<1>7. CASE Named(module)
  <2>1. B[5] = module /\ C[5] = module2 /\ 5 \in 1 .. Count0(module) /\ 5 \in 1 .. Count0(module2)
    BY <1>3, <1>5, <1>7 DEF Count0
  <2>2. QED
    BY <1>1, <1>2, <1>4, <1>6, <2>1
<1>8. CASE ~Named(module)
  <2>1. module = "" /\ module2 = ""
    BY <1>5, <1>8, Zenon DEF Named
  <2>2. QED
    BY <1>6, <2>1
<1>9. QED
  BY <1>7, <1>8

LEMMA SamePrimary ==
  ASSUME NEW code, NEW module, NEW rva, NEW symbol, NEW tail,
         Len(tail) \in Nat, tail = [i \in 1 .. Len(tail) |-> tail[i]],
         NEW code2, NEW module2, NEW rva2, NEW symbol2, NEW tail2,
         Len(tail2) \in Nat, tail2 = [i \in 1 .. Len(tail2) |-> tail2[i]],
         ComputeFingerprintCore(code, module, rva, symbol, tail).primary = ComputeFingerprintCore(code2, module2, rva2, symbol2, tail2).primary
  PROVE  /\ tail = tail2
         /\ ComputeFingerprintCore(code, module, rva, symbol, tail).loose = ComputeFingerprintCore(code2, module2, rva2, symbol2, tail2).loose
<1> DEFINE x == ComputeFingerprintCore(code, module, rva, symbol, tail).primary
           y == ComputeFingerprintCore(code2, module2, rva2, symbol2, tail2).primary
           B == Fields0(code, module, rva, symbol)
           C == Fields0(code2, module2, rva2, symbol2)
           n == Count0(module)
           k == Count0(module2)
<1>1. (\A i \in 1 .. n : x[i] = B[i]) /\ Len(x) = n + 2 * Len(tail) /\ \A i \in 1 .. Len(tail) : x[n + 2 * i] = tail[i]
  BY CoreParts
<1>2. (\A i \in 1 .. k : y[i] = C[i]) /\ Len(y) = k + 2 * Len(tail2) /\ \A i \in 1 .. Len(tail2) : y[k + 2 * i] = tail2[i]
  BY CoreParts
<1>3. x = y
  OBVIOUS
<1>4. B = [i \in 1 .. n |-> B[i]] /\ C = [i \in 1 .. k |-> C[i]]
  BY FieldsAre
<1>5. /\ Named(module) => B[5] = module
      /\ Named(module) /\ Named(symbol) => B[7] = <<symbol>>
      /\ Named(module) /\ ~Named(symbol) => B[7] = <<symbol, rva>>
      /\ Named(module2) => C[5] = module2
      /\ Named(module2) /\ Named(symbol2) => C[7] = <<symbol2>>
      /\ Named(module2) /\ ~Named(symbol2) => C[7] = <<symbol2, rva2>>
  BY FieldsAre
<1> HIDE DEF x, y, B, C
<1>6. n = k /\ Len(tail) = Len(tail2) /\ (Named(module) <=> Named(module2))
  <2>1. n \in {4, 7} /\ k \in {4, 7} /\ (Named(module) <=> n = 7) /\ (Named(module2) <=> k = 7)
    BY CountIs
  <2>2. n + 2 * Len(tail) = k + 2 * Len(tail2)
    BY ONLY <1>1, <1>2, <1>3
  <2>3. Len(tail) \in Nat /\ Len(tail2) \in Nat
    OBVIOUS
  <2> DEFINE a == Len(tail)
             b == Len(tail2)
  <2> HIDE DEF n, k, a, b
  <2>4. n \in {4, 7} /\ k \in {4, 7} /\ n + 2 * a = k + 2 * b /\ a \in Nat /\ b \in Nat
    BY ONLY <2>1, <2>2, <2>3 DEF a, b
  <2>5. n = k /\ a = b
    BY ONLY <2>4
  <2>6. QED
    BY ONLY <2>1, <2>5, Zenon DEF a, b
<1>7. tail = tail2
  <2>1. \A i \in 1 .. Len(tail) : tail[i] = tail2[i]
    BY <1>1, <1>2, <1>3, <1>6
  <2>2. QED
    BY <1>6, <2>1
<1>8. B = C
  <2>1. \A i \in 1 .. n : B[i] = C[i]
    BY <1>1, <1>2, <1>3, <1>6
  <2>2. QED
    BY <1>4, <1>6, <2>1
<1>9. module = module2 /\ (Named(module) => (Named(symbol) <=> Named(symbol2)))
  <2>1. CASE Named(module)
    <3>1. module = module2
      BY <1>5, <1>6, <1>8, <2>1
    <3>2. ~(Named(symbol) /\ ~Named(symbol2))
      <4>1. <<symbol>> # <<symbol2, rva2>>
        <5>1. Len(<<symbol>>) # Len(<<symbol2, rva2>>)
          OBVIOUS
        <5>2. QED
          BY <5>1
      <4>2. QED
        BY <1>5, <1>6, <1>8, <2>1, <4>1
    <3>3. ~(~Named(symbol) /\ Named(symbol2))
      <4>1. <<symbol, rva>> # <<symbol2>>
        <5>1. Len(<<symbol, rva>>) # Len(<<symbol2>>)
          OBVIOUS
        <5>2. QED
          BY <5>1
      <4>2. QED
        BY <1>5, <1>6, <1>8, <2>1, <4>1
    <3>4. QED
      BY <3>1, <3>2, <3>3
  <2>2. CASE ~Named(module)
    <3>1. module = "" /\ module2 = ""
      BY <1>6, <2>2, Zenon DEF Named
    <3>2. QED
      BY <2>2, <3>1
  <2>3. QED
    BY <2>1, <2>2
<1> DEFINE more == module = "Cyberpunk2077" /\ symbol = "" /\ tail # <<>>
           more2 == module2 = "Cyberpunk2077" /\ symbol2 = "" /\ tail2 # <<>>
<1>10. more <=> more2
  <2>1. module = "Cyberpunk2077" => Named(module)
    BY DEF Named
  <2>2. QED
    BY <1>7, <1>9, <2>1, Zenon DEF Named
<1>11. /\ ComputeFingerprintCore(code, module, rva, symbol, tail).loose = IF more THEN B \o NamesOfTail(tail, 1) ELSE B
       /\ ComputeFingerprintCore(code2, module2, rva2, symbol2, tail2).loose = IF more2 THEN C \o NamesOfTail(tail2, 1) ELSE C
  <2>1. ComputeFingerprintCore(code, module, rva, symbol, tail).loose = IF more THEN B \o NamesOfTail(tail, 1) ELSE B
    <3> DEFINE core == ComputeFingerprintCore(code, module, rva, symbol, tail)
    <3>1. core = [loose |-> IF more THEN B \o NamesOfTail(tail, 1) ELSE B, primary |-> B \o NamesOfTail(tail, Len(tail))]
      BY CoreIs, Zenon DEF B
    <3> HIDE DEF core, more
    <3>2. core.loose = IF more THEN B \o NamesOfTail(tail, 1) ELSE B
      BY ONLY <3>1
    <3>3. QED
      BY <3>2 DEF core, more
  <2>2. ComputeFingerprintCore(code2, module2, rva2, symbol2, tail2).loose = IF more2 THEN C \o NamesOfTail(tail2, 1) ELSE C
    <3> DEFINE core == ComputeFingerprintCore(code2, module2, rva2, symbol2, tail2)
    <3>1. core = [loose |-> IF more2 THEN C \o NamesOfTail(tail2, 1) ELSE C, primary |-> C \o NamesOfTail(tail2, Len(tail2))]
      BY CoreIs, Zenon DEF C
    <3> HIDE DEF core, more2
    <3>2. core.loose = IF more2 THEN C \o NamesOfTail(tail2, 1) ELSE C
      BY ONLY <3>1
    <3>3. QED
      BY <3>2 DEF core, more2
  <2>3. QED
    BY <2>1, <2>2
<1> HIDE DEF more, more2
<1>12. (IF more THEN B \o NamesOfTail(tail, 1) ELSE B) = (IF more2 THEN C \o NamesOfTail(tail2, 1) ELSE C)
  BY ONLY <1>7, <1>8, <1>10
<1>13. QED
  BY ONLY <1>7, <1>11, <1>12

\* The identifiers and the verdict of a crash in a launch.
FramesOf(crash, loaded) == GatherModFramesOnStack(FillModuleList(loaded), Pcs(crash, loaded))
TailOf(crash, loaded) == TailNames(crash.scripts, FramesOf(crash, loaded), crash.beat)
OffsetOf(crash, loaded) == Pcs(crash, loaded)[1] - Where(crash, loaded, 1).base
CoreOf(crash, loaded) ==
  ComputeFingerprintCore(crash.code, Where(crash, loaded, 1).name, OffsetOf(crash, loaded),
                         SymbolOf(loaded, Where(crash, loaded, 1).name, OffsetOf(crash, loaded)), TailOf(crash, loaded))

LEMMA IdIs ==
  ASSUME NEW crash, NEW loaded
  PROVE  /\ EmitHeader(crash, loaded).id.primary = CoreOf(crash, loaded).primary
         /\ EmitHeader(crash, loaded).id.loose = CoreOf(crash, loaded).loose
         /\ EmitHeader(crash, loaded).verdict =
              ComputeVerdict(crash.code, crash.oom, Where(crash, loaded, 1), FramesOf(crash, loaded))
<1> DEFINE m == Where(crash, loaded, 1)
           p == Pcs(crash, loaded)[1]
           names == [i \in DOMAIN crash.sites |-> Where(crash, loaded, i).name]
           frames == FramesOf(crash, loaded)
           symbol == SymbolOf(loaded, m.name, p - m.base)
           v == ComputeVerdict(crash.code, crash.oom, m, frames)
           id == ComputeFingerprint(crash.code, p, m, symbol, frames, crash.scripts, crash.beat, loaded.mods)
           class == ClassifyCrash(names, Len(crash.scripts))
           H == EmitHeader(crash, loaded)
           C == CoreOf(crash, loaded)
           set == ComputeModSetHash(loaded.mods)
<1>1. H = [verdict |-> v, id |-> id, class |-> class]
  <2>1. H = HeaderOf(crash, loaded, m, p, frames, names)
    BY HeaderIs, Zenon DEF FramesOf
  <2>2. QED
    BY <2>1, Zenon DEF HeaderOf
<1>2. id = [loose |-> C.loose, primary |-> C.primary, modSet |-> set]
  BY Zenon DEF ComputeFingerprint, CoreOf, TailOf, OffsetOf
<1> HIDE DEF v, id, class, H, C, set
<1>3. H.verdict = v /\ H.id = id
  BY ONLY <1>1
<1>4. id.primary = C.primary /\ id.loose = C.loose
  BY ONLY <1>2
<1>5. H.id.primary = C.primary /\ H.id.loose = C.loose /\ H.verdict = v
  BY ONLY <1>3, <1>4
<1>6. QED
  BY ONLY <1>5 DEF H, C, v

\* The tail of a crash without scripts in flight, and with a mod on its stack.
LEMMA TailOfFrames ==
  ASSUME NEW scripts, NEW frames, NEW beat, scripts = <<>>, frames # <<>>
  PROVE  TailNames(scripts, frames, beat)[1][1] = frames[1].name
<1>1. TailNames(scripts, frames, beat) = <<<<frames[1].name, frames[1].rva>>>>
  BY Zenon DEF TailNames
<1>2. <<<<frames[1].name, frames[1].rva>>>>[1][1] = frames[1].name
  BY ONLY TRUE
<1>3. QED
  BY ONLY <1>1, <1>2

\* Which module or mod a crash in a mod is blamed on.
LEMMA BlameIs ==
  ASSUME NEW code, NEW oom, NEW m, NEW frames, ComputeVerdict(code, oom, m, frames).category = "mod"
  PROVE  /\ m # NoModule
         /\ \/ m.kind = "Mod" /\ ComputeVerdict(code, oom, m, frames).names = {m.name}
            \/ m.kind # "Mod" /\ frames # <<>> /\ ComputeVerdict(code, oom, m, frames).names = {frames[1].name}
<1> DEFINE v == ComputeVerdict(code, oom, m, frames)
           host == IF m.name \in HostFrameworks THEN "Low" ELSE "High"
           oneFrame == {frames[1].name}
           none == m = NoModule
<1>1. \/ v = Verdict("stack-overflow", "High", {})
      \/ v = Verdict("memory", "High", {})
      \/ v = Verdict("memory", "Medium", {})
      \/ v = Verdict("system", "Low", {})
      \/ v = Verdict("memory", "Low", {})
      \/ v = Verdict("unknown", "Unknown", {})
      \/ v = Verdict("redscope-itself", "High", {m.name})
      \/ ~none /\ m.kind = "Mod" /\ v = Verdict("mod", host, {m.name})
      \/ ~none /\ m.kind # "Mod" /\ frames # <<>> /\ v = Verdict("mod", "Medium", oneFrame)
      \/ v = Verdict("game", "Medium", {m.name})
      \/ v = Verdict("system", "Low", {m.name})
      \/ v = Verdict("unknown", "Low", {m.name})
  BY DEF ComputeVerdict
<1>2. v.category = "mod"
  OBVIOUS
<1>3. \A k, o, n : Verdict(k, o, n).category = k /\ Verdict(k, o, n).names = n
  BY DEF Verdict
<1> HIDE DEF v, host, oneFrame, none
<1>4. \/ ~none /\ m.kind = "Mod" /\ v = Verdict("mod", host, {m.name})
      \/ ~none /\ m.kind # "Mod" /\ frames # <<>> /\ v = Verdict("mod", "Medium", oneFrame)
  BY ONLY <1>1, <1>2, <1>3
<1>5. /\ ~none
      /\ \/ m.kind = "Mod" /\ v.names = {m.name}
         \/ m.kind # "Mod" /\ frames # <<>> /\ v.names = oneFrame
  <2>1. Verdict("mod", host, {m.name}).names = {m.name} /\ Verdict("mod", "Medium", oneFrame).names = oneFrame
    BY ONLY <1>3
  <2> DEFINE a == Verdict("mod", host, {m.name})
             b == Verdict("mod", "Medium", oneFrame)
             one == {m.name}
  <2>2. a.names = one /\ b.names = oneFrame
    BY ONLY <2>1
  <2>3. \/ ~none /\ m.kind = "Mod" /\ v = a
        \/ ~none /\ m.kind # "Mod" /\ frames # <<>> /\ v = b
    BY ONLY <1>4
  <2> HIDE DEF a, b, one
  <2>4. \/ ~none /\ m.kind = "Mod" /\ v.names = one
        \/ ~none /\ m.kind # "Mod" /\ frames # <<>> /\ v.names = oneFrame
    BY ONLY <2>2, <2>3, Zenon
  <2>5. QED
    BY ONLY <2>4, Zenon DEF one
<1>6. QED
  BY ONLY <1>5, Zenon DEF v, none, oneFrame

\* Where two crashes are found under one name, they happened in one module, or both in none.
LEMMA SamePlace ==
  ASSUME NEW loaded \in Launches, NEW c \in Crashes, NEW d \in Crashes, Where(c, loaded, 1).name = Where(d, loaded, 1).name
  PROVE  /\ c.sites[1].module = d.sites[1].module
         /\ Where(c, loaded, 1) = Where(d, loaded, 1)
<1>1. ASSUME NEW crash \in Crashes PROVE IsFound(loaded, crash.sites[1], Where(crash, loaded, 1))
  <2>1. 1 \in DOMAIN crash.sites
    BY CrashIs
  <2>2. QED
    BY <2>1, SiteIsFound DEF Where, Pcs
<1> DEFINE x == c.sites[1]
           y == d.sites[1]
           m == Where(c, loaded, 1)
           n == Where(d, loaded, 1)
<1>2. IsFound(loaded, x, m) /\ IsFound(loaded, y, n)
  BY <1>1
<1>3. m.name = n.name
  OBVIOUS
<1>4. ~Named(NoModule.name)
  BY DEF NoModule, Named
<1>5. \A i \in DOMAIN Modules : Named(Modules[i].name) /\ Loaded(loaded, i).name = Modules[i].name
  BY ModulesAre DEF Named, Loaded
<1>6. \A i, j \in DOMAIN Modules : Modules[i].name = Modules[j].name => i = j
  BY CrashAssumption
<1> HIDE DEF x, y, m, n
<1>7. CASE m = NoModule
  <2>1. ~Named(n.name)
    BY <1>3, <1>4, <1>7, Zenon
  <2>2. \A i \in DOMAIN Modules : m # Loaded(loaded, i) /\ n # Loaded(loaded, i)
    BY <1>4, <1>5, <1>7, <2>1, Zenon
  <2>3. x.module = Heap /\ y.module = Heap /\ n = NoModule
    BY <1>2, <2>2, Zenon DEF IsFound
  <2>4. QED
    BY <1>7, <2>3 DEF x, y, m, n
<1>8. CASE m # NoModule
  <2>1. PICK i \in DOMAIN Modules : x.module = Modules[i].name /\ m = Loaded(loaded, i)
    BY <1>2, <1>8, Zenon DEF IsFound
  <2>2. Named(n.name)
    BY <1>3, <1>5, <2>1, Zenon
  <2>3. n # NoModule
    BY <1>4, <2>2, Zenon
  <2>4. PICK j \in DOMAIN Modules : y.module = Modules[j].name /\ n = Loaded(loaded, j)
    BY <1>2, <2>3, Zenon DEF IsFound
  <2>5. Modules[i].name = Modules[j].name
    BY <1>3, <1>5, <2>1, <2>4, Zenon
  <2>6. i = j
    BY <1>6, <2>5, Zenon
  <2>7. x.module = y.module /\ m = n
    BY <2>1, <2>4, <2>6, Zenon
  <2>8. QED
    BY <2>7 DEF x, y, m, n
<1>9. QED
  BY <1>7, <1>8

\* Whatever the crashes, a finer bucket lies in one coarser bucket, of one module and one code.
LEMMA NestedBuckets ==
  ASSUME NEW loaded \in Launches, NEW c \in Crashes, NEW d \in Crashes
  PROVE  BucketsAreNested(c, d, EmitHeader(c, loaded), EmitHeader(d, loaded))
<1> DEFINE x == EmitHeader(c, loaded)
           y == EmitHeader(d, loaded)
           T == TailOf(c, loaded)
           U == TailOf(d, loaded)
           m == Where(c, loaded, 1)
           n == Where(d, loaded, 1)
<1>1. /\ x.id.primary = CoreOf(c, loaded).primary /\ x.id.loose = CoreOf(c, loaded).loose
      /\ y.id.primary = CoreOf(d, loaded).primary /\ y.id.loose = CoreOf(d, loaded).loose
      /\ x.verdict = ComputeVerdict(c.code, c.oom, m, FramesOf(c, loaded))
      /\ y.verdict = ComputeVerdict(d.code, d.oom, n, FramesOf(d, loaded))
  BY IdIs
<1>2. /\ Len(T) \in Nat /\ T = [i \in 1 .. Len(T) |-> T[i]]
      /\ Len(U) \in Nat /\ U = [i \in 1 .. Len(U) |-> U[i]]
  BY TailIs DEF TailOf
<1> DEFINE r == OffsetOf(c, loaded)
           s == SymbolOf(loaded, m.name, r)
           q == OffsetOf(d, loaded)
           t == SymbolOf(loaded, n.name, q)
           code == c.code
           code2 == d.code
           of == m.name
           of2 == n.name
<1>3. /\ CoreOf(c, loaded) = ComputeFingerprintCore(code, of, r, s, T)
      /\ CoreOf(d, loaded) = ComputeFingerprintCore(code2, of2, q, t, U)
  BY Zenon DEF CoreOf
<1> HIDE DEF x, y, T, U, m, n, r, s, q, t, code, code2, of, of2
<1>4. ASSUME x.id.primary = y.id.primary PROVE T = U /\ x.id.loose = y.id.loose
  <2>1. ComputeFingerprintCore(code, of, r, s, T).primary = ComputeFingerprintCore(code2, of2, q, t, U).primary
    BY ONLY <1>1, <1>3, <1>4
  <2>2. T = U /\ ComputeFingerprintCore(code, of, r, s, T).loose = ComputeFingerprintCore(code2, of2, q, t, U).loose
    BY ONLY <1>2, <2>1, SamePrimary
  <2>3. QED
    BY ONLY <1>1, <1>3, <2>2
<1>5. ASSUME x.id.loose = y.id.loose PROVE code = code2 /\ of = of2
  <2>1. ComputeFingerprintCore(code, of, r, s, T).loose = ComputeFingerprintCore(code2, of2, q, t, U).loose
    BY ONLY <1>1, <1>3, <1>5
  <2>2. QED
    BY ONLY <1>2, <2>1, SameLoose
<1>6. ASSUME x.id.loose = y.id.loose PROVE c.sites[1].module = d.sites[1].module /\ m = n /\ c.code = d.code
  <2>1. Where(c, loaded, 1).name = Where(d, loaded, 1).name /\ c.code = d.code
    BY <1>5, <1>6 DEF of, of2, m, n, code, code2
  <2>2. QED
    BY <2>1, SamePlace DEF m, n
<1>7. ASSUME x.id.primary = y.id.primary, x.verdict.category = "mod", y.verdict.category = "mod", c.scripts = <<>>, d.scripts = <<>>
      PROVE  x.verdict.names = y.verdict.names
  <2>1. T = U /\ m = n
    BY <1>4, <1>6, <1>7
  <2> DEFINE ofC == FramesOf(c, loaded)
             ofD == FramesOf(d, loaded)
  <2>2. \/ m.kind = "Mod" /\ x.verdict.names = {m.name}
        \/ m.kind # "Mod" /\ ofC # <<>> /\ x.verdict.names = {ofC[1].name}
    BY <1>1, <1>7, BlameIs
  <2>3. \/ n.kind = "Mod" /\ y.verdict.names = {n.name}
        \/ n.kind # "Mod" /\ ofD # <<>> /\ y.verdict.names = {ofD[1].name}
    BY <1>1, <1>7, BlameIs
  <2>4. ofC # <<>> => T[1][1] = ofC[1].name
    BY <1>7, TailOfFrames DEF T, TailOf
  <2>5. ofD # <<>> => U[1][1] = ofD[1].name
    BY <1>7, TailOfFrames DEF U, TailOf
  <2> HIDE DEF ofC, ofD
  <2>6. QED
    BY ONLY <2>1, <2>2, <2>3, <2>4, <2>5
<1>8. QED
  BY <1>4, <1>6, <1>7 DEF BucketsAreNested, x, y

----------------------------------------------------------------------------
\* A crash that was picked is one of those that are looked at.
PickedCrash == Of("crash") => \E c \in Crashes : input = <<c>>

LEMMA PickedCrashHolds == MCSpec => []PickedCrash
<1>1. MCInit => PickedCrash
  BY DEF MCInit, PickedCrash, Of
<1>2. PickedCrash /\ [Pick \/ SessionStep \/ FolderStep]_<<inputVars, historyVars, folderVars>> => PickedCrash'
  <2> SUFFICES ASSUME PickedCrash, [Pick \/ SessionStep \/ FolderStep]_<<inputVars, historyVars, folderVars>>
               PROVE  PickedCrash'
    OBVIOUS
  <2>1. CASE Pick
    <3>1. subject' = subject /\ input' \in {<<i>> : i \in Inputs}
      BY <2>1 DEF Pick
    <3>2. ASSUME subject = "crash" PROVE Inputs = Crashes
      BY <3>2, Zenon DEF Inputs
    <3>3. QED
      BY <3>1, <3>2 DEF PickedCrash, Of
  <2>2. CASE UNCHANGED inputVars
    BY <2>2 DEF inputVars, PickedCrash, Of
  <2>3. QED
    BY <2>1, <2>2 DEF SessionStep, FolderStep
<1>3. QED
  BY <1>1, <1>2, PTL DEF MCSpec

\* One crash has one header wherever the modules lie and in whatever order the mods are found, and
\* its buckets are nested, of one module, and blame one mod: for any modules, symbols, crashes and
\* launches.
THEOREM HeadersAreOfTheCrash == MCSpec => []CrashIdsGroup
<1>1. PickedCrash => CrashIdsGroup
  <2> SUFFICES ASSUME PickedCrash, Of("crash")
               PROVE  /\ \A a, b \in Launches : SameCrashSameHeader(input[1], a, b)
                      /\ \A h \in Headers : BucketsAreNested(input[1], h[1], EmitHeader(input[1], ALaunch), h[2])
    BY Zenon DEF CrashIdsGroup
  <2>1. PICK crash \in Crashes : input = <<crash>>
    BY DEF PickedCrash
  <2>2. input[1] = crash
    BY <2>1
  <2>3. \A a, b \in Launches : SameCrashSameHeader(crash, a, b)
    BY SameHeader
  <2>4. ASSUME NEW h \in Headers PROVE BucketsAreNested(crash, h[1], EmitHeader(crash, ALaunch), h[2])
    <3>1. PICK other \in Crashes : h = <<other, EmitHeader(other, ALaunch)>>
      BY DEF Headers
    <3>2. h[1] = other /\ h[2] = EmitHeader(other, ALaunch)
      BY <3>1
    <3>3. ALaunch \in Launches
      BY CrashAssumption
    <3>4. QED
      BY <3>2, <3>3, NestedBuckets
  <2>5. QED
    BY <2>2, <2>3, <2>4
<1>2. QED
  BY <1>1, PickedCrashHolds, PTL

-----------------------------------------------------------------------------
(* The logs *)

\* The first element in an order, the one after another, and the last.
LEMMA FirstInOrder ==
  ASSUME NEW T \in SUBSET Nat, NEW A, IsAscending(A, T), NEW t \in T, \A u \in T : t <= u
  PROVE  Cardinality(T) > 0 /\ A[1] = t
<1> DEFINE c == Cardinality(T)
<1>1. /\ c \in Nat /\ \A i \in 1 .. c : A[i] \in T /\ A[i] \in Nat
      /\ \A i, j \in 1 .. c : i < j => A[i] < A[j]
      /\ \A u \in T : \E i \in 1 .. c : A[i] = u
  BY DEF IsAscending
<1> HIDE DEF c
<1>2. PICK i \in 1 .. c : A[i] = t
  BY <1>1
<1>3. i = 1
  <2>1. 1 \in 1 .. c
    BY <1>1
  <2>2. A[1] \in Nat /\ t \in Nat /\ t <= A[1]
    BY <1>1, <2>1
  <2>3. 1 < i => A[1] < A[i]
    BY <1>1, <2>1
  <2>4. QED
    BY <1>2, <2>2, <2>3
<1>4. QED
  BY <1>1, <1>2, <1>3 DEF c

LEMMA NextInOrder ==
  ASSUME NEW T \in SUBSET Nat, NEW A, IsAscending(A, T), NEW k \in 1 .. Cardinality(T),
         NEW t \in T, A[k] < t, \A u \in T : A[k] < u => t <= u
  PROVE  k + 1 <= Cardinality(T) /\ A[k + 1] = t
<1> DEFINE c == Cardinality(T)
<1>1. /\ c \in Nat /\ \A i \in 1 .. c : A[i] \in T /\ A[i] \in Nat
      /\ \A i, j \in 1 .. c : i < j => A[i] < A[j]
      /\ \A u \in T : \E i \in 1 .. c : A[i] = u
  BY DEF IsAscending
<1>0. k \in 1 .. c
  OBVIOUS
<1> HIDE DEF c
<1>2. PICK i \in 1 .. c : A[i] = t
  BY <1>1
<1>3. k < i
  <2>1. i < k => A[i] < A[k]
    BY <1>0, <1>1
  <2>2. A[i] \in Nat /\ A[k] \in Nat /\ i # k
    BY <1>0, <1>1, <1>2
  <2>3. QED
    BY <1>0, <1>1, <1>2, <2>1, <2>2
<1>4. k + 1 \in 1 .. c
  BY <1>0, <1>1, <1>3
<1>5. A[k] < A[k + 1] /\ A[k + 1] \in T /\ A[k + 1] \in Nat /\ t \in Nat
  BY <1>0, <1>1, <1>4
<1>6. t <= A[k + 1]
  BY <1>5
<1>7. k + 1 < i => A[k + 1] < A[i]
  BY <1>1, <1>4
<1>8. i = k + 1
  BY <1>0, <1>1, <1>2, <1>3, <1>5, <1>6, <1>7
<1>9. QED
  BY <1>1, <1>2, <1>4, <1>8 DEF c

LEMMA LastInOrder ==
  ASSUME NEW T \in SUBSET Nat, NEW A, IsAscending(A, T), NEW k \in 1 .. Cardinality(T), \A u \in T : ~(A[k] < u)
  PROVE  k = Cardinality(T)
<1> DEFINE c == Cardinality(T)
<1>1. c \in Nat /\ (\A i \in 1 .. c : A[i] \in T) /\ \A i, j \in 1 .. c : i < j => A[i] < A[j]
  BY DEF IsAscending
<1>2. k \in 1 .. c
  OBVIOUS
<1> HIDE DEF c
<1>3. c \in 1 .. c
  BY <1>1, <1>2
<1>4. ~(k < c)
  BY <1>1, <1>2, <1>3
<1>5. QED
  BY <1>1, <1>2, <1>4 DEF c

-----------------------------------------------------------------------------
\* The lines of a text, as they are read.
Piece(text, a, b) == WithoutCR(SubSeq(text, a, b))
Pieces(text) == {Piece(text, a, b) : a \in 1 .. Len(text) + 1, b \in 0 .. Len(text)}
ReadStep(text, s, i) ==
  IF text[i] = NL THEN [lines |-> Append(s.lines, Piece(text, s.start, i - 1)), start |-> i + 1] ELSE s
IsRead(f, text) ==
  f = [i \in 0..Len(text) |-> IF i = 0 THEN [lines |-> <<>>, start |-> 1] ELSE ReadStep(text, f[i - 1], i)]
Read(text) == CHOOSE f : IsRead(f, text)
ReadStates(text) == [lines : Seq(Pieces(text)), start : 1 .. Len(text) + 1]

LEMMA SplitIsRead ==
  ASSUME NEW text
  PROVE  LET s == Read(text)[Len(text)] IN
         SplitLines(text) = IF s.start > Len(text) THEN s.lines ELSE Append(s.lines, Piece(text, s.start, Len(text)))
  BY Zenon DEF SplitLines, Read, IsRead, ReadStep, Piece

LEMMA ReadStepType ==
  ASSUME NEW text, Len(text) \in Nat, NEW s \in ReadStates(text), NEW i \in 1 .. Len(text)
  PROVE  ReadStep(text, s, i) \in ReadStates(text)
<1>1. s.lines \in Seq(Pieces(text)) /\ s.start \in 1 .. Len(text) + 1
  BY DEF ReadStates
<1>2. i - 1 \in 0 .. Len(text) /\ i + 1 \in 1 .. Len(text) + 1
  OBVIOUS
<1>3. Piece(text, s.start, i - 1) \in Pieces(text)
  BY <1>1, <1>2 DEF Pieces
<1>4. CASE text[i] = NL
  <2>1. ReadStep(text, s, i) = [lines |-> Append(s.lines, Piece(text, s.start, i - 1)), start |-> i + 1]
    BY <1>4 DEF ReadStep
  <2>2. Append(s.lines, Piece(text, s.start, i - 1)) \in Seq(Pieces(text))
    BY <1>1, <1>3
  <2>3. QED
    BY <1>2, <2>1, <2>2 DEF ReadStates
<1>5. CASE text[i] # NL
  BY <1>5 DEF ReadStep
<1>6. QED
  BY <1>4, <1>5

LEMMA ReadIsThere ==
  ASSUME NEW text, Len(text) \in Nat
  PROVE  /\ Read(text)[0] = [lines |-> <<>>, start |-> 1]
         /\ \A i \in 1 .. Len(text) : Read(text)[i] = ReadStep(text, Read(text)[i - 1], i)
         /\ \A i \in 0 .. Len(text) : Read(text)[i].lines \in Seq(Pieces(text)) /\ Read(text)[i].start \in 1 .. Len(text) + 1
<1> DEFINE S == ReadStates(text)
           n == Len(text)
           base == [lines |-> <<>>, start |-> 1]
           step == [x \in S \X (1 .. n) |-> ReadStep(text, x[1], x[2])]
<1>1. base \in S
  BY DEF ReadStates
<1>2. \A s \in S, i \in 1 .. n : step[<<s, i>>] = ReadStep(text, s, i) /\ step[<<s, i>>] \in S
  BY ReadStepType
<1> HIDE DEF base, step, S
<1>3. PICK f : Steps(f, n, base, step) /\ f \in [0 .. n -> S]
  BY <1>1, <1>2, StepsAreThere
<1>4. f = [i \in 0..n |-> IF i = 0 THEN base ELSE step[<<f[i - 1], i>>]]
  BY <1>3 DEF Steps
<1>5. \A i \in 0 .. n : i # 0 => step[<<f[i - 1], i>>] = ReadStep(text, f[i - 1], i)
  <2> TAKE i \in 0 .. n
  <2> HAVE i # 0
  <2>1. i - 1 \in 0 .. n /\ i \in 1 .. n
    OBVIOUS
  <2>2. f[i - 1] \in S
    BY <1>3, <2>1
  <2>3. QED
    BY <1>2, <2>1, <2>2
<1>6. f = [i \in 0..n |-> IF i = 0 THEN base ELSE ReadStep(text, f[i - 1], i)]
  BY <1>4, <1>5
<1>7. IsRead(f, text)
  BY <1>6 DEF IsRead, base
<1>8. IsRead(Read(text), text)
  BY <1>7, Zenon DEF Read
<1> DEFINE R == Read(text)
<1>9. R = [i \in 0..n |-> IF i = 0 THEN base ELSE ReadStep(text, R[i - 1], i)]
  BY <1>8 DEF IsRead, base
<1> HIDE DEF R
<1>10. R[0] = base /\ \A i \in 1 .. n : R[i] = ReadStep(text, R[i - 1], i)
  BY <1>9
<1>11. \A i \in 0 .. n : R[i] \in S
  <2> DEFINE T == {i \in 0 .. n : R[i] \notin S}
  <2>1. SUFFICES ASSUME T # {} PROVE FALSE
    OBVIOUS
  <2>2. PICK i \in T : \A l \in T : i <= l
    <3>1. T \in SUBSET Nat
      OBVIOUS
    <3> HIDE DEF T
    <3>2. QED
      BY <2>1, <3>1, LeastOf
  <2>3. i \in 0 .. n /\ R[i] \notin S
    OBVIOUS
  <2>4. i # 0
    BY <1>1, <1>10, <2>3
  <2>5. i - 1 \in 0 .. n /\ i \in 1 .. n /\ ~(i <= i - 1)
    BY <2>3, <2>4
  <2>6. R[i - 1] \in S
    BY <2>2, <2>5
  <2>7. ReadStep(text, R[i - 1], i) \in S
    BY <2>5, <2>6, ReadStepType DEF S
  <2>8. QED
    BY <1>10, <2>3, <2>5, <2>7
<1>12. \A i \in 0 .. n : R[i].lines \in Seq(Pieces(text)) /\ R[i].start \in 1 .. n + 1
  BY <1>11 DEF S, ReadStates
<1>13. QED
  BY <1>10, <1>12 DEF base, R

LEMMA LineAtIs ==
  ASSUME NEW text, Len(text) \in Nat, NEW i \in Nat, NEW e \in i .. Len(text) + 1,
         e = Len(text) + 1 \/ text[e] = NL, \A j \in i .. e - 1 : text[j] # NL
  PROVE  LineAt(text, i) = Piece(text, i, e - 1)
<1> DEFINE n == Len(text)
           ends == {j \in i..n : text[j] = NL} \cup {n + 1}
           end == CHOOSE j \in ends : \A k \in ends : j <= k
<1>1. e \in ends
  BY DEF ends
<1>2. \A k \in ends : e <= k
  <2> TAKE k \in ends
  <2>1. (k \in Nat /\ i <= k) \/ k = n + 1
    OBVIOUS
  <2>2. ~(k < e)
    <3>1. SUFFICES ASSUME k < e PROVE FALSE
      OBVIOUS
    <3>2. k \in i..n /\ text[k] = NL
      BY <3>1
    <3>3. k \in i .. e - 1
      BY <3>1, <3>2
    <3>4. QED
      BY <3>2, <3>3
  <2>3. k \in Nat /\ e \in Nat
    OBVIOUS
  <2>4. QED
    BY <2>2, <2>3
<1>3. \A j, k \in ends : j <= k /\ k <= j => j = k
  OBVIOUS
<1> HIDE DEF ends
<1>4. end = e
  <2>1. end \in ends /\ \A k \in ends : end <= k
    BY <1>1, <1>2, Zenon
  <2>2. QED
    BY <1>1, <1>2, <1>3, <2>1
<1>5. LineAt(text, i) = WithoutCR(SubSeq(text, i, end - 1))
  BY Zenon DEF LineAt, ends
<1> HIDE DEF end
<1>6. QED
  BY <1>4, <1>5 DEF Piece

Texts == Seq(Int)

\* What is left of a text from a place on, and that the pieces of it are pieces of the text.
IsRest(text, from, rest) == text \in Texts /\ from \in 1..Len(text) + 1 /\ rest = SubSeq(text, from, Len(text))
SamePieces(text, from, rest) ==
  \A a, b \in Nat : 1 <= a /\ a <= b + 1 /\ b <= Len(rest) => Piece(rest, a, b) = Piece(text, from - 1 + a, from - 1 + b)

LEMMA PiecesOfRest ==
  ASSUME NEW text, NEW from, NEW rest, IsRest(text, from, rest)
  PROVE  SamePieces(text, from, rest)
<1>1. /\ text \in Seq(Int) /\ from \in 1 .. Len(text) + 1
      /\ Len(rest) = Len(text) - from + 1 /\ rest \in Seq(Int) /\ \A i \in 1 .. Len(rest) : rest[i] = text[from - 1 + i]
  BY DEF IsRest, Texts
<1> SUFFICES ASSUME NEW a \in Nat, NEW b \in Nat, 1 <= a, a <= b + 1, b <= Len(rest)
             PROVE  Piece(rest, a, b) = Piece(text, from - 1 + a, from - 1 + b)
  BY DEF SamePieces
<1>2. SubSeq(rest, a, b) = SubSeq(text, from - 1 + a, from - 1 + b)
  <2> DEFINE x == SubSeq(rest, a, b)
             y == SubSeq(text, from - 1 + a, from - 1 + b)
  <2>1. x = [i \in 1 .. b - a + 1 |-> rest[a + i - 1]]
    <3>1. rest \in Seq(Int) /\ a \in Nat /\ b \in Nat
      BY <1>1
    <3>2. QED
      BY ONLY <3>1 DEF x
  <2>2. y = [i \in 1 .. b - a + 1 |-> text[from - 1 + a + i - 1]]
    <3> DEFINE c == from - 1 + a
               d == from - 1 + b
    <3>1. c \in Nat /\ d \in Nat /\ d - c + 1 = b - a + 1
      BY <1>1
    <3> HIDE DEF c, d
    <3>2. SubSeq(text, c, d) = [i \in 1 .. d - c + 1 |-> text[c + i - 1]]
      BY ONLY <1>1, <3>1
    <3>3. QED
      BY ONLY <3>1, <3>2 DEF c, d, y
  <2>3. \A i \in 1 .. b - a + 1 : rest[a + i - 1] = text[from - 1 + a + i - 1]
    <3> TAKE i \in 1 .. b - a + 1
    <3>1. a + i - 1 \in 1 .. Len(rest)
      BY <1>1
    <3>2. from - 1 + (a + i - 1) = from - 1 + a + i - 1
      BY <1>1
    <3>3. QED
      BY <1>1, <3>1, <3>2
  <2> HIDE DEF x, y
  <2>4. x = y
    BY <2>1, <2>2, <2>3
  <2>5. QED
    BY <2>4 DEF x, y
<1>3. QED
  BY <1>2 DEF Piece

\* The places where lines begin, from a place on.
Beginnings(text, from) == {i \in from..Len(text) : i = from \/ text[i - 1] = NL}

LEMMA BeginningsAre ==
  ASSUME NEW text, Len(text) \in Nat, NEW from \in Nat
  PROVE  /\ Beginnings(text, from) \in SUBSET Nat
         /\ IsAscending(Ascending(Beginnings(text, from)), Beginnings(text, from))
         /\ LinesFrom(text, from) = [k \in 1 .. Cardinality(Beginnings(text, from)) |-> LineAt(text, Ascending(Beginnings(text, from))[k])]
<1> DEFINE T == Beginnings(text, from)
           n == Len(text)
<1>1. T \in SUBSET Nat
  BY DEF Beginnings
<1>2. IsFiniteSet(from .. n)
  BY FS_Interval
<1>3. T \in SUBSET (from .. n)
  BY DEF Beginnings
<1>4. IsFiniteSet(T)
  BY <1>2, <1>3, FS_Subset
<1>5. IsAscending(Ascending(T), T)
  BY <1>1, <1>4, AscendingIsAscending
<1>6. DOMAIN Ascending(T) = 1 .. Cardinality(T)
  BY DEF Ascending
<1>7. LinesFrom(text, from) = [k \in DOMAIN Ascending(T) |-> LineAt(text, Ascending(T)[k])]
  BY Zenon DEF LinesFrom, Beginnings
<1>8. QED
  BY <1>1, <1>5, <1>6, <1>7

\* What has been read after i characters from a place on: the lines that end there, and where the next begins.
HasRead(log, from, s, i) ==
  LET T == Beginnings(log, from)
      A == Ascending(T)
      a == from - 1 + s.start
      k == Len(s.lines)
  IN /\ s.start <= i + 1
     /\ \A j \in a .. from - 1 + i : log[j] # NL
     /\ k <= Cardinality(T) /\ \A j \in 1 .. k : s.lines[j] = LineAt(log, A[j])
     /\ a <= Len(log) => k < Cardinality(T) /\ A[k + 1] = a
     /\ a > Len(log) => k = Cardinality(T)

LEMMA HasReadNone ==
  ASSUME NEW log, Len(log) \in Nat, NEW from \in 1 .. Len(log) + 1
  PROVE  HasRead(log, from, [lines |-> <<>>, start |-> 1], 0)
<1> DEFINE T == Beginnings(log, from)
           A == Ascending(T)
           N == Len(log)
           s == [lines |-> <<>>, start |-> 1]
<1>1. T \in SUBSET Nat /\ IsAscending(A, T)
  BY BeginningsAre
<1>2. Cardinality(T) \in Nat
  BY <1>1 DEF IsAscending
<1>3. s.start = 1 /\ Len(s.lines) = 0 /\ from - 1 + s.start = from
  OBVIOUS
<1>4. ASSUME from <= N PROVE Cardinality(T) > 0 /\ A[1] = from
  <2>1. from \in T /\ \A u \in T : from <= u
    BY <1>4 DEF Beginnings
  <2> HIDE DEF T, A
  <2>2. QED
    BY <1>1, <2>1, FirstInOrder
<1>5. ASSUME from > N PROVE Cardinality(T) = 0
  <2>1. T = {}
    BY <1>5 DEF Beginnings
  <2>2. QED
    BY <2>1, FS_EmptySet
<1> HIDE DEF T, A, s
<1>6. \A j \in from .. from - 1 + 0 : log[j] # NL
  OBVIOUS
<1>7. QED
  BY <1>2, <1>3, <1>4, <1>5, <1>6 DEF HasRead, T, A, s

LEMMA HasReadOne ==
  ASSUME NEW log \in Texts, NEW from \in 1 .. Len(log) + 1, NEW rest, rest = SubSeq(log, from, Len(log)),
         NEW s, s.lines \in Seq(Pieces(rest)), s.start \in Nat \ {0},
         NEW i \in 1 .. Len(rest), HasRead(log, from, s, i - 1)
  PROVE  HasRead(log, from, ReadStep(rest, s, i), i)
<1> DEFINE T == Beginnings(log, from)
           A == Ascending(T)
           N == Len(log)
           a == from - 1 + s.start
           k == Len(s.lines)
           c == Cardinality(T)
<1>1. T \in SUBSET Nat /\ IsAscending(A, T)
  BY BeginningsAre
<1>2. c \in Nat
  BY <1>1 DEF IsAscending
<1>3. Len(rest) = N - from + 1 /\ N \in Nat /\ rest[i] = log[from - 1 + i]
  BY DEF Texts
<1>4. /\ s.start <= i /\ \A j \in a .. from - 2 + i : log[j] # NL
      /\ k <= c /\ \A j \in 1 .. k : s.lines[j] = LineAt(log, A[j])
      /\ a <= N => k < c /\ A[k + 1] = a
      /\ a > N => k = c
  <2>1. s.start <= (i - 1) + 1 /\ (i - 1) + 1 = i /\ from - 1 + (i - 1) = from - 2 + i
    BY DEF HasRead
  <2>2. QED
    BY <2>1 DEF HasRead
<1>5. k \in Nat /\ a \in Nat /\ a >= from
  OBVIOUS
<1>6. CASE rest[i] # NL
  <2>1. ReadStep(rest, s, i) = s
    BY <1>6 DEF ReadStep
  <2>2. \A j \in a .. from - 1 + i : log[j] # NL
    <3> TAKE j \in a .. from - 1 + i
    <3>1. j = from - 1 + i \/ j \in a .. from - 2 + i
      BY <1>5
    <3>2. QED
      BY <1>3, <1>4, <1>6, <3>1
  <2> HIDE DEF T, A
  <2>3. HasRead(log, from, s, i)
    BY <1>4, <2>2 DEF HasRead, T, A
  <2>4. QED
    BY <2>1, <2>3
<1>7. CASE rest[i] = NL
  <2> DEFINE line == Piece(rest, s.start, i - 1)
             t == [lines |-> Append(s.lines, line), start |-> i + 1]
             b == from + i
  <2>1. ReadStep(rest, s, i) = t
    BY <1>7 DEF ReadStep
  <2>2. a <= from - 1 + i /\ from - 1 + i <= N
    BY <1>3, <1>4
  <2>3. k < c /\ A[k + 1] = a
    BY <1>3, <1>4, <1>5, <2>2
  <2>4. line = Piece(log, a, from - 2 + i)
    <3>1. i - 1 \in Nat /\ s.start \in Nat /\ 1 <= s.start /\ s.start <= (i - 1) + 1 /\ i - 1 <= Len(rest)
      BY <1>4
    <3>2. from - 1 + (i - 1) = from - 2 + i
      OBVIOUS
    <3>3. SamePieces(log, from, rest)
      <4>1. IsRest(log, from, rest)
        BY DEF IsRest
      <4>2. QED
        BY <4>1, PiecesOfRest, Zenon
    <3>4. QED
      BY <3>1, <3>2, <3>3 DEF SamePieces
  <2>5. LineAt(log, a) = line
    <3> DEFINE e == from - 1 + i
    <3>1. e \in a .. N + 1 /\ log[e] = NL /\ e - 1 = from - 2 + i
      BY <1>3, <1>5, <1>7, <2>2, SMTT(30)
    <3>2. \A j \in a .. e - 1 : log[j] # NL
      BY <1>4, <3>1
    <3>3. LineAt(log, a) = Piece(log, a, e - 1)
      BY ONLY <1>3, <1>5, <3>1, <3>2, LineAtIs
    <3>4. QED
      BY <2>4, <3>1, <3>3
  <2>6. s.lines \in Seq(Pieces(rest)) /\ line \in Pieces(rest)
    <3>1. s.start \in 1 .. Len(rest) + 1 /\ i - 1 \in 0 .. Len(rest)
      BY <1>4, SMTT(30)
    <3>2. QED
      BY <3>1 DEF Pieces
  <2> HIDE DEF line
  <2>7. t.start = i + 1 /\ Len(t.lines) = k + 1 /\ t.lines[k + 1] = line /\ \A j \in 1 .. k : t.lines[j] = s.lines[j]
    BY <2>6
  <2> HIDE DEF t
  <2>8. \A j \in 1 .. k + 1 : t.lines[j] = LineAt(log, A[j])
    <3> TAKE j \in 1 .. k + 1
    <3>1. j = k + 1 \/ j \in 1 .. k
      <4>1. k \in Nat /\ j \in 1 .. k + 1
        BY <1>5
      <4> HIDE DEF k
      <4>2. QED
        BY ONLY <4>1
    <3>2. QED
      BY <1>4, <2>3, <2>5, <2>7, <3>1
  <2>9. \A u \in T : A[k + 1] < u => b <= u /\ u <= N
    <3> TAKE u \in T
    <3> HAVE A[k + 1] < u
    <3>1. u \in from .. N /\ u # from /\ log[u - 1] = NL
      BY <1>5, <2>3 DEF Beginnings
    <3>2. ~(u - 1 \in a .. from - 2 + i)
      BY <1>4, <3>1
    <3>3. u - 1 >= a
      BY <1>5, <2>3, <3>1
    <3>4. QED
      BY <1>5, <3>1, <3>2, <3>3
  <2>10. k + 1 \in 1 .. c
    BY <1>2, <1>5, <2>3
  <2>11. ASSUME b <= N PROVE k + 1 < c /\ A[k + 2] = b
    <3>1. b \in T
      <4>1. b - 1 = from - 1 + i /\ b \in from .. N
        BY <1>3, <2>11
      <4>2. QED
        BY <1>3, <1>7, <4>1 DEF Beginnings
    <3>2. A[k + 1] < b
      BY <1>5, <2>2, <2>3
    <3>3. \A u \in T : A[k + 1] < u => b <= u
      BY <2>9
    <3> HIDE DEF T, A, k, b
    <3>4. k + 1 + 1 <= Cardinality(T) /\ A[k + 1 + 1] = b
      BY ONLY <1>1, <2>10, <3>1, <3>2, <3>3, NextInOrder
    <3>5. k + 1 + 1 = k + 2
      BY <1>5
    <3>6. QED
      BY <1>2, <1>5, <3>4, <3>5
  <2>12. ASSUME b > N PROVE k + 1 = c
    <3>1. \A u \in T : ~(A[k + 1] < u)
      <4> TAKE u \in T
      <4>1. SUFFICES ASSUME A[k + 1] < u PROVE FALSE
        OBVIOUS
      <4>2. u \in Nat /\ b <= u /\ u <= N /\ b \in Nat
        BY <1>1, <2>9, <4>1
      <4>3. QED
        BY <1>3, <2>12, <4>2
    <3> HIDE DEF T, A, k, b
    <3>2. QED
      BY ONLY <1>1, <2>10, <3>1, LastInOrder
  <2>13. from - 1 + t.start = b
    BY <2>7
  <2>14. \A j \in b .. from - 1 + i : log[j] # NL
    OBVIOUS
  <2>15. HasRead(log, from, t, i)
    <3>1. t.start <= i + 1
      BY <2>7
    <3>2. \A j \in from - 1 + t.start .. from - 1 + i : log[j] # NL
      BY <2>13, <2>14
    <3>3. Len(t.lines) <= c /\ \A j \in 1 .. Len(t.lines) : t.lines[j] = LineAt(log, A[j])
      BY <2>7, <2>8, <2>10
    <3>4. from - 1 + t.start <= Len(log) => Len(t.lines) < c /\ A[Len(t.lines) + 1] = from - 1 + t.start
      <4>1. (k + 1) + 1 = k + 2
        BY <1>5
      <4>2. QED
        BY <2>7, <2>11, <2>13, <4>1
    <3>5. from - 1 + t.start > Len(log) => Len(t.lines) = c
      BY <2>7, <2>12, <2>13
    <3> HIDE DEF T, A
    <3>6. QED
      BY ONLY <3>1, <3>2, <3>3, <3>4, <3>5 DEF HasRead, T, A, c
  <2>16. QED
    BY <2>1, <2>15
<1>8. QED
  BY <1>6, <1>7

\* The lines from a place on are the lines of the text that begins there.
LEMMA LinesAreSplit ==
  ASSUME NEW log \in Texts, NEW from \in 1 .. Len(log) + 1, NEW rest, rest = SubSeq(log, from, Len(log))
  PROVE  SplitLines(rest) = LinesFrom(log, from) /\ Len(SplitLines(rest)) \in Nat
<1> DEFINE T == Beginnings(log, from)
           A == Ascending(T)
           N == Len(log)
           n == Len(rest)
           R == Read(rest)
           c == Cardinality(T)
<1>1. T \in SUBSET Nat /\ IsAscending(A, T) /\ LinesFrom(log, from) = [k \in 1 .. c |-> LineAt(log, A[k])]
  BY BeginningsAre
<1>2. n = N - from + 1 /\ N \in Nat /\ n \in Nat
  BY DEF Texts
<1>3. /\ R[0] = [lines |-> <<>>, start |-> 1]
      /\ \A i \in 1 .. n : R[i] = ReadStep(rest, R[i - 1], i)
      /\ \A i \in 0 .. n : R[i].lines \in Seq(Pieces(rest)) /\ R[i].start \in 1 .. n + 1
  BY <1>2, ReadIsThere
<1> HIDE DEF R
<1>4. \A i \in 0 .. n : HasRead(log, from, R[i], i)
  <2> DEFINE U == {i \in 0 .. n : ~HasRead(log, from, R[i], i)}
  <2>1. SUFFICES ASSUME U # {} PROVE FALSE
    OBVIOUS
  <2>2. PICK i \in U : \A l \in U : i <= l
    <3>1. U \in SUBSET Nat
      OBVIOUS
    <3> HIDE DEF U
    <3>2. QED
      BY <2>1, <3>1, LeastOf
  <2>3. i \in 0 .. n /\ ~HasRead(log, from, R[i], i)
    OBVIOUS
  <2>4. i # 0
    BY <1>2, <1>3, <2>3, HasReadNone
  <2>5. i - 1 \in 0 .. n /\ i \in 1 .. n /\ ~(i <= i - 1)
    BY <2>3, <2>4
  <2>6. HasRead(log, from, R[i - 1], i - 1)
    BY <2>2, <2>5
  <2>7. R[i - 1].lines \in Seq(Pieces(rest)) /\ R[i - 1].start \in Nat \ {0}
    <3>1. R[i - 1].lines \in Seq(Pieces(rest)) /\ R[i - 1].start \in 1 .. n + 1
      BY <1>3, <2>5
    <3>2. \A x \in 1 .. n + 1 : x \in Nat \ {0}
      BY <1>2
    <3>3. QED
      BY <3>1, <3>2
  <2>8. HasRead(log, from, ReadStep(rest, R[i - 1], i), i)
    BY <2>5, <2>6, <2>7, HasReadOne
  <2>9. QED
    BY <1>3, <2>3, <2>5, <2>8
<1> DEFINE s == R[n]
           a == from - 1 + s.start
           k == Len(s.lines)
<1>5. HasRead(log, from, s, n) /\ s.lines \in Seq(Pieces(rest)) /\ s.start \in 1 .. n + 1
  <2>1. n \in 0 .. n
    BY <1>2
  <2>2. QED
    BY <1>3, <1>4, <2>1
<1>6. SplitLines(rest) = IF s.start > n THEN s.lines ELSE Append(s.lines, Piece(rest, s.start, n))
  BY SplitIsRead DEF R
<1> HIDE DEF s
<1>7. /\ s.start <= n + 1 /\ \A j \in a .. from - 1 + n : log[j] # NL
      /\ k <= c /\ \A j \in 1 .. k : s.lines[j] = LineAt(log, A[j])
      /\ a <= N => k < c /\ A[k + 1] = a
      /\ a > N => k = c
  BY <1>5 DEF HasRead
<1>8. c \in Nat /\ k \in Nat
  BY <1>1, <1>5 DEF IsAscending
<1>9. s.lines = [j \in 1 .. k |-> s.lines[j]]
  <2> DEFINE l == s.lines
  <2>1. l \in Seq(Pieces(rest))
    BY <1>5
  <2> HIDE DEF l
  <2>2. l = [j \in 1 .. Len(l) |-> l[j]]
    BY <2>1
  <2>3. QED
    BY <2>2 DEF l
<1>10. CASE s.start > n
  <2>1. k = c
    BY <1>2, <1>5, <1>7, <1>10
  <2>2. SplitLines(rest) = s.lines
    BY <1>6, <1>10
  <2> HIDE DEF T, A
  <2>3. QED
    BY <1>1, <1>7, <1>8, <1>9, <2>1, <2>2
<1>11. CASE ~(s.start > n)
  <2> DEFINE line == Piece(rest, s.start, n)
             lines == Append(s.lines, line)
  <2>1. SplitLines(rest) = lines
    BY <1>6, <1>11
  <2>2. a <= N /\ a \in Nat /\ from - 1 + n = N
    BY <1>2, <1>5, <1>11
  <2>3. line = Piece(log, a, N)
    <3>1. s.start \in Nat /\ 1 <= s.start /\ s.start <= n + 1 /\ n <= Len(rest)
      BY <1>2, <1>5
    <3>2. SamePieces(log, from, rest)
      <4>1. IsRest(log, from, rest)
        BY DEF IsRest
      <4>2. QED
        BY <4>1, PiecesOfRest, Zenon
    <3>4. Piece(rest, s.start, n) = Piece(log, from - 1 + s.start, from - 1 + n)
      BY <1>2, <3>1, <3>2 DEF SamePieces
    <3>3. QED
      BY <2>2, <3>4
  <2>4. LineAt(log, a) = line
    <3>1. N + 1 \in a .. N + 1 /\ (N + 1) - 1 = N
      BY <1>2, <2>2
    <3>2. \A j \in a .. (N + 1) - 1 : log[j] # NL
      BY <1>7, <2>2, <3>1
    <3>3. LineAt(log, a) = Piece(log, a, (N + 1) - 1)
      BY ONLY <1>2, <2>2, <3>1, <3>2, LineAtIs
    <3>4. QED
      BY <2>3, <3>1, <3>3
  <2>5. k + 1 = c
    <3>1. k + 1 \in 1 .. c /\ A[k + 1] = a
      BY <1>7, <1>8, <2>2
    <3>2. \A u \in T : ~(A[k + 1] < u)
      <4> TAKE u \in T
      <4>1. SUFFICES ASSUME A[k + 1] < u PROVE FALSE
        OBVIOUS
      <4>2. u \in from .. N /\ (u = from \/ log[u - 1] = NL)
        BY DEF Beginnings
      <4>3. u - 1 \in a .. from - 1 + n /\ u # from
        BY <1>5, <2>2, <3>1, <4>1, <4>2, SMTT(30)
      <4>4. QED
        BY <1>7, <4>2, <4>3
    <3> HIDE DEF T, A, k
    <3>3. QED
      BY ONLY <1>1, <3>1, <3>2, LastInOrder DEF c
  <2>6. s.lines \in Seq(Pieces(rest)) /\ line \in Pieces(rest)
    <3>1. s.start \in 1 .. Len(rest) + 1 /\ n \in 0 .. Len(rest)
      BY <1>2, <1>5
    <3>2. line \in Pieces(rest)
      BY <3>1 DEF Pieces
    <3>3. s.lines \in Seq(Pieces(rest))
      BY <1>5
    <3>4. QED
      BY <3>2, <3>3
  <2> HIDE DEF line
  <2>7. Len(lines) = k + 1 /\ lines[k + 1] = line /\ (\A j \in 1 .. k : lines[j] = s.lines[j]) /\ lines = [j \in 1 .. k + 1 |-> lines[j]]
    BY <2>6
  <2> HIDE DEF lines
  <2>8. \A j \in 1 .. c : lines[j] = LineAt(log, A[j])
    <3> TAKE j \in 1 .. c
    <3>1. j = k + 1 \/ j \in 1 .. k
      <4>1. k \in Nat /\ j \in 1 .. c /\ k + 1 = c
        BY <1>8, <2>5
      <4> HIDE DEF k, c
      <4>2. QED
        BY ONLY <4>1
    <3>2. QED
      BY <1>7, <2>2, <2>4, <2>7, <3>1
  <2> HIDE DEF T, A
  <2>9. QED
    BY <1>1, <1>8, <2>1, <2>5, <2>7, <2>8
<1>12. QED
  BY <1>10, <1>11

LEMMA RestIs ==
  ASSUME NEW text \in Texts, NEW b \in 0 .. Len(text), NEW rest, rest = SubSeq(text, b + 1, Len(text))
  PROVE  Len(rest) = Len(text) - b /\ rest \in Texts /\ \A i \in 1 .. Len(rest) : rest[i] = text[b + i]
  BY SMTT(30) DEF Texts

LEMMA RestOfRest ==
  ASSUME NEW text \in Texts, NEW from \in 1 .. Len(text) + 1, NEW rest, rest = SubSeq(text, from, Len(text)),
         NEW a \in 1 .. Len(rest) + 1
  PROVE  /\ from - 1 + a \in 1 .. Len(text) + 1
         /\ SubSeq(rest, a, Len(rest)) = SubSeq(text, from - 1 + a, Len(text))
<1>1. Len(rest) = Len(text) - from + 1 /\ rest \in Texts /\ \A i \in 1 .. Len(rest) : rest[i] = text[from - 1 + i]
  BY DEF Texts
<1>2. from - 1 + a \in 1 .. Len(text) + 1
  BY <1>1 DEF Texts
<1> DEFINE x == SubSeq(rest, a, Len(rest))
           y == SubSeq(text, from - 1 + a, Len(text))
           m == Len(rest) - a + 1
<1>3. x = [i \in 1 .. m |-> rest[a + i - 1]]
  <2>1. rest \in Seq(Int) /\ Len(rest) \in Nat /\ a \in 1 .. Len(rest) + 1
    BY <1>1 DEF Texts
  <2>2. QED
    BY ONLY <2>1
<1>4. y = [i \in 1 .. m |-> text[from - 1 + a + i - 1]]
  <2> DEFINE b == from - 1 + a
  <2>1. text \in Seq(Int) /\ Len(text) \in Nat /\ b \in 1 .. Len(text) + 1
    BY <1>2 DEF Texts
  <2>2. m = Len(text) - b + 1
    <3>1. Len(text) \in Nat
      BY <2>1
    <3>2. QED
      BY <1>1, <3>1
  <2> HIDE DEF b, m
  <2>3. SubSeq(text, b, Len(text)) = [i \in 1 .. m |-> text[b + i - 1]]
    BY ONLY <2>1, <2>2
  <2>4. QED
    BY <2>3 DEF b
<1>5. \A i \in 1 .. m : rest[a + i - 1] = text[from - 1 + a + i - 1]
  <2> TAKE i \in 1 .. m
  <2>1. a + i - 1 \in 1 .. Len(rest)
    BY <1>1
  <2>2. from - 1 + (a + i - 1) = from - 1 + a + i - 1
    OBVIOUS
  <2>3. QED
    BY <1>1, <2>1, <2>2
<1> HIDE DEF x, y
<1>6. x = y
  BY <1>3, <1>4, <1>5
<1>7. QED
  BY <1>2, <1>6 DEF x, y

\* Where the lines begin that a report shows of the end of a log.
Before(log, maxBytes) == IF Len(log) > maxBytes THEN Len(log) - maxBytes ELSE 0
Breaks(text) == {i \in DOMAIN text : text[i] = NL}
BreaksAtEnd(log, maxBytes) == {i \in DOMAIN log : i > Len(log) - maxBytes /\ log[i] = NL}
FirstBreak(breaks) == CHOOSE i \in breaks : \A j \in breaks : i <= j
TailFrom(log, maxBytes) ==
  IF Len(log) <= maxBytes THEN 1
  ELSE IF BreaksAtEnd(log, maxBytes) = {} THEN Len(log) - maxBytes + 1
  ELSE 1 + FirstBreak(BreaksAtEnd(log, maxBytes))

LEMMA TailIsFrom ==
  ASSUME NEW log, NEW maxBytes, NEW maxLines
  PROVE  /\ LET text == SubSeq(log, Before(log, maxBytes) + 1, Len(log)) IN
            ReadTailBytes(log, maxBytes, Len(log)) =
              IF Len(log) < Len(text) THEN SubSeq(text, 1, Len(log))
              ELSE IF Len(log) > maxBytes /\ Breaks(text) # {} THEN SubSeq(text, FirstBreak(Breaks(text)) + 1, Len(text))
              ELSE text
         /\ TailIsExact(log, maxBytes, maxLines) <=>
              TailLines(ReadTailBytes(log, maxBytes, Len(log)), maxLines) = LastOf(LinesFrom(log, TailFrom(log, maxBytes)), maxLines)
<1>1. LET text == SubSeq(log, Before(log, maxBytes) + 1, Len(log)) IN
            ReadTailBytes(log, maxBytes, Len(log)) =
              IF Len(log) < Len(text) THEN SubSeq(text, 1, Len(log))
              ELSE IF Len(log) > maxBytes /\ Breaks(text) # {} THEN SubSeq(text, FirstBreak(Breaks(text)) + 1, Len(text))
              ELSE text
  BY Zenon DEF ReadTailBytes, LastOf, Before, Breaks, FirstBreak
<1>2. TailIsExact(log, maxBytes, maxLines) <=>
              TailLines(ReadTailBytes(log, maxBytes, Len(log)), maxLines) = LastOf(LinesFrom(log, TailFrom(log, maxBytes)), maxLines)
  BY Zenon DEF TailIsExact, TailFrom, BreaksAtEnd, FirstBreak
<1>3. QED
  BY <1>1, <1>2, Zenon

LEMMA FirstBreakIsFirst ==
  ASSUME NEW T \in SUBSET Nat, T # {}
  PROVE  FirstBreak(T) \in T /\ \A j \in T : FirstBreak(T) <= j
<1>1. \E m \in T : \A j \in T : m <= j
  BY LeastOf
<1>2. QED
  BY <1>1, Zenon DEF FirstBreak

LEMMA TailBytes ==
  ASSUME NEW log \in Texts, NEW maxBytes \in Nat
  PROVE  /\ TailFrom(log, maxBytes) \in 1 .. Len(log) + 1
         /\ ReadTailBytes(log, maxBytes, Len(log)) = SubSeq(log, TailFrom(log, maxBytes), Len(log))
<1> DEFINE N == Len(log)
           b == Before(log, maxBytes)
           text == SubSeq(log, b + 1, N)
           read == ReadTailBytes(log, maxBytes, N)
<1>1. N \in Nat
  BY DEF Texts
<1>2. b \in 0 .. N /\ (N > maxBytes => b = N - maxBytes) /\ (N <= maxBytes => b = 0)
  BY <1>1 DEF Before
<1>3. Len(text) = N - b /\ text \in Texts /\ \A i \in 1 .. Len(text) : text[i] = log[b + i]
  <2>1. text = SubSeq(log, b + 1, Len(log)) /\ b \in 0 .. Len(log)
    BY <1>2
  <2> HIDE DEF b, text
  <2>2. QED
    BY <2>1, RestIs
<1>4. DOMAIN text = 1 .. Len(text) /\ DOMAIN log = 1 .. N
  BY <1>3 DEF Texts
<1>5. read = IF N < Len(text) THEN SubSeq(text, 1, N)
             ELSE IF N > maxBytes /\ Breaks(text) # {} THEN SubSeq(text, FirstBreak(Breaks(text)) + 1, Len(text))
             ELSE text
  BY TailIsFrom
<1> HIDE DEF read, b
<1>6. ~(N < Len(text))
  BY <1>1, <1>2, <1>3
<1>7. Breaks(text) \in SUBSET Nat /\ BreaksAtEnd(log, maxBytes) \in SUBSET Nat
  BY <1>4 DEF Breaks, BreaksAtEnd
<1>8. ASSUME N > maxBytes
      PROVE  \A i \in Nat : i \in Breaks(text) <=> b + i \in BreaksAtEnd(log, maxBytes) /\ i > 0
  <2> TAKE i \in Nat
  <2>1. b = N - maxBytes /\ Len(text) = maxBytes
    BY <1>1, <1>2, <1>3, <1>8
  <2>2. i \in 1 .. Len(text) <=> b + i \in 1 .. N /\ b + i > N - maxBytes /\ i > 0
    BY <1>1, <1>8, <2>1
  <2> HIDE DEF text
  <2>3. QED
    BY <1>3, <1>4, <2>1, <2>2 DEF Breaks, BreaksAtEnd
<1>9. CASE N <= maxBytes
  <2>1. TailFrom(log, maxBytes) = 1 /\ ~(N > maxBytes)
    BY <1>1, <1>9 DEF TailFrom
  <2>2. read = text /\ b + 1 = 1
    BY <1>2, <1>5, <1>6, <1>9, <2>1
  <2>3. QED
    BY <1>1, <2>1, <2>2 DEF read
<1>10. CASE N > maxBytes /\ Breaks(text) = {}
  <2>1. BreaksAtEnd(log, maxBytes) = {}
    <3>1. SUFFICES ASSUME NEW i \in BreaksAtEnd(log, maxBytes) PROVE FALSE
      OBVIOUS
    <3>2. i \in 1 .. N /\ i > N - maxBytes
      BY <1>4 DEF BreaksAtEnd
    <3>3. i - b \in Nat /\ i - b > 0 /\ b + (i - b) = i
      BY <1>1, <1>2, <1>10, <3>2
    <3> HIDE DEF text
    <3>4. i - b \in Breaks(text)
      BY <1>8, <1>10, <3>1, <3>3
    <3>5. QED
      BY <1>10, <3>4
  <2>2. ~(N <= maxBytes)
    BY <1>1, <1>10
  <2>3. TailFrom(log, maxBytes) = N - maxBytes + 1
    BY <2>1, <2>2 DEF TailFrom
  <2>4. N - maxBytes + 1 = b + 1 /\ b + 1 \in 1 .. N + 1
    BY <1>1, <1>2, <1>10
  <2>5. read = text
    BY <1>5, <1>6, <1>10
  <2>6. QED
    BY <2>3, <2>4, <2>5 DEF read
<1>11. CASE N > maxBytes /\ Breaks(text) # {}
  <2> DEFINE first == FirstBreak(Breaks(text))
             there == FirstBreak(BreaksAtEnd(log, maxBytes))
  <2>1. first \in Breaks(text) /\ \A j \in Breaks(text) : first <= j
    BY <1>7, <1>11, FirstBreakIsFirst
  <2>2. first \in 1 .. Len(text)
    BY <1>4, <2>1 DEF Breaks
  <2> HIDE DEF first, text
  <2>3. b + first \in BreaksAtEnd(log, maxBytes) /\ first \in Nat
    BY <1>7, <1>8, <1>11, <2>1
  <2>4. there \in BreaksAtEnd(log, maxBytes) /\ \A j \in BreaksAtEnd(log, maxBytes) : there <= j
    BY <1>7, <2>3, FirstBreakIsFirst
  <2>5. there \in Nat /\ there > N - maxBytes
    BY <1>7, <2>4 DEF BreaksAtEnd
  <2> HIDE DEF there
  <2>6. there - b \in Nat /\ there - b > 0 /\ b + (there - b) = there
    BY <1>1, <1>2, <1>11, <2>5
  <2>7. there - b \in Breaks(text)
    BY <1>8, <1>11, <2>4, <2>6
  <2>8. first <= there - b /\ there <= b + first
    BY <2>1, <2>3, <2>4, <2>7
  <2>9. there = b + first
    BY <1>2, <2>3, <2>5, <2>6, <2>8
  <2>10. ~(N <= maxBytes)
    BY <1>1, <1>11
  <2>11. TailFrom(log, maxBytes) = 1 + there
    BY <2>3, <2>10 DEF TailFrom, there
  <2>12. read = SubSeq(text, first + 1, Len(text))
    BY <1>5, <1>6, <1>11 DEF first
  <2>13. b + 1 \in 1 .. Len(log) + 1 /\ first + 1 \in 1 .. Len(text) + 1
    BY <1>1, <1>2, <1>3, <2>2
  <2>14. text = SubSeq(log, b + 1, Len(log))
    BY DEF text
  <2> DEFINE c == b + 1
             d == first + 1
  <2>15. c - 1 + d = 1 + there
    BY <1>2, <2>3, <2>9
  <2>16. c \in 1 .. Len(log) + 1 /\ d \in 1 .. Len(text) + 1 /\ text = SubSeq(log, c, Len(log))
    BY <2>13, <2>14
  <2> HIDE DEF c, d
  <2>17. c - 1 + d \in 1 .. Len(log) + 1 /\ SubSeq(text, d, Len(text)) = SubSeq(log, c - 1 + d, Len(log))
    BY ONLY <2>16, RestOfRest, log \in Texts
  <2>18. QED
    BY <2>11, <2>12, <2>15, <2>17 DEF d, read
<1>12. QED
  BY <1>1, <1>9, <1>10, <1>11 DEF read

\* A ring of lines: what it holds, and how it is read.
Push(s, line, max) ==
  IF Len(s.ring) < max THEN [ring |-> Append(s.ring, line), head |-> s.head]
  ELSE [ring |-> [s.ring EXCEPT ![s.head + 1] = line], head |-> (s.head + 1) % max]
IsPushed(f, lines, max) ==
  f = [i \in 0..Len(lines) |-> IF i = 0 THEN [ring |-> <<>>, head |-> 0] ELSE Push(f[i - 1], lines[i], max)]
Pushed(lines, max) == CHOOSE f : IsPushed(f, lines, max)

LEMMA TailIsPushed ==
  ASSUME NEW text, NEW max
  PROVE  LET s == Pushed(SplitLines(text), max)[Len(SplitLines(text))] IN
         TailLines(text, max) =
           IF max = 0 THEN <<>> ELSE [k \in 1..Len(s.ring) |-> s.ring[((s.head + k - 1) % Len(s.ring)) + 1]]
  BY Zenon DEF TailLines, Pushed, IsPushed, Push

\* After i lines: the last of them, the oldest at the head.
HoldsLast(s, lines, i, max) ==
  /\ Len(s.ring) = IF i < max THEN i ELSE max
  /\ s.head \in 0 .. max - 1 /\ (i <= max => s.head = 0)
  /\ \A j \in 1 .. Len(s.ring) : s.ring[j] = lines[IF j <= s.head THEN i - s.head + j ELSE i - s.head - Len(s.ring) + j]

Rings(X, max) == [ring : Seq(X), head : 0 .. max]

LEMMA PushType ==
  ASSUME NEW X, NEW max \in Nat \ {0}, NEW s \in Rings(X, max), NEW line \in X
  PROVE  Push(s, line, max) \in Rings(X, max)
<1>1. s.ring \in Seq(X) /\ s.head \in 0 .. max
  BY DEF Rings
<1>2. CASE Len(s.ring) < max
  <2>1. Push(s, line, max) = [ring |-> Append(s.ring, line), head |-> s.head]
    BY <1>2 DEF Push
  <2>2. Append(s.ring, line) \in Seq(X)
    BY <1>1
  <2>3. QED
    BY <1>1, <2>1, <2>2 DEF Rings
<1>3. CASE ~(Len(s.ring) < max)
  <2> DEFINE r == [s.ring EXCEPT ![s.head + 1] = line]
             h == (s.head + 1) % max
  <2>1. Push(s, line, max) = [ring |-> r, head |-> h]
    BY <1>3 DEF Push
  <2>2. r \in Seq(X)
    <3> DEFINE ring == s.ring
               n == Len(ring)
    <3>1. ring \in [1 .. n -> X] /\ n \in Nat
      BY <1>1
    <3> HIDE DEF ring, n
    <3>2. [ring EXCEPT ![s.head + 1] = line] \in [1 .. n -> X]
      BY <3>1
    <3>3. [ring EXCEPT ![s.head + 1] = line] \in Seq(X)
      BY <3>1, <3>2
    <3>4. QED
      BY <3>3 DEF ring
  <2>3. h \in 0 .. max
    BY <1>1
  <2> HIDE DEF r, h
  <2>4. QED
    BY <2>1, <2>2, <2>3 DEF Rings
<1>4. QED
  BY <1>2, <1>3

LEMMA PushHolds ==
  ASSUME NEW X, NEW max \in Nat \ {0}, NEW s \in Rings(X, max), NEW lines, Len(lines) \in Nat,
         NEW i \in 0 .. Len(lines) - 1, lines[i + 1] \in X, HoldsLast(s, lines, i, max)
  PROVE  HoldsLast(Push(s, lines[i + 1], max), lines, i + 1, max)
<1> DEFINE line == lines[i + 1]
           r == s.ring
           h == s.head
           t == Push(s, line, max)
<1>1. r \in Seq(X) /\ h \in 0 .. max - 1 /\ i \in Nat
  BY DEF Rings, HoldsLast
<1>2. /\ Len(r) = IF i < max THEN i ELSE max
      /\ i <= max => h = 0
      /\ \A j \in 1 .. Len(r) : r[j] = lines[IF j <= h THEN i - h + j ELSE i - h - Len(r) + j]
  BY DEF HoldsLast
<1>3. CASE Len(r) < max
  <2>1. i < max /\ Len(r) = i /\ h = 0
    BY <1>1, <1>2, <1>3
  <2>2. t = [ring |-> Append(r, line), head |-> 0]
    BY <1>3, <2>1 DEF Push
  <2>3. Len(t.ring) = i + 1 /\ t.head = 0 /\ t.ring[i + 1] = line /\ \A j \in 1 .. i : t.ring[j] = r[j]
    BY <1>1, <2>1, <2>2
  <2> HIDE DEF t
  <2>4. \A j \in 1 .. i : r[j] = lines[j]
    <3> TAKE j \in 1 .. i
    <3>1. j \in 1 .. Len(r) /\ ~(j <= h) /\ i - h - Len(r) + j = j
      BY <1>1, <2>1
    <3>2. QED
      BY <1>2, <3>1
  <2>5. \A j \in 1 .. i + 1 : t.ring[j] = lines[j]
    <3> TAKE j \in 1 .. i + 1
    <3>1. j = i + 1 \/ j \in 1 .. i
      BY <1>1
    <3>2. QED
      BY <2>3, <2>4, <3>1
  <2>6. \A j \in 1 .. i + 1 : ~(j <= 0) /\ (i + 1) - 0 - (i + 1) + j = j
    BY <1>1
  <2>7. Len(t.ring) = IF i + 1 < max THEN i + 1 ELSE max
    BY <1>1, <2>1, <2>3
  <2>8. t.head \in 0 .. max - 1
    BY <1>1, <2>3
  <2>9. QED
    BY <2>3, <2>5, <2>6, <2>7, <2>8 DEF HoldsLast, t
<1>4. CASE ~(Len(r) < max)
  <2>1. max <= i /\ Len(r) = max
    BY <1>1, <1>2, <1>4
  <2> DEFINE g == (h + 1) % max
             u == [r EXCEPT ![h + 1] = line]
  <2>2. t = [ring |-> u, head |-> g]
    BY <1>4 DEF Push
  <2>3. g = IF h + 1 < max THEN h + 1 ELSE 0
    <3>1. h + 1 \in Nat /\ (~(h + 1 < max) => h + 1 = max)
      BY <1>1
    <3>2. QED
      BY <3>1
  <2>4. Len(u) = max /\ u[h + 1] = line /\ \A j \in 1 .. max : j # h + 1 => u[j] = r[j]
    BY <1>1, <2>1
  <2> HIDE DEF t, u, g
  <2>5. t.ring = u /\ t.head = g
    BY <2>2
  <2>6. \A j \in 1 .. max : j # h + 1 => u[j] = lines[IF j <= h THEN i - h + j ELSE i - h - max + j]
    BY <1>2, <2>1, <2>4
  <2>7. ASSUME NEW j \in 1 .. max
        PROVE  u[j] = lines[IF j <= g THEN (i + 1) - g + j ELSE (i + 1) - g - max + j]
    <3>1. CASE j = h + 1
      <4>1. (IF j <= g THEN (i + 1) - g + j ELSE (i + 1) - g - max + j) = i + 1
        BY <1>1, <2>3, <3>1
      <4>2. QED
        BY <2>4, <3>1, <4>1
    <3>2. CASE j # h + 1
      <4>1. (IF j <= g THEN (i + 1) - g + j ELSE (i + 1) - g - max + j) = IF j <= h THEN i - h + j ELSE i - h - max + j
        <5>1. /\ h \in 0 .. max - 1 /\ i \in Nat /\ max \in Nat \ {0} /\ j \in 1 .. max /\ j # h + 1
              /\ g = IF h + 1 < max THEN h + 1 ELSE 0
          BY <1>1, <2>3, <3>2
        <5> HIDE DEF h
        <5>2. CASE h + 1 < max
          <6>1. g = h + 1 /\ (j <= g <=> j <= h)
            BY ONLY <5>1, <5>2
          <6>2. (i + 1) - g = i - h
            BY ONLY <5>1, <6>1
          <6>3. QED
            BY ONLY <5>1, <6>1, <6>2
        <5>3. CASE ~(h + 1 < max)
          <6>1. g = 0 /\ ~(j <= g) /\ j <= h /\ max = h + 1
            BY ONLY <5>1, <5>3
          <6>2. (i + 1) - g - max + j = i - h + j
            BY ONLY <5>1, <6>1
          <6>3. QED
            BY ONLY <6>1, <6>2
        <5>4. QED
          BY <5>2, <5>3
      <4>2. QED
        BY <2>6, <3>2, <4>1
    <3>3. QED
      BY <3>1, <3>2
  <2>8. Len(t.ring) = IF i + 1 < max THEN i + 1 ELSE max
    BY <1>1, <2>1, <2>4, <2>5
  <2>9. t.head \in 0 .. max - 1 /\ ~(i + 1 <= max)
    BY <1>1, <2>1, <2>3, <2>5
  <2>10. QED
    BY <2>4, <2>5, <2>7, <2>8, <2>9, SMTT(30) DEF HoldsLast, t
<1>5. QED
  BY <1>3, <1>4

LEMMA PushedIsThere ==
  ASSUME NEW X, NEW max \in Nat \ {0}, NEW lines, Len(lines) \in Nat, \A i \in 1 .. Len(lines) : lines[i] \in X
  PROVE  Pushed(lines, max)[Len(lines)] \in Rings(X, max) /\ HoldsLast(Pushed(lines, max)[Len(lines)], lines, Len(lines), max)
<1> DEFINE S == Rings(X, max)
           n == Len(lines)
           base == [ring |-> <<>>, head |-> 0]
           step == [x \in S \X (1 .. n) |-> Push(x[1], lines[x[2]], max)]
<1>1. base \in S
  BY DEF Rings
<1>2. \A s \in S, i \in 1 .. n : step[<<s, i>>] = Push(s, lines[i], max) /\ step[<<s, i>>] \in S
  BY PushType
<1> HIDE DEF base, step, S
<1>3. PICK f : Steps(f, n, base, step) /\ f \in [0 .. n -> S]
  BY <1>1, <1>2, StepsAreThere
<1>4. f = [i \in 0..n |-> IF i = 0 THEN base ELSE step[<<f[i - 1], i>>]]
  BY <1>3 DEF Steps
<1>5. \A i \in 0 .. n : i # 0 => step[<<f[i - 1], i>>] = Push(f[i - 1], lines[i], max)
  <2> TAKE i \in 0 .. n
  <2> HAVE i # 0
  <2>1. i - 1 \in 0 .. n /\ i \in 1 .. n
    OBVIOUS
  <2>2. f[i - 1] \in S
    BY <1>3, <2>1
  <2>3. QED
    BY <1>2, <2>1, <2>2
<1>6. f = [i \in 0..n |-> IF i = 0 THEN base ELSE Push(f[i - 1], lines[i], max)]
  BY <1>4, <1>5
<1>7. IsPushed(f, lines, max)
  BY <1>6 DEF IsPushed, base
<1>8. IsPushed(Pushed(lines, max), lines, max)
  BY <1>7, Zenon DEF Pushed
<1> DEFINE P == Pushed(lines, max)
<1>9. P = [i \in 0..n |-> IF i = 0 THEN base ELSE Push(P[i - 1], lines[i], max)]
  BY <1>8 DEF IsPushed, base
<1> HIDE DEF P
<1>10. P[0] = base /\ \A i \in 1 .. n : P[i] = Push(P[i - 1], lines[i], max)
  BY <1>9
<1> DEFINE Good(i) == P[i] \in S /\ HoldsLast(P[i], lines, i, max)
<1>11. \A i \in 0 .. n : Good(i)
  <2> DEFINE T == {i \in 0 .. n : ~Good(i)}
  <2>1. SUFFICES ASSUME T # {} PROVE FALSE
    OBVIOUS
  <2>2. PICK i \in T : \A l \in T : i <= l
    <3>1. T \in SUBSET Nat
      OBVIOUS
    <3> HIDE DEF T
    <3>2. QED
      BY <2>1, <3>1, LeastOf
  <2>3. i \in 0 .. n /\ ~Good(i)
    OBVIOUS
  <2>4. i # 0
    <3>1. HoldsLast(base, lines, 0, max)
      <4>1. base.ring = <<>> /\ base.head = 0 /\ Len(<<>>) = 0 /\ 1 .. 0 = {}
        BY DEF base
      <4>2. 0 \in 0 .. max - 1 /\ 0 < max
        OBVIOUS
      <4>3. QED
        BY <4>1, <4>2 DEF HoldsLast
    <3>2. QED
      BY <1>1, <1>10, <2>3, <3>1
  <2>5. i - 1 \in 0 .. n - 1 /\ i - 1 \in 0 .. n /\ i \in 1 .. n /\ ~(i <= i - 1) /\ (i - 1) + 1 = i
    BY <2>3, <2>4
  <2>6. Good(i - 1)
    BY <2>2, <2>5
  <2> DEFINE k == i - 1
             s == P[k]
  <2>7. k \in 0 .. n - 1 /\ k + 1 = i /\ s \in Rings(X, max) /\ HoldsLast(s, lines, k, max) /\ lines[k + 1] \in X
    BY <2>5, <2>6 DEF S
  <2>8. P[i] = Push(s, lines[k + 1], max)
    BY <1>10, <2>5
  <2> HIDE DEF k, s
  <2>9. HoldsLast(Push(s, lines[k + 1], max), lines, k + 1, max)
    BY <2>7, PushHolds
  <2>10. Push(s, lines[k + 1], max) \in S
    BY <2>7, PushType DEF S
  <2>11. QED
    BY <2>3, <2>7, <2>8, <2>9, <2>10
<1>12. n \in 0 .. n
  OBVIOUS
<1>13. Good(n)
  BY <1>11, <1>12
<1>14. QED
  BY <1>13 DEF P, S

\* The last lines are the lines from the head of the ring on.
LEMMA TailIsLast ==
  ASSUME NEW text, NEW max \in Nat, NEW lines, lines = SplitLines(text), Len(lines) \in Nat, lines = [i \in 1 .. Len(lines) |-> lines[i]]
  PROVE  TailLines(text, max) = LastOf(lines, max)
<1> DEFINE n == Len(lines)
           X == {lines[i] : i \in 1 .. n}
           b == IF n > max THEN n - max ELSE 0
<1>1. lines \in [1 .. n -> X] /\ lines \in Seq(X)
  <2>1. \A i \in 1 .. n : lines[i] \in X
    OBVIOUS
  <2> HIDE DEF X
  <2>2. lines \in [1 .. n -> X]
    BY <2>1
  <2>3. QED
    BY <2>2
<1>2. b \in 0 .. n
  OBVIOUS
<1>3. LastOf(lines, max) = SubSeq(lines, b + 1, n)
  BY DEF LastOf
<1>4. SubSeq(lines, b + 1, n) = [k \in 1 .. n - b |-> lines[b + k]]
  <2> HIDE DEF X, b
  <2>1. SubSeq(lines, b + 1, n) = [k \in 1 .. n - (b + 1) + 1 |-> lines[(b + 1) + k - 1]]
    <3>1. lines \in Seq(X) /\ b + 1 \in Nat /\ n \in Nat
      BY <1>1, <1>2
    <3>2. QED
      BY ONLY <3>1
  <2>2. n - (b + 1) + 1 = n - b
    BY <1>2
  <2>3. \A k \in 1 .. n - b : (b + 1) + k - 1 = b + k
    BY <1>2
  <2>4. QED
    BY <2>1, <2>2, <2>3
<1>5. CASE max = 0
  <2>1. TailLines(text, max) = <<>>
    BY <1>5, TailIsPushed
  <2>2. b = n
    BY <1>5
  <2> HIDE DEF b
  <2>3. n - b = 0
    BY <2>2
  <2>4. [k \in 1 .. n - b |-> lines[b + k]] = <<>>
    BY <2>3
  <2>5. QED
    BY <1>3, <1>4, <2>1, <2>4
<1>6. CASE max # 0
  <2> DEFINE s == Pushed(lines, max)[n]
             ring == s.ring
             r == Len(ring)
             h == s.head
  <2>1. s \in Rings(X, max) /\ HoldsLast(s, lines, n, max)
    <3>1. max \in Nat \ {0} /\ \A i \in 1 .. Len(lines) : lines[i] \in X
      BY <1>6
    <3> HIDE DEF X
    <3>2. QED
      BY <3>1, PushedIsThere
  <2>2. TailLines(text, max) = [k \in 1 .. r |-> ring[((h + k - 1) % r) + 1]]
    <3>1. Pushed(SplitLines(text), max)[Len(SplitLines(text))] = s
      BY Zenon
    <3> HIDE DEF s
    <3>2. QED
      BY <1>6, <3>1, TailIsPushed
  <2> HIDE DEF s, X
  <2>3. /\ r = (IF n < max THEN n ELSE max)
        /\ h \in 0 .. max - 1 /\ (n <= max => h = 0)
        /\ \A j \in 1 .. r : ring[j] = lines[IF j <= h THEN n - h + j ELSE n - h - r + j]
    BY <2>1 DEF HoldsLast
  <2> HIDE DEF ring, r, h, b
  <2>4. r = n - b /\ r \in Nat /\ (r # 0 => h \in 0 .. r - 1)
    BY <1>6, <2>3 DEF b
  <2>5. ASSUME NEW k \in 1 .. r PROVE ring[((h + k - 1) % r) + 1] = lines[b + k]
    <3>1. r \in Nat \ {0} /\ h \in 0 .. r - 1 /\ k \in 1 .. r /\ n \in Nat /\ b = n - r
      BY <1>2, <2>4
    <3> HIDE DEF n
    <3>2. h + k - 1 \in Nat /\ h + k - 1 < 2 * r
      BY ONLY <3>1
    <3>3. CASE h + k - 1 < r
      <4>1. (h + k - 1) % r = h + k - 1
        BY ONLY <3>1, <3>2, <3>3
      <4>2. (h + k - 1) + 1 = h + k /\ h + k \in 1 .. r /\ ~(h + k <= h) /\ n - h - r + (h + k) = b + k
        BY ONLY <3>1, <3>3
      <4>3. QED
        BY <2>3, <4>1, <4>2
    <3>4. CASE ~(h + k - 1 < r)
      <4>1. (h + k - 1) % r = h + k - 1 - r
        BY ONLY <3>1, <3>2, <3>4
      <4>2. (h + k - 1 - r) + 1 = h + k - r /\ h + k - r \in 1 .. r /\ h + k - r <= h /\ n - h + (h + k - r) = b + k
        BY ONLY <3>1, <3>4
      <4>3. QED
        BY <2>3, <4>1, <4>2
    <3>5. QED
      BY <3>3, <3>4
  <2>6. [k \in 1 .. r |-> ring[((h + k - 1) % r) + 1]] = [k \in 1 .. n - b |-> lines[b + k]]
    BY <2>4, <2>5
  <2>7. QED
    BY <1>3, <1>4, <2>2, <2>6
<1>7. QED
  BY <1>5, <1>6

\* The end of a log.
LEMMA TailExact ==
  ASSUME NEW log \in Texts, NEW maxBytes \in Nat, NEW maxLines \in Nat
  PROVE  TailIsExact(log, maxBytes, maxLines)
<1> DEFINE from == TailFrom(log, maxBytes)
           rest == ReadTailBytes(log, maxBytes, Len(log))
           lines == LinesFrom(log, from)
<1>1. from \in 1 .. Len(log) + 1 /\ rest = SubSeq(log, from, Len(log))
  BY TailBytes
<1>2. TailIsExact(log, maxBytes, maxLines) <=> TailLines(rest, maxLines) = LastOf(lines, maxLines)
  BY TailIsFrom
<1> HIDE DEF from, rest
<1>3. SplitLines(rest) = lines /\ Len(SplitLines(rest)) \in Nat
  BY <1>1, LinesAreSplit
<1>4. from \in Nat /\ Len(log) \in Nat
  BY <1>1 DEF Texts
<1> DEFINE T == Beginnings(log, from)
           c == Cardinality(T)
           A == Ascending(T)
<1>5. c \in Nat /\ lines = [k \in 1 .. c |-> LineAt(log, A[k])]
  <2>1. IsAscending(A, T) /\ lines = [k \in 1 .. c |-> LineAt(log, A[k])]
    BY <1>4, BeginningsAre
  <2>2. c \in Nat
    BY <2>1 DEF IsAscending
  <2>3. QED
    BY <2>1, <2>2
<1> HIDE DEF T, c, A
<1> HIDE DEF lines
<1>6. Len(lines) = c /\ lines = [k \in 1 .. c |-> lines[k]]
  BY <1>5
<1>7. TailLines(rest, maxLines) = LastOf(lines, maxLines)
  BY <1>3, <1>6, TailIsLast
<1>8. QED
  BY <1>2, <1>7

\* Whether a line is in the window of time, by what is said of the line before it.
InStep(line, before, crashTime, windowSec) ==
  IF IsStamped(line) THEN InWindow(line, crashTime, windowSec) ELSE before
IsWithin(f, lines, crashTime, windowSec) ==
  f = [i \in 0..Len(lines) |-> IF i = 0 THEN FALSE ELSE InStep(lines[i], f[i - 1], crashTime, windowSec)]
Withins(lines, crashTime, windowSec) == CHOOSE f : IsWithin(f, lines, crashTime, windowSec)
InTime(lines, i, crashTime, windowSec) ==
  \E j \in 1..i : /\ IsStamped(lines[j]) /\ InWindow(lines[j], crashTime, windowSec)
                  /\ \A k \in j + 1..i : ~IsStamped(lines[k])
LinesAmong(set, lines, maxLines) == LastOf(Selected(lines, set), maxLines)

ShownAsRead(lines, crashTime, windowSec, maxLines) ==
  LinesAmong({i \in DOMAIN lines : Withins(lines, crashTime, windowSec)[i]}, lines, maxLines)
ShownInTime(lines, crashTime, windowSec, maxLines) ==
  LinesAmong({i \in DOMAIN lines : InTime(lines, i, crashTime, windowSec)}, lines, maxLines)

LEMMA WindowIsWithin ==
  ASSUME NEW text, NEW crashTime, NEW windowSec, NEW maxLines
  PROVE  /\ WindowAround(text, crashTime, windowSec, maxLines) = ShownAsRead(SplitLines(text), crashTime, windowSec, maxLines)
         /\ WindowIsExact(text, crashTime, windowSec, maxLines) <=>
              WindowAround(text, crashTime, windowSec, maxLines) = ShownInTime(LinesFrom(text, 1), crashTime, windowSec, maxLines)
<1>1. WindowAround(text, crashTime, windowSec, maxLines) = ShownAsRead(SplitLines(text), crashTime, windowSec, maxLines)
  BY Zenon DEF WindowAround, ShownAsRead, LinesAmong, Withins, IsWithin, InStep
<1>2. WindowIsExact(text, crashTime, windowSec, maxLines) <=>
        WindowAround(text, crashTime, windowSec, maxLines) = ShownInTime(LinesFrom(text, 1), crashTime, windowSec, maxLines)
  BY Zenon DEF WindowIsExact, ShownInTime, LinesAmong, InTime
<1>3. QED
  BY <1>1, <1>2, Zenon

LEMMA InTimeSteps ==
  ASSUME NEW lines, NEW crashTime, NEW windowSec
  PROVE  /\ ~InTime(lines, 0, crashTime, windowSec)
         /\ \A i \in Nat \ {0} :
              /\ IsStamped(lines[i]) => (InTime(lines, i, crashTime, windowSec) <=> InWindow(lines[i], crashTime, windowSec))
              /\ ~IsStamped(lines[i]) => (InTime(lines, i, crashTime, windowSec) <=> InTime(lines, i - 1, crashTime, windowSec))
<1>1. ~InTime(lines, 0, crashTime, windowSec)
  <2>1. 1 .. 0 = {}
    OBVIOUS
  <2>2. QED
    BY <2>1, Zenon DEF InTime
<1>2. ASSUME NEW i \in Nat \ {0}, IsStamped(lines[i])
      PROVE  InTime(lines, i, crashTime, windowSec) <=> InWindow(lines[i], crashTime, windowSec)
  <2>1. ASSUME InWindow(lines[i], crashTime, windowSec) PROVE InTime(lines, i, crashTime, windowSec)
    <3>1. i \in 1 .. i /\ i + 1 .. i = {}
      OBVIOUS
    <3>2. QED
      BY <1>2, <2>1, <3>1, Zenon DEF InTime
  <2>2. ASSUME InTime(lines, i, crashTime, windowSec) PROVE InWindow(lines[i], crashTime, windowSec)
    <3>1. PICK j \in 1 .. i : /\ IsStamped(lines[j]) /\ InWindow(lines[j], crashTime, windowSec)
                              /\ \A k \in j + 1 .. i : ~IsStamped(lines[k])
      BY <2>2, Zenon DEF InTime
    <3>2. j = i \/ i \in j + 1 .. i
      OBVIOUS
    <3>3. QED
      BY <1>2, <3>1, <3>2, Zenon
  <2>3. QED
    BY <2>1, <2>2
<1>3. ASSUME NEW i \in Nat \ {0}, ~IsStamped(lines[i])
      PROVE  InTime(lines, i, crashTime, windowSec) <=> InTime(lines, i - 1, crashTime, windowSec)
  <2>1. ASSUME InTime(lines, i - 1, crashTime, windowSec) PROVE InTime(lines, i, crashTime, windowSec)
    <3>1. PICK j \in 1 .. i - 1 : /\ IsStamped(lines[j]) /\ InWindow(lines[j], crashTime, windowSec)
                                  /\ \A k \in j + 1 .. i - 1 : ~IsStamped(lines[k])
      BY <2>1, Zenon DEF InTime
    <3>2. j \in 1 .. i /\ \A k \in j + 1 .. i : k = i \/ k \in j + 1 .. i - 1
      OBVIOUS
    <3>3. \A k \in j + 1 .. i : ~IsStamped(lines[k])
      BY <1>3, <3>1, <3>2, Zenon
    <3>4. QED
      BY <3>1, <3>2, <3>3, Zenon DEF InTime
  <2>2. ASSUME InTime(lines, i, crashTime, windowSec) PROVE InTime(lines, i - 1, crashTime, windowSec)
    <3>1. PICK j \in 1 .. i : /\ IsStamped(lines[j]) /\ InWindow(lines[j], crashTime, windowSec)
                              /\ \A k \in j + 1 .. i : ~IsStamped(lines[k])
      BY <2>2, Zenon DEF InTime
    <3>2. j # i
      BY <1>3, <3>1
    <3>3. j \in 1 .. i - 1 /\ \A k \in j + 1 .. i - 1 : k \in j + 1 .. i
      BY <3>2
    <3>4. QED
      BY <3>1, <3>3, Zenon DEF InTime
  <2>3. QED
    BY <2>1, <2>2
<1>4. QED
  BY <1>1, <1>2, <1>3

LEMMA WithinIsInTime ==
  ASSUME NEW lines, Len(lines) \in Nat, NEW crashTime, NEW windowSec
  PROVE  \A i \in 1 .. Len(lines) : Withins(lines, crashTime, windowSec)[i] = InTime(lines, i, crashTime, windowSec)
<1> DEFINE n == Len(lines)
           step == [x \in BOOLEAN \X (1 .. n) |-> InStep(lines[x[2]], x[1], crashTime, windowSec)]
           W == Withins(lines, crashTime, windowSec)
           Inside(i) == InTime(lines, i, crashTime, windowSec)
<1>1. FALSE \in BOOLEAN
  OBVIOUS
<1>2. \A b \in BOOLEAN, i \in 1 .. n : step[<<b, i>>] = InStep(lines[i], b, crashTime, windowSec)
  OBVIOUS
<1>3. \A b \in BOOLEAN, i \in 1 .. n : InStep(lines[i], b, crashTime, windowSec) \in BOOLEAN
  BY Zenon DEF InStep, InWindow
<1>4. \A b \in BOOLEAN, i \in 1 .. n : step[<<b, i>>] \in BOOLEAN
  BY <1>2, <1>3, Zenon
<1> HIDE DEF step
<1>5. PICK f : Steps(f, n, FALSE, step) /\ f \in [0 .. n -> BOOLEAN]
  <2> DEFINE S == BOOLEAN
             base == FALSE
  <2>1. base \in S /\ \A s \in S, i \in 1 .. n : step[<<s, i>>] \in S
    BY <1>1, <1>4, Zenon
  <2> HIDE DEF S, base
  <2>2. \E f : Steps(f, n, base, step) /\ f \in [0 .. n -> S]
    BY <2>1, StepsAreThere
  <2>3. QED
    BY <2>2, Zenon DEF S, base
<1>6. f = [i \in 0..n |-> IF i = 0 THEN FALSE ELSE step[<<f[i - 1], i>>]]
  BY <1>5, Zenon DEF Steps
<1>7. \A i \in 0 .. n : i # 0 => i - 1 \in 0 .. n /\ i \in 1 .. n
  OBVIOUS
<1>8. \A i \in 0 .. n : i # 0 => step[<<f[i - 1], i>>] = InStep(lines[i], f[i - 1], crashTime, windowSec)
  <2>1. \A i \in 0 .. n : f[i] \in BOOLEAN
    BY <1>5, Zenon
  <2>2. QED
    BY <1>2, <1>7, <2>1, Zenon
<1>9. \A i \in 0 .. n : (IF i = 0 THEN FALSE ELSE step[<<f[i - 1], i>>]) = IF i = 0 THEN FALSE ELSE InStep(lines[i], f[i - 1], crashTime, windowSec)
  BY <1>8, Zenon
<1>10. f = [i \in 0..n |-> IF i = 0 THEN FALSE ELSE InStep(lines[i], f[i - 1], crashTime, windowSec)]
  BY <1>6, <1>9, Zenon
<1>11. IsWithin(f, lines, crashTime, windowSec)
  BY <1>10, Zenon DEF IsWithin
<1>12. IsWithin(W, lines, crashTime, windowSec)
  BY <1>11, Zenon DEF Withins
<1>13. W = [i \in 0..n |-> IF i = 0 THEN FALSE ELSE InStep(lines[i], W[i - 1], crashTime, windowSec)]
  BY <1>12, Zenon DEF IsWithin
<1> HIDE DEF W
<1>14. W[0] = FALSE /\ \A i \in 1 .. n : W[i] = InStep(lines[i], W[i - 1], crashTime, windowSec)
  <2>1. 0 \in 0 .. n /\ \A i \in 1 .. n : i \in 0 .. n /\ i # 0
    OBVIOUS
  <2>2. QED
    BY <1>13, <2>1, Zenon
<1> DEFINE Same(i) == W[i] = Inside(i)
<1>15. \A i \in 0 .. n : Same(i)
  <2> DEFINE T == {i \in 0 .. n : ~Same(i)}
  <2>1. SUFFICES ASSUME T # {} PROVE FALSE
    BY Zenon
  <2>2. PICK i \in T : \A l \in T : i <= l
    <3>1. T \in SUBSET Nat
      OBVIOUS
    <3> HIDE DEF T
    <3>2. QED
      BY <2>1, <3>1, LeastOf
  <2>3. i \in 0 .. n /\ ~Same(i)
    BY Zenon
  <2>4. i # 0
    <3>1. Inside(0) = FALSE
      BY InTimeSteps, Zenon DEF InTime
    <3>2. QED
      BY <1>14, <2>3, <3>1, Zenon
  <2>5. i - 1 \in 0 .. n /\ i \in 1 .. n /\ ~(i <= i - 1) /\ i \in Nat \ {0}
    BY ONLY <2>3, <2>4, n \in Nat
  <2>6. W[i - 1] = Inside(i - 1)
    BY <2>2, <2>5, Zenon
  <2>7. W[i] = InStep(lines[i], Inside(i - 1), crashTime, windowSec)
    BY <1>14, <2>5, <2>6, Zenon
  <2>8. /\ IsStamped(lines[i]) => (Inside(i) <=> InWindow(lines[i], crashTime, windowSec))
        /\ ~IsStamped(lines[i]) => (Inside(i) <=> Inside(i - 1))
    BY <2>5, InTimeSteps, Zenon
  <2>9. CASE IsStamped(lines[i])
    <3>1. W[i] = InWindow(lines[i], crashTime, windowSec)
      BY <2>7, <2>9, Zenon DEF InStep
    <3>2. InWindow(lines[i], crashTime, windowSec) = Inside(i)
      BY <2>8, <2>9, Zenon DEF InWindow, InTime
    <3>3. QED
      BY <2>3, <3>1, <3>2, Zenon
  <2>10. CASE ~IsStamped(lines[i])
    <3>1. W[i] = Inside(i - 1)
      BY <2>7, <2>10, Zenon DEF InStep
    <3>2. Inside(i - 1) = Inside(i)
      BY <2>8, <2>10, Zenon DEF InTime
    <3>3. QED
      BY <2>3, <3>1, <3>2, Zenon
  <2>11. QED
    BY <2>9, <2>10
<1>16. \A i \in 1 .. n : i \in 0 .. n
  OBVIOUS
<1>17. QED
  BY <1>15, <1>16, Zenon DEF W

LEMMA WindowExact ==
  ASSUME NEW text \in Texts, NEW crashTime, NEW windowSec, NEW maxLines
  PROVE  WindowIsExact(text, crashTime, windowSec, maxLines)
<1> DEFINE lines == LinesFrom(text, 1)
<1>1. text = SubSeq(text, 1, Len(text)) /\ 1 \in 1 .. Len(text) + 1 /\ Len(text) \in Nat
  BY DEF Texts
<1>2. SplitLines(text) = lines /\ Len(SplitLines(text)) \in Nat
  BY <1>1, LinesAreSplit
<1>3. DOMAIN lines = 1 .. Len(lines)
  <2> DEFINE T == Beginnings(text, 1)
             c == Cardinality(T)
             A == Ascending(T)
  <2>1. IsAscending(A, T) /\ lines = [k \in 1 .. c |-> LineAt(text, A[k])]
    BY <1>1, BeginningsAre
  <2>2. c \in Nat
    BY <2>1 DEF IsAscending
  <2> HIDE DEF T, A, lines
  <2>3. QED
    BY <2>1, <2>2
<1> HIDE DEF lines
<1> DEFINE W == Withins(lines, crashTime, windowSec)
           Inside(i) == InTime(lines, i, crashTime, windowSec)
<1>4. \A i \in DOMAIN lines : W[i] = Inside(i)
  BY <1>2, <1>3, WithinIsInTime
<1>5. {i \in DOMAIN lines : W[i]} = {i \in DOMAIN lines : Inside(i)}
  BY <1>4, Zenon
<1>6. ShownAsRead(lines, crashTime, windowSec, maxLines) = ShownInTime(lines, crashTime, windowSec, maxLines)
  BY <1>5, Zenon DEF ShownAsRead, ShownInTime
<1>7. WindowAround(text, crashTime, windowSec, maxLines) = ShownAsRead(lines, crashTime, windowSec, maxLines)
  BY <1>2, WindowIsWithin, Zenon
<1>8. QED
  BY <1>6, <1>7, WindowIsWithin, Zenon DEF lines

\* A name that fits a pattern from a place of the pattern on, with so many characters taken before.
Takes(pattern, name, i, a, b) ==
  \/ pattern[i] = "*" /\ a <= b
  \/ b = a + 1 /\ pattern[i] \in {"?", name[b]}
Cuts(cut, pattern, name, p, m) ==
  /\ cut \in [p..Len(pattern) + 1 -> 0..Len(name)]
  /\ cut[p] = m /\ cut[Len(pattern) + 1] = Len(name)
  /\ \A i \in p..Len(pattern) : Takes(pattern, name, i, cut[i], cut[i + 1])
FitsFrom(pattern, name, p, m) == \E cut : Cuts(cut, pattern, name, p, m)

LEMMA FitsIsFitsFrom ==
  ASSUME NEW pattern \in Seq(STRING), NEW name
  PROVE  Fits(pattern, name) <=> FitsFrom(pattern, name, 1, 0)
<1>1. DOMAIN pattern = 1 .. Len(pattern)
  OBVIOUS
<1>2. FitsFrom(pattern, name, 1, 0) <=>
        \E cut \in [1..Len(pattern) + 1 -> 0..Len(name)] :
          /\ cut[1] = 0 /\ cut[Len(pattern) + 1] = Len(name)
          /\ \A i \in 1 .. Len(pattern) : Takes(pattern, name, i, cut[i], cut[i + 1])
  BY Zenon DEF FitsFrom, Cuts
<1>3. Fits(pattern, name) <=>
        \E cut \in [1..Len(pattern) + 1 -> 0..Len(name)] :
          /\ cut[1] = 0 /\ cut[Len(pattern) + 1] = Len(name)
          /\ \A i \in 1 .. Len(pattern) : Takes(pattern, name, i, cut[i], cut[i + 1])
  BY <1>1, Zenon DEF Fits, Takes
<1>4. QED
  BY <1>2, <1>3

LEMMA FitsFromEnd ==
  ASSUME NEW pattern, Len(pattern) \in Nat, NEW name, Len(name) \in Nat, NEW m \in 0 .. Len(name)
  PROVE  FitsFrom(pattern, name, Len(pattern) + 1, m) <=> m = Len(name)
<1> DEFINE L == Len(pattern)
           N == Len(name)
<1>1. ASSUME FitsFrom(pattern, name, L + 1, m) PROVE m = N
  BY <1>1 DEF FitsFrom, Cuts
<1>2. ASSUME m = N PROVE FitsFrom(pattern, name, L + 1, m)
  <2> DEFINE cut == [i \in L + 1 .. L + 1 |-> N]
  <2>1. cut \in [L + 1 .. L + 1 -> 0 .. N] /\ cut[L + 1] = N /\ L + 1 .. L = {}
    OBVIOUS
  <2> HIDE DEF cut
  <2>2. Cuts(cut, pattern, name, L + 1, m)
    BY <1>2, <2>1 DEF Cuts
  <2>3. QED
    BY <2>2 DEF FitsFrom
<1>3. QED
  BY <1>1, <1>2

LEMMA FitsFromNext ==
  ASSUME NEW pattern, Len(pattern) \in Nat, NEW name, Len(name) \in Nat, NEW p \in 1 .. Len(pattern), NEW m \in 0 .. Len(name)
  PROVE  FitsFrom(pattern, name, p, m) <=>
           \E k \in 0 .. Len(name) : Takes(pattern, name, p, m, k) /\ FitsFrom(pattern, name, p + 1, k)
<1> DEFINE L == Len(pattern)
           N == Len(name)
<1>0. p \in p .. L + 1 /\ p + 1 \in p .. L + 1 /\ L + 1 \in p + 1 .. L + 1 /\ p \in p .. L /\ p # L + 1 /\ p + 1 \in p + 1 .. L + 1
  OBVIOUS
<1>1. ASSUME FitsFrom(pattern, name, p, m)
      PROVE  \E k \in 0 .. N : Takes(pattern, name, p, m, k) /\ FitsFrom(pattern, name, p + 1, k)
  <2>1. PICK cut : Cuts(cut, pattern, name, p, m)
    BY <1>1 DEF FitsFrom
  <2>2. /\ cut \in [p..L + 1 -> 0..N]
        /\ cut[p] = m /\ cut[L + 1] = N
        /\ \A i \in p..L : Takes(pattern, name, i, cut[i], cut[i + 1])
    BY <2>1 DEF Cuts
  <2> DEFINE e == [i \in p + 1 .. L + 1 |-> cut[i]]
             k == cut[p + 1]
  <2>3. \A i \in p + 1 .. L + 1 : e[i] = cut[i] /\ cut[i] \in 0 .. N
    BY <2>2
  <2>4. e \in [p + 1 .. L + 1 -> 0 .. N]
    BY <2>3
  <2>5. e[p + 1] = k /\ e[L + 1] = N
    BY <1>0, <2>2, <2>3
  <2> HIDE DEF e, k
  <2>6. \A i \in p + 1 .. L : Takes(pattern, name, i, e[i], e[i + 1])
    <3> TAKE i \in p + 1 .. L
    <3>1. i \in p .. L /\ i \in p + 1 .. L + 1 /\ i + 1 \in p + 1 .. L + 1
      OBVIOUS
    <3>2. QED
      BY <2>2, <2>3, <3>1
  <2>7. FitsFrom(pattern, name, p + 1, k)
    BY <2>4, <2>5, <2>6 DEF FitsFrom, Cuts
  <2>8. k \in 0 .. N /\ Takes(pattern, name, p, m, k)
    BY <1>0, <2>2 DEF k
  <2>9. QED
    BY <2>7, <2>8
<1>2. ASSUME NEW k \in 0 .. N, Takes(pattern, name, p, m, k), FitsFrom(pattern, name, p + 1, k)
      PROVE  FitsFrom(pattern, name, p, m)
  <2>1. PICK cut : Cuts(cut, pattern, name, p + 1, k)
    BY <1>2 DEF FitsFrom
  <2>2. /\ cut \in [p + 1..L + 1 -> 0..N]
        /\ cut[p + 1] = k /\ cut[L + 1] = N
        /\ \A i \in p + 1..L : Takes(pattern, name, i, cut[i], cut[i + 1])
    BY <2>1 DEF Cuts
  <2> DEFINE e == [i \in p .. L + 1 |-> IF i = p THEN m ELSE cut[i]]
  <2>3. e[p] = m /\ \A i \in p + 1 .. L + 1 : e[i] = cut[i]
    <3>1. \A i \in p + 1 .. L + 1 : i \in p .. L + 1 /\ i # p
      OBVIOUS
    <3>2. QED
      BY <1>0, <3>1
  <2>4. e \in [p .. L + 1 -> 0 .. N]
    <3>1. \A i \in p .. L + 1 : i # p => i \in p + 1 .. L + 1
      OBVIOUS
    <3>2. QED
      BY <2>2, <3>1
  <2> HIDE DEF e
  <2>5. \A i \in p .. L : Takes(pattern, name, i, e[i], e[i + 1])
    <3> TAKE i \in p .. L
    <3>1. CASE i = p
      BY <1>0, <1>2, <2>2, <2>3, <3>1
    <3>2. CASE i # p
      <4>1. i \in p + 1 .. L /\ i \in p + 1 .. L + 1 /\ i + 1 \in p + 1 .. L + 1
        BY <3>2
      <4>2. QED
        BY <2>2, <2>3, <4>1
    <3>3. QED
      BY <3>1, <3>2
  <2>6. e[L + 1] = N
    BY <1>0, <2>2, <2>3
  <2>7. QED
    BY <2>3, <2>4, <2>5, <2>6 DEF FitsFrom, Cuts
<1>3. QED
  BY <1>1, <1>2

\* A star takes any number of characters, every other character of a pattern takes one.
LEMMA FitsFromStar ==
  ASSUME NEW pattern, Len(pattern) \in Nat, NEW name, Len(name) \in Nat, NEW p \in 1 .. Len(pattern), NEW m \in 0 .. Len(name),
         pattern[p] = "*"
  PROVE  FitsFrom(pattern, name, p, m) <=> \E k \in m .. Len(name) : FitsFrom(pattern, name, p + 1, k)
<1> DEFINE N == Len(name)
<1>1. \A k \in 0 .. N : Takes(pattern, name, p, m, k) <=> m <= k
  BY DEF Takes
<1>2. \A k \in 0 .. N : m <= k <=> k \in m .. N
  OBVIOUS
<1>3. \A k \in m .. N : k \in 0 .. N
  OBVIOUS
<1>4. FitsFrom(pattern, name, p, m) <=> \E k \in 0 .. N : Takes(pattern, name, p, m, k) /\ FitsFrom(pattern, name, p + 1, k)
  BY FitsFromNext
<1>5. QED
  BY <1>1, <1>2, <1>3, <1>4

LEMMA FitsFromOne ==
  ASSUME NEW pattern, Len(pattern) \in Nat, NEW name, Len(name) \in Nat, NEW p \in 1 .. Len(pattern), NEW m \in 0 .. Len(name),
         pattern[p] # "*"
  PROVE  FitsFrom(pattern, name, p, m) <=>
           m < Len(name) /\ pattern[p] \in {"?", name[m + 1]} /\ FitsFrom(pattern, name, p + 1, m + 1)
<1> DEFINE N == Len(name)
<1>1. \A k \in 0 .. N : Takes(pattern, name, p, m, k) <=> k = m + 1 /\ pattern[p] \in {"?", name[k]}
  BY DEF Takes
<1>2. m < N <=> m + 1 \in 0 .. N
  OBVIOUS
<1>3. FitsFrom(pattern, name, p, m) <=> \E k \in 0 .. N : Takes(pattern, name, p, m, k) /\ FitsFrom(pattern, name, p + 1, k)
  BY FitsFromNext
<1>4. QED
  BY <1>1, <1>2, <1>3

LEMMA FitsFromSooner ==
  ASSUME NEW pattern, Len(pattern) \in Nat, NEW name, Len(name) \in Nat, NEW p \in 1 .. Len(pattern), NEW m \in 0 .. Len(name),
         pattern[p] = "*", FitsFrom(pattern, name, p, m), NEW l \in 0 .. m
  PROVE  FitsFrom(pattern, name, p, l)
<1>1. PICK k \in m .. Len(name) : FitsFrom(pattern, name, p + 1, k)
  BY FitsFromStar
<1>2. l \in 0 .. Len(name) /\ k \in l .. Len(name)
  OBVIOUS
<1>3. QED
  BY <1>1, <1>2, FitsFromStar

\* What has no star takes a character each.
LEMMA FitsFromBlock ==
  ASSUME NEW pattern, Len(pattern) \in Nat, NEW name, Len(name) \in Nat,
         NEW p \in 1 .. Len(pattern) + 1, NEW q \in p .. Len(pattern) + 1, \A i \in p .. q - 1 : pattern[i] # "*",
         NEW m \in 0 .. Len(name), FitsFrom(pattern, name, p, m)
  PROVE  m + (q - p) <= Len(name) /\ FitsFrom(pattern, name, q, m + (q - p))
<1> DEFINE N == Len(name)
           Good(i) == m + (i - p) <= N /\ FitsFrom(pattern, name, i, m + (i - p))
           T == {i \in p .. q : ~Good(i)}
<1>1. T = {}
  <2>1. SUFFICES ASSUME T # {} PROVE FALSE
    OBVIOUS
  <2>2. PICK i \in T : \A l \in T : i <= l
    <3>1. T \in SUBSET Nat
      OBVIOUS
    <3> HIDE DEF T
    <3>2. QED
      BY <2>1, <3>1, LeastOf
  <2>3. i \in p .. q /\ ~Good(i)
    OBVIOUS
  <2>4. i # p
    <3>1. m + (p - p) = m /\ m <= N
      OBVIOUS
    <3>2. Good(p)
      BY <3>1
    <3>3. QED
      BY <2>3, <3>2
  <2> DEFINE j == i - 1
             k == m + (j - p)
  <2>5. j \in p .. q /\ j \in p .. q - 1 /\ j \in 1 .. Len(pattern) /\ ~(i <= j) /\ j + 1 = i
    BY <2>3, <2>4
  <2>6. Good(j)
    BY <2>2, <2>5
  <2>7. k \in 0 .. N /\ FitsFrom(pattern, name, j, k) /\ k + 1 = m + (i - p)
    BY <2>5, <2>6
  <2>8. pattern[j] # "*"
    BY <2>5
  <2> HIDE DEF j, k
  <2>9. k < N /\ FitsFrom(pattern, name, j + 1, k + 1)
    BY <2>5, <2>7, <2>8, FitsFromOne
  <2>10. FitsFrom(pattern, name, i, m + (i - p)) /\ m + (i - p) <= N
    BY <2>5, <2>7, <2>9
  <2>11. QED
    BY <2>3, <2>10
<1>2. q \in p .. q
  OBVIOUS
<1>3. QED
  BY <1>1, <1>2

\* A name that is all taken fits what is only stars.
LEMMA FitsFromNone ==
  ASSUME NEW pattern, Len(pattern) \in Nat, NEW name, Len(name) \in Nat, NEW p \in 1 .. Len(pattern) + 1
  PROVE  FitsFrom(pattern, name, p, Len(name)) <=> \A i \in p .. Len(pattern) : pattern[i] = "*"
<1> DEFINE N == Len(name)
           L == Len(pattern)
           Good(i) == FitsFrom(pattern, name, i, N) <=> \A k \in i .. L : pattern[k] = "*"
           T == {j \in 0 .. L : ~Good(L + 1 - j)}
<1>1. T = {}
  <2>1. SUFFICES ASSUME T # {} PROVE FALSE
    OBVIOUS
  <2>2. PICK j \in T : \A l \in T : j <= l
    <3>1. T \in SUBSET Nat
      OBVIOUS
    <3> HIDE DEF T
    <3>2. QED
      BY <2>1, <3>1, LeastOf
  <2>3. j \in 0 .. L /\ ~Good(L + 1 - j)
    OBVIOUS
  <2>4. j # 0
    <3>1. FitsFrom(pattern, name, L + 1, N)
      BY FitsFromEnd
    <3>2. L + 1 .. L = {} /\ L + 1 - 0 = L + 1
      OBVIOUS
    <3>3. Good(L + 1)
      BY <3>1, <3>2
    <3>4. QED
      BY <2>3, <3>2, <3>3
  <2> DEFINE i == L + 1 - j
  <2>5. j - 1 \in 0 .. L /\ ~(j <= j - 1) /\ L + 1 - (j - 1) = i + 1 /\ i \in 1 .. L
    BY <2>3, <2>4
  <2>6. Good(i + 1)
    BY <2>2, <2>5
  <2>7. ~Good(i)
    BY <2>3
  <2> HIDE DEF i
  <2>8. \A k \in i .. L : k = i \/ k \in i + 1 .. L
    BY <2>5
  <2>9. i \in i .. L /\ \A k \in i + 1 .. L : k \in i .. L
    BY <2>5
  <2>10. CASE pattern[i] = "*"
    <3>1. N .. N = {N} /\ N \in 0 .. N
      OBVIOUS
    <3>2. FitsFrom(pattern, name, i, N) <=> \E k \in N .. N : FitsFrom(pattern, name, i + 1, k)
      BY <2>5, <2>10, FitsFromStar, SMTT(30)
    <3>3. FitsFrom(pattern, name, i, N) <=> FitsFrom(pattern, name, i + 1, N)
      BY <3>1, <3>2
    <3>4. QED
      BY <2>6, <2>7, <2>8, <2>9, <2>10, <3>3
  <2>11. CASE pattern[i] # "*"
    <3>1. ~FitsFrom(pattern, name, i, N)
      BY <2>5, <2>11, FitsFromOne
    <3>2. QED
      BY <2>7, <2>9, <2>11, <3>1
  <2>12. QED
    BY <2>10, <2>11
<1>2. L + 1 - p \in 0 .. L /\ L + 1 - (L + 1 - p) = p
  OBVIOUS
<1>3. Good(p)
  BY <1>1, <1>2
<1>4. QED
  BY <1>3

LEMMA Times ==
  ASSUME NEW a \in Nat, NEW b \in Nat, NEW n \in Nat, a < b
  PROVE  a * n \in Nat /\ b * n \in Nat /\ a * n + n <= b * n
  OBVIOUS

\* Three digits.
Digits(a, b, c, w) == a * (w * w) + b * w + c
LEMMA DigitsType ==
  ASSUME NEW w \in Nat, NEW a \in Nat, NEW b \in 0 .. w - 1, NEW c \in 0 .. w - 1
  PROVE  Digits(a, b, c, w) \in Nat /\ a * (w * w) <= Digits(a, b, c, w) /\ Digits(a, b, c, w) < (a + 1) * (w * w)
<1> DEFINE u == w * w
           x == a * u
           y == b * w
           z == (a + 1) * u
<1>1. u \in Nat
  OBVIOUS
<1>2. y \in Nat /\ y + w <= u
  BY Times
<1> HIDE DEF u
<1>3. x \in Nat /\ z \in Nat /\ x + u <= z
  BY <1>1, Times
<1> HIDE DEF x, y, z
<1>4. x + y + c \in Nat /\ x <= x + y + c /\ x + y + c < z
  BY <1>1, <1>2, <1>3
<1>5. QED
  BY <1>4 DEF Digits, x, y, z, u

LEMMA DigitsLess ==
  ASSUME NEW w \in Nat, NEW a \in Nat, NEW b \in 0 .. w - 1, NEW c \in 0 .. w - 1,
         NEW d \in Nat, NEW e \in 0 .. w - 1, NEW f \in 0 .. w - 1,
         d < a \/ (d = a /\ e < b) \/ (d = a /\ e = b /\ f < c)
  PROVE  Digits(d, e, f, w) < Digits(a, b, c, w)
<1> DEFINE u == w * w
<1>1. u \in Nat
  OBVIOUS
<1>2. CASE d < a
  <2> DEFINE x == Digits(d, e, f, w)
             y == (d + 1) * u
             z == a * u
             t == Digits(a, b, c, w)
  <2>1. x \in Nat /\ x < y
    BY DigitsType
  <2>2. t \in Nat /\ z <= t
    BY DigitsType
  <2> HIDE DEF u
  <2>3. y \in Nat /\ z \in Nat /\ y <= z
    <3>1. d + 1 = a \/ d + 1 < a
      BY <1>2
    <3>2. d + 1 \in Nat
      OBVIOUS
    <3>3. CASE d + 1 = a
      <4>1. y = z
        BY <3>3
      <4>2. z \in Nat
        BY <1>1
      <4> HIDE DEF y, z
      <4>3. QED
        BY <4>1, <4>2
    <3>4. CASE d + 1 < a
      <4>1. y \in Nat /\ z \in Nat /\ y + u <= z
        BY <1>1, <3>2, <3>4, Times
      <4> HIDE DEF y, z
      <4>2. QED
        BY <1>1, <4>1
    <3>5. QED
      BY <3>1, <3>3, <3>4
  <2> HIDE DEF x, y, z, t
  <2>4. x < t
    BY <2>1, <2>2, <2>3
  <2>5. QED
    BY <2>4 DEF x, t
<1>3. CASE d = a /\ e < b
  <2> DEFINE x == a * u
             y == e * w
             z == b * w
  <2>1. x \in Nat
    BY <1>1
  <2>2. y \in Nat /\ z \in Nat /\ y + w <= z
    BY <1>3, Times
  <2> HIDE DEF x, y, z
  <2>3. x + y + f < x + z + c
    BY <2>1, <2>2
  <2>4. Digits(d, e, f, w) = x + y + f /\ Digits(a, b, c, w) = x + z + c
    BY <1>3 DEF Digits, x, y, z, u
  <2>5. QED
    BY <2>3, <2>4
<1>4. CASE d = a /\ e = b /\ f < c
  <2> DEFINE x == a * u + b * w
  <2>1. x \in Nat
    BY <1>1
  <2> HIDE DEF x
  <2>2. x + f < x + c
    BY <1>4, <2>1
  <2>3. Digits(d, e, f, w) = x + f /\ Digits(a, b, c, w) = x + c
    BY <1>4 DEF Digits, x, u
  <2>4. QED
    BY <2>2, <2>3
<1>5. QED
  BY <1>2, <1>3, <1>4

\* The match of a name with a pattern: its steps, and what is left of it.
Taken(name, s) == s.n > Len(name)
AtStar(pattern, s) == s.p <= Len(pattern) /\ pattern[s.p] = "*"
AtSame(pattern, name, s) == s.p <= Len(pattern) /\ pattern[s.p] \in {"?", name[s.n]}
OnStar(s) == [p |-> s.p + 1, n |-> s.n, star |-> s.p, mark |-> s.n]
OnSame(s) == [p |-> s.p + 1, n |-> s.n + 1, star |-> s.star, mark |-> s.mark]
Back(s) == [p |-> s.star + 1, n |-> s.mark + 1, star |-> s.star, mark |-> s.mark + 1]
IsRun(f, pattern, name) ==
  f = [s \in MatchStates(pattern, name) |->
        IF Taken(name, s) THEN s
        ELSE IF AtStar(pattern, s) THEN f[OnStar(s)]
        ELSE IF AtSame(pattern, name, s) THEN f[OnSame(s)]
        ELSE IF s.star # 0 THEN f[Back(s)]
        ELSE s]
Run(pattern, name) == CHOOSE f : IsRun(f, pattern, name)
Started == [p |-> 1, n |-> 1, star |-> 0, mark |-> 0]
IsOver(pattern, name, s) == Taken(name, s) \/ (~AtStar(pattern, s) /\ ~AtSame(pattern, name, s) /\ s.star = 0)
NextMatch(pattern, name, s) ==
  IF AtStar(pattern, s) THEN OnStar(s) ELSE IF AtSame(pattern, name, s) THEN OnSame(s) ELSE Back(s)
Ahead(pattern, name, s) == Digits(Len(pattern) - s.star, Len(name) + 1 - s.mark, Len(name) + 1 - s.n, Len(name) + 2)
FitsAtEnd(pattern, name, s) == s.n > Len(name) /\ \A i \in s.p..Len(pattern) : pattern[i] = "*"

LEMMA MatchIsRun ==
  ASSUME NEW pattern, NEW name
  PROVE  GlobMatch(pattern, name) <=> FitsAtEnd(pattern, name, Run(pattern, name)[Started])
<1>1. MatchEnd(pattern, name) = Run(pattern, name)[Started]
  BY Zenon DEF MatchEnd, Run, IsRun, Taken, AtStar, AtSame, OnStar, OnSame, Back, Started
<1>2. QED
  BY <1>1, Zenon DEF GlobMatch, FitsAtEnd

LEMMA MatchStateIs ==
  ASSUME NEW pattern, NEW name, NEW s
  PROVE  s \in MatchStates(pattern, name) <=>
           /\ s = [p |-> s.p, n |-> s.n, star |-> s.star, mark |-> s.mark]
           /\ s.p \in 1 .. Len(pattern) + 1 /\ s.n \in 1 .. Len(name) + 1
           /\ s.star \in 0 .. Len(pattern) /\ s.mark \in 0 .. Len(name) + 1
           /\ s.star < s.p /\ s.mark <= s.n
  BY DEF MatchStates

LEMMA AheadIs ==
  ASSUME NEW l \in Nat, NEW n \in Nat, NEW i \in 0 .. l, NEW j \in 0 .. n + 1, NEW k \in 1 .. n + 1
  PROVE  /\ l - i \in Nat /\ l - i <= l /\ n + 1 - j \in 0 .. (n + 2) - 1 /\ n + 1 - k \in 0 .. (n + 2) - 1
         /\ \A x, y \in Int : (x < y => l - y < l - x) /\ (x < y => n + 1 - y < n + 1 - x)
  OBVIOUS

LEMMA MatchGoesOn ==
  ASSUME NEW pattern, Len(pattern) \in Nat, NEW name, Len(name) \in Nat, NEW s \in MatchStates(pattern, name), ~IsOver(pattern, name, s)
  PROVE  /\ NextMatch(pattern, name, s) \in MatchStates(pattern, name)
         /\ Ahead(pattern, name, NextMatch(pattern, name, s)) < Ahead(pattern, name, s)
<1> DEFINE L == Len(pattern)
           N == Len(name)
           t == NextMatch(pattern, name, s)
           w == N + 2
<1>1. /\ s.p \in 1 .. L + 1 /\ s.n \in 1 .. N + 1 /\ s.star \in 0 .. L /\ s.mark \in 0 .. N + 1
      /\ s.star < s.p /\ s.mark <= s.n
  BY DEF MatchStates
<1>2. s.n <= N
  BY <1>1 DEF IsOver, Taken
<1>3. /\ t = [p |-> t.p, n |-> t.n, star |-> t.star, mark |-> t.mark]
      /\ t.p \in 1 .. L + 1 /\ t.n \in 1 .. N + 1 /\ t.star \in 0 .. L /\ t.mark \in 0 .. N + 1
      /\ t.star < t.p /\ t.mark <= t.n
      /\ \/ s.star < t.star
         \/ s.star = t.star /\ s.mark < t.mark
         \/ s.star = t.star /\ s.mark = t.mark /\ s.n < t.n
  <2>1. CASE AtStar(pattern, s)
    <3>1. t = OnStar(s) /\ s.p <= L
      BY <2>1 DEF NextMatch, AtStar
    <3> HIDE DEF t
    <3>2. t = [p |-> s.p + 1, n |-> s.n, star |-> s.p, mark |-> s.n]
      BY <3>1 DEF OnStar
    <3>3. t.p = s.p + 1 /\ t.n = s.n /\ t.star = s.p /\ t.mark = s.n
      BY <3>2
    <3>4. t = [p |-> t.p, n |-> t.n, star |-> t.star, mark |-> t.mark]
      BY <3>2
    <3>5. QED
      BY <1>1, <3>1, <3>3, <3>4
  <2>2. CASE ~AtStar(pattern, s) /\ AtSame(pattern, name, s)
    <3>1. t = OnSame(s) /\ s.p <= L
      BY <2>2 DEF NextMatch, AtSame
    <3> HIDE DEF t
    <3>2. t = [p |-> s.p + 1, n |-> s.n + 1, star |-> s.star, mark |-> s.mark]
      BY <3>1 DEF OnSame
    <3>3. t.p = s.p + 1 /\ t.n = s.n + 1 /\ t.star = s.star /\ t.mark = s.mark
      BY <3>2
    <3>4. t = [p |-> t.p, n |-> t.n, star |-> t.star, mark |-> t.mark]
      BY <3>2
    <3>5. QED
      BY <1>1, <1>2, <3>1, <3>3, <3>4, SMTT(30)
  <2>3. CASE ~AtStar(pattern, s) /\ ~AtSame(pattern, name, s)
    <3>1. t = Back(s) /\ s.star # 0
      BY <2>3 DEF NextMatch, IsOver
    <3> HIDE DEF t
    <3>2. t = [p |-> s.star + 1, n |-> s.mark + 1, star |-> s.star, mark |-> s.mark + 1]
      BY <3>1 DEF Back
    <3>3. t.p = s.star + 1 /\ t.n = s.mark + 1 /\ t.star = s.star /\ t.mark = s.mark + 1
      BY <3>2
    <3>4. t = [p |-> t.p, n |-> t.n, star |-> t.star, mark |-> t.mark]
      BY <3>2
    <3>5. QED
      BY <1>1, <1>2, <3>1, <3>3, <3>4, SMTT(30)
  <2>4. QED
    BY <2>1, <2>2, <2>3
<1> HIDE DEF t
<1>4. t \in MatchStates(pattern, name)
  BY <1>3, MatchStateIs
<1> DEFINE a == L - s.star
           b == N + 1 - s.mark
           c == N + 1 - s.n
           d == L - t.star
           e == N + 1 - t.mark
           f == N + 1 - t.n
<1>5. /\ a \in Nat /\ b \in 0 .. w - 1 /\ c \in 0 .. w - 1 /\ d \in Nat /\ e \in 0 .. w - 1 /\ f \in 0 .. w - 1 /\ w \in Nat
      /\ d < a \/ (d = a /\ e < b) \/ (d = a /\ e = b /\ f < c)
  <2>1. a \in Nat /\ b \in 0 .. w - 1 /\ c \in 0 .. w - 1
    BY <1>1, AheadIs
  <2>2. d \in Nat /\ e \in 0 .. w - 1 /\ f \in 0 .. w - 1
    BY <1>3, AheadIs
  <2>3. \A x, y \in Int : (x < y => L - y < L - x) /\ (x < y => N + 1 - y < N + 1 - x)
    OBVIOUS
  <2>4. s.star \in Int /\ t.star \in Int /\ s.mark \in Int /\ t.mark \in Int /\ s.n \in Int /\ t.n \in Int
    BY <1>1, <1>3
  <2>5. CASE s.star < t.star
    <3>1. d < a
      BY <2>3, <2>4, <2>5
    <3>2. QED
      BY <2>1, <2>2, <3>1
  <2>6. CASE s.star = t.star /\ s.mark < t.mark
    <3>1. d = a /\ e < b
      BY <2>3, <2>4, <2>6
    <3>2. QED
      BY <2>1, <2>2, <3>1
  <2>7. CASE s.star = t.star /\ s.mark = t.mark /\ s.n < t.n
    <3>1. d = a /\ e = b /\ f < c
      BY <2>3, <2>4, <2>7
    <3>2. QED
      BY <2>1, <2>2, <3>1
  <2>8. QED
    BY <1>3, <2>5, <2>6, <2>7
<1> HIDE DEF a, b, c, d, e, f, w
<1>6. Digits(d, e, f, w) < Digits(a, b, c, w)
  BY <1>5, DigitsLess
<1>7. Ahead(pattern, name, t) < Ahead(pattern, name, s)
  BY <1>6 DEF Ahead, a, b, c, d, e, f, w
<1>8. QED
  BY <1>4, <1>7 DEF t

LEMMA RunIsThere ==
  ASSUME NEW pattern, Len(pattern) \in Nat, NEW name, Len(name) \in Nat
  PROVE  \A s \in MatchStates(pattern, name) :
           Run(pattern, name)[s] = IF IsOver(pattern, name, s) THEN s ELSE Run(pattern, name)[NextMatch(pattern, name, s)]
<1> DEFINE D == MatchStates(pattern, name)
           L == Len(pattern)
           N == Len(name)
           w == N + 2
           K == (L + 1) * (w * w)
           left == [s \in D |-> Ahead(pattern, name, s)]
           end == {s \in D : IsOver(pattern, name, s)}
           value == [s \in D |-> s]
           next == [s \in D |-> NextMatch(pattern, name, s)]
<1>1. K \in Nat
  OBVIOUS
<1>2. \A s \in D : Ahead(pattern, name, s) \in 0 .. K
  <2> TAKE s \in D
  <2> DEFINE a == L - s.star
             b == N + 1 - s.mark
             c == N + 1 - s.n
             x == Digits(a, b, c, w)
             y == (a + 1) * (w * w)
  <2>1. s.star \in 0 .. L /\ s.mark \in 0 .. N + 1 /\ s.n \in 1 .. N + 1
    BY DEF MatchStates
  <2>2. a \in Nat /\ a <= L /\ b \in 0 .. w - 1 /\ c \in 0 .. w - 1 /\ w \in Nat
    <3>1. w \in Nat
      OBVIOUS
    <3> HIDE DEF K
    <3>2. QED
      BY <2>1, <3>1, AheadIs
  <2> HIDE DEF a, b, c, w
  <2>3. x \in Nat /\ x < y
    BY <2>2, DigitsType
  <2>4. y \in Nat /\ y <= K
    <3> DEFINE u == w * w
    <3>1. u \in Nat
      BY <2>2
    <3>2. (a + 1) * u \in Nat /\ (a + 1) * u <= (L + 1) * u
      <4> HIDE DEF u
      <4>1. CASE a = L
        <5>1. (L + 1) * u \in Nat
          BY <3>1
        <5>2. QED
          BY <4>1, <5>1
      <4>2. CASE a # L
        <5> DEFINE i == a + 1
                   j == L + 1
                   iu == i * u
                   ju == j * u
        <5>1. i \in Nat /\ j \in Nat /\ i < j
          BY <2>2, <4>2
        <5> HIDE DEF i, j
        <5>2. iu \in Nat /\ ju \in Nat /\ iu + u <= ju
          BY <3>1, <5>1, Times
        <5> HIDE DEF iu, ju
        <5>3. iu <= ju
          BY <3>1, <5>2
        <5>4. QED
          BY <5>2, <5>3 DEF i, j, iu, ju
      <4>3. QED
        BY <4>1, <4>2
    <3>3. QED
      BY <3>2
  <2>5. Ahead(pattern, name, s) = x
    BY DEF Ahead, a, b, c, w
  <2> HIDE DEF x, y, K
  <2>6. QED
    BY <1>1, <2>3, <2>4, <2>5
<1> HIDE DEF K, D
<1>3. left \in [D -> 0 .. K]
  BY <1>2
<1>4. end \in SUBSET D /\ \A s \in D : s \in end <=> IsOver(pattern, name, s)
  OBVIOUS
<1>5. \A s \in D : left[s] = Ahead(pattern, name, s) /\ next[s] = NextMatch(pattern, name, s) /\ value[s] = s
  OBVIOUS
<1>6. \A s \in D \ end : next[s] \in D /\ left[next[s]] < left[s]
  <2> TAKE s \in D \ end
  <2>1. ~IsOver(pattern, name, s) /\ s \in D
    BY <1>4
  <2>2. NextMatch(pattern, name, s) \in D /\ Ahead(pattern, name, NextMatch(pattern, name, s)) < Ahead(pattern, name, s)
    BY <2>1, MatchGoesOn DEF D
  <2> HIDE DEF left, next, end
  <2>3. QED
    BY <1>5, <2>1, <2>2
<1> HIDE DEF left, end, value, next
<1>7. PICK f : GoesOn(f, D, end, value, next)
  BY <1>1, <1>3, <1>4, <1>6, TailRecursion
<1>8. f = [s \in D |-> IF s \in end THEN value[s] ELSE f[next[s]]]
  BY <1>7 DEF GoesOn
<1> DEFINE Goes(g, s) ==
             IF Taken(name, s) THEN s
             ELSE IF AtStar(pattern, s) THEN g[OnStar(s)]
             ELSE IF AtSame(pattern, name, s) THEN g[OnSame(s)]
             ELSE IF s.star # 0 THEN g[Back(s)]
             ELSE s
<1>9. \A g : \A s \in D : Goes(g, s) = IF IsOver(pattern, name, s) THEN s ELSE g[NextMatch(pattern, name, s)]
  BY Zenon DEF IsOver, NextMatch
<1>10. \A s \in D : (IF s \in end THEN value[s] ELSE f[next[s]]) = Goes(f, s)
  <2> TAKE s \in D
  <2>1. Goes(f, s) = IF IsOver(pattern, name, s) THEN s ELSE f[NextMatch(pattern, name, s)]
    BY <1>9, Zenon
  <2> HIDE DEF Goes
  <2>2. QED
    BY <1>4, <1>5, <2>1
<1>11. f = [s \in D |-> Goes(f, s)]
  <2> HIDE DEF Goes
  <2>1. QED
    BY <1>8, <1>10
<1>12. IsRun(f, pattern, name)
  BY <1>11, Zenon DEF IsRun, D
<1>13. IsRun(Run(pattern, name), pattern, name)
  BY <1>12, Zenon DEF Run
<1> DEFINE R == Run(pattern, name)
<1>14. R = [s \in D |-> Goes(R, s)]
  BY <1>13, Zenon DEF IsRun, D
<1> HIDE DEF R, Goes
<1>15. \A s \in D : R[s] = Goes(R, s)
  BY <1>14
<1>16. \A s \in D : R[s] = IF IsOver(pattern, name, s) THEN s ELSE R[NextMatch(pattern, name, s)]
  BY <1>9, <1>15
<1>17. QED
  BY <1>16 DEF R, D

\* Between the last star and the place of the match are characters that took one each.
IsAfterStar(pattern, s) ==
  s.star # 0 =>
    /\ s.mark >= 1 /\ pattern[s.star] = "*"
    /\ \A i \in s.star + 1..s.p - 1 : pattern[i] # "*"
    /\ s.n - s.mark = s.p - (s.star + 1)

\* The name can still fit, from here or with more of it taken by the last star.
CanFit(pattern, name, s) ==
  \/ FitsFrom(pattern, name, s.p, s.n - 1)
  \/ s.star # 0 /\ \E m \in s.mark..Len(name) : FitsFrom(pattern, name, s.star + 1, m)

\* What the last star may still take fits only from a place further on in the name.
LEMMA FitsLater ==
  ASSUME NEW pattern, Len(pattern) \in Nat, NEW name, Len(name) \in Nat, NEW s \in MatchStates(pattern, name),
         IsAfterStar(pattern, s), s.star # 0, NEW m \in s.mark .. Len(name), FitsFrom(pattern, name, s.star + 1, m)
  PROVE  \E k \in s.n .. Len(name) : FitsFrom(pattern, name, s.p, k)
<1> DEFINE L == Len(pattern)
           N == Len(name)
           p == s.star + 1
           q == s.p
           k == m + (q - p)
<1>1. /\ s.p \in 1 .. L + 1 /\ s.n \in 1 .. N + 1 /\ s.star \in 0 .. L /\ s.mark \in 0 .. N + 1
      /\ s.star < s.p /\ s.mark <= s.n
  BY DEF MatchStates
<1>2. s.mark >= 1 /\ (\A i \in p .. q - 1 : pattern[i] # "*") /\ s.n - s.mark = q - p
  BY DEF IsAfterStar
<1>3. p \in 1 .. L + 1 /\ q \in p .. L + 1 /\ m \in 0 .. N /\ FitsFrom(pattern, name, p, m)
  BY <1>1, <1>2, SMTT(30)
<1>4. \A i \in p .. q - 1 : pattern[i] # "*"
  BY <1>2
<1> DEFINE mark == s.mark
           n == s.n
<1>5. mark \in Int /\ n \in Int /\ n - mark = q - p /\ m >= mark /\ m \in Nat
  BY <1>1, <1>2, <1>3
<1> HIDE DEF p, q, mark, n
<1>6. k <= N /\ FitsFrom(pattern, name, q, k)
  BY <1>3, <1>4, FitsFromBlock
<1>7. k \in n .. N
  BY <1>3, <1>5, <1>6
<1>8. QED
  BY <1>6, <1>7 DEF n, q

LEMMA CanFitOver ==
  ASSUME NEW pattern, Len(pattern) \in Nat, NEW name, Len(name) \in Nat, NEW s \in MatchStates(pattern, name),
         IsAfterStar(pattern, s), IsOver(pattern, name, s)
  PROVE  FitsAtEnd(pattern, name, s) <=> CanFit(pattern, name, s)
<1> DEFINE L == Len(pattern)
           N == Len(name)
<1>1. /\ s.p \in 1 .. L + 1 /\ s.n \in 1 .. N + 1 /\ s.star \in 0 .. L /\ s.mark \in 0 .. N + 1
      /\ s.star < s.p /\ s.mark <= s.n
  BY DEF MatchStates
<1>2. CASE s.n > N
  <2>1. s.n - 1 = N /\ s.n .. N = {}
    BY <1>1, <1>2
  <2>2. ~(s.star # 0 /\ \E m \in s.mark .. N : FitsFrom(pattern, name, s.star + 1, m))
    BY <2>1, FitsLater
  <2>3. FitsFrom(pattern, name, s.p, N) <=> \A i \in s.p .. L : pattern[i] = "*"
    BY <1>1, FitsFromNone
  <2>4. CanFit(pattern, name, s) <=> FitsFrom(pattern, name, s.p, N)
    BY <2>1, <2>2 DEF CanFit
  <2>5. FitsAtEnd(pattern, name, s) <=> \A i \in s.p .. L : pattern[i] = "*"
    BY <1>2 DEF FitsAtEnd
  <2>6. QED
    BY <2>3, <2>4, <2>5
<1>3. CASE ~(s.n > N)
  <2>1. ~AtStar(pattern, s) /\ ~AtSame(pattern, name, s) /\ s.star = 0
    BY <1>3 DEF IsOver, Taken
  <2>2. ~FitsAtEnd(pattern, name, s)
    BY <1>3 DEF FitsAtEnd
  <2> DEFINE p == s.p
             n == s.n
             m == n - 1
  <2>3. p \in 1 .. L + 1 /\ n \in 1 .. N /\ m \in 0 .. N /\ m + 1 = n /\ m # N
    BY <1>1, <1>3
  <2>4. p <= L => pattern[p] # "*" /\ pattern[p] \notin {"?", name[n]}
    BY <2>1 DEF AtStar, AtSame
  <2> HIDE DEF p, n, m
  <2>5. ~FitsFrom(pattern, name, p, m)
    <3>1. CASE p = L + 1
      BY <2>3, <3>1, FitsFromEnd
    <3>2. CASE p # L + 1
      <4>1. p \in 1 .. L /\ p <= L
        BY <2>3, <3>2
      <4>2. QED
        BY <2>3, <2>4, <4>1, FitsFromOne
    <3>3. QED
      BY <3>1, <3>2
  <2>6. ~CanFit(pattern, name, s)
    BY <2>1, <2>5 DEF CanFit, p, n, m
  <2>7. QED
    BY <2>2, <2>6
<1>4. QED
  BY <1>2, <1>3

LEMMA CanFitNext ==
  ASSUME NEW pattern, Len(pattern) \in Nat, NEW name, Len(name) \in Nat, NEW s \in MatchStates(pattern, name),
         IsAfterStar(pattern, s), ~IsOver(pattern, name, s)
  PROVE  /\ IsAfterStar(pattern, NextMatch(pattern, name, s))
         /\ CanFit(pattern, name, NextMatch(pattern, name, s)) <=> CanFit(pattern, name, s)
<1> DEFINE L == Len(pattern)
           N == Len(name)
           t == NextMatch(pattern, name, s)
           p == s.p
           n == s.n
           star == s.star
           mark == s.mark
           m == n - 1
           Later == star # 0 /\ \E k \in mark .. N : FitsFrom(pattern, name, star + 1, k)
<1>1. /\ p \in 1 .. L + 1 /\ n \in 1 .. N + 1 /\ star \in 0 .. L /\ mark \in 0 .. N + 1
      /\ star < p /\ mark <= n
  BY DEF MatchStates
<1>2. n <= N /\ m \in 0 .. N /\ m + 1 = n /\ m # N
  <2>1. ~(n > N)
    BY Zenon DEF IsOver, Taken
  <2>2. n \in 1 .. N + 1 /\ N \in Nat /\ m = n - 1
    BY <1>1
  <2> HIDE DEF n, N, m
  <2>3. QED
    BY ONLY <2>1, <2>2
<1>3. star # 0 => /\ mark >= 1 /\ pattern[star] = "*"
                  /\ \A i \in star + 1 .. p - 1 : pattern[i] # "*"
                  /\ n - mark = p - (star + 1)
  BY DEF IsAfterStar
<1>4. CanFit(pattern, name, s) <=> FitsFrom(pattern, name, p, m) \/ Later
  BY DEF CanFit
<1>5. CASE AtStar(pattern, s)
  <2>1. t = OnStar(s) /\ p <= L /\ pattern[p] = "*"
    BY <1>5 DEF NextMatch, AtStar
  <2>2. t.p = p + 1 /\ t.n = n /\ t.star = p /\ t.mark = n
    BY <2>1 DEF OnStar
  <2>3. Later => FitsFrom(pattern, name, p, m)
    <3>1. SUFFICES ASSUME Later PROVE FitsFrom(pattern, name, p, m)
      OBVIOUS
    <3>2. PICK k \in n .. N : FitsFrom(pattern, name, p, k)
      BY <3>1, FitsLater
    <3>3. k \in 0 .. N /\ m \in 0 .. k /\ p \in 1 .. L
      BY <1>1, <1>2, <2>1
    <3> HIDE DEF p, m
    <3>4. QED
      BY <2>1, <3>2, <3>3, FitsFromSooner
  <2> HIDE DEF t, p, n, star, mark, m, Later
  <2>4. IsAfterStar(pattern, t)
    <3>1. p + 1 .. (p + 1) - 1 = {} /\ n - n = (p + 1) - (p + 1) /\ n >= 1
      BY <1>1
    <3>2. QED
      BY <2>1, <2>2, <3>1 DEF IsAfterStar
  <2>5. FitsFrom(pattern, name, p, m) <=> \E k \in m .. N : FitsFrom(pattern, name, p + 1, k)
    <3>1. p \in 1 .. L
      BY <1>1, <2>1
    <3>2. QED
      BY <1>2, <2>1, <3>1, FitsFromStar
  <2>6. m \in m .. N /\ (\A k \in n .. N : k \in m .. N) /\ \A k \in m .. N : k = m \/ k \in n .. N
    BY <1>1, <1>2
  <2>7. CanFit(pattern, name, t) <=> FitsFrom(pattern, name, p + 1, m) \/ \E k \in n .. N : FitsFrom(pattern, name, p + 1, k)
    <3>1. p # 0 /\ n - 1 = m
      BY <1>1, <1>2
    <3>2. CanFit(pattern, name, t) <=> FitsFrom(pattern, name, p + 1, n - 1) \/ (p # 0 /\ \E k \in n .. N : FitsFrom(pattern, name, p + 1, k))
      BY <2>2 DEF CanFit
    <3>3. QED
      BY <3>1, <3>2
  <2>8. CanFit(pattern, name, t) <=> FitsFrom(pattern, name, p, m)
    BY <2>5, <2>6, <2>7
  <2>9. QED
    BY <1>4, <2>3, <2>4, <2>8 DEF t
<1>6. CASE ~AtStar(pattern, s) /\ AtSame(pattern, name, s)
  <2>1. t = OnSame(s) /\ p <= L /\ pattern[p] # "*" /\ pattern[p] \in {"?", name[n]}
    BY <1>6 DEF NextMatch, AtStar, AtSame
  <2>2. t.p = p + 1 /\ t.n = n + 1 /\ t.star = star /\ t.mark = mark
    BY <2>1 DEF OnSame
  <2> HIDE DEF t, p, n, star, mark, m, Later
  <2>3. IsAfterStar(pattern, t)
    <3>1. SUFFICES ASSUME star # 0 PROVE /\ mark >= 1 /\ pattern[star] = "*"
                                         /\ \A i \in star + 1 .. (p + 1) - 1 : pattern[i] # "*"
                                         /\ (n + 1) - mark = (p + 1) - (star + 1)
      BY <2>2 DEF IsAfterStar
    <3>2. (n + 1) - mark = (p + 1) - (star + 1)
      BY <1>1, <1>3, <3>1
    <3>3. \A i \in star + 1 .. (p + 1) - 1 : i = p \/ i \in star + 1 .. p - 1
      BY <1>1
    <3>4. QED
      BY <1>3, <2>1, <3>1, <3>2, <3>3
  <2>4. FitsFrom(pattern, name, p, m) <=> FitsFrom(pattern, name, p + 1, n)
    <3>1. p \in 1 .. L /\ m < N
      BY <1>1, <1>2, <2>1
    <3>2. QED
      BY <1>2, <2>1, <3>1, FitsFromOne
  <2>5. CanFit(pattern, name, t) <=> FitsFrom(pattern, name, p + 1, n) \/ Later
    <3>1. (n + 1) - 1 = n
      BY <1>1
    <3>2. CanFit(pattern, name, t) <=> FitsFrom(pattern, name, p + 1, (n + 1) - 1) \/ (star # 0 /\ \E k \in mark .. N : FitsFrom(pattern, name, star + 1, k))
      BY <2>2 DEF CanFit
    <3>3. QED
      BY <3>1, <3>2 DEF Later
  <2>6. QED
    BY <1>4, <2>3, <2>4, <2>5 DEF t
<1>7. CASE ~AtStar(pattern, s) /\ ~AtSame(pattern, name, s)
  <2>1. t = Back(s) /\ star # 0
    BY <1>7 DEF NextMatch, IsOver
  <2>2. t.p = star + 1 /\ t.n = mark + 1 /\ t.star = star /\ t.mark = mark + 1
    BY <2>1 DEF Back
  <2>3. p <= L => pattern[p] # "*" /\ pattern[p] \notin {"?", name[n]}
    BY <1>7 DEF AtStar, AtSame
  <2> HIDE DEF t, p, n, star, mark, m
  <2>4. ~FitsFrom(pattern, name, p, m)
    <3>1. CASE p = L + 1
      BY <1>2, <3>1, FitsFromEnd
    <3>2. CASE p # L + 1
      <4>1. p \in 1 .. L /\ p <= L
        BY <1>1, <3>2
      <4>2. QED
        BY <1>2, <2>3, <4>1, FitsFromOne
    <3>3. QED
      BY <3>1, <3>2
  <2>5. IsAfterStar(pattern, t)
    <3>1. mark + 1 >= 1 /\ star + 1 .. (star + 1) - 1 = {} /\ (mark + 1) - (mark + 1) = (star + 1) - (star + 1)
      BY <1>1
    <3>2. QED
      BY <1>3, <2>1, <2>2, <3>1 DEF IsAfterStar
  <2>6. CanFit(pattern, name, t) <=> FitsFrom(pattern, name, star + 1, mark) \/ \E k \in mark + 1 .. N : FitsFrom(pattern, name, star + 1, k)
    <3>1. (mark + 1) - 1 = mark
      BY <1>1
    <3>2. CanFit(pattern, name, t) <=> FitsFrom(pattern, name, star + 1, (mark + 1) - 1) \/ (star # 0 /\ \E k \in mark + 1 .. N : FitsFrom(pattern, name, star + 1, k))
      BY <2>2 DEF CanFit
    <3>3. QED
      BY <2>1, <3>1, <3>2
  <2>7. mark \in mark .. N /\ (\A k \in mark + 1 .. N : k \in mark .. N) /\ \A k \in mark .. N : k = mark \/ k \in mark + 1 .. N
    BY <1>1, <1>2
  <2>8. CanFit(pattern, name, t) <=> Later
    BY <2>1, <2>6, <2>7
  <2> HIDE DEF Later
  <2>9. QED
    BY <1>4, <2>4, <2>5, <2>8 DEF t
<1>8. QED
  BY <1>5, <1>6, <1>7

LEMMA RunFits ==
  ASSUME NEW pattern, Len(pattern) \in Nat, NEW name, Len(name) \in Nat
  PROVE  \A s \in MatchStates(pattern, name) :
           IsAfterStar(pattern, s) => (FitsAtEnd(pattern, name, Run(pattern, name)[s]) <=> CanFit(pattern, name, s))
<1> DEFINE D == MatchStates(pattern, name)
           R == Run(pattern, name)
           Good(s) == IsAfterStar(pattern, s) => (FitsAtEnd(pattern, name, R[s]) <=> CanFit(pattern, name, s))
           A(s) == Ahead(pattern, name, s)
           T == {A(s) : s \in {x \in D : ~Good(x)}}
<1>1. \A s \in D : A(s) \in Nat
  <2> TAKE s \in D
  <2> DEFINE a == Len(pattern) - s.star
             b == Len(name) + 1 - s.mark
             c == Len(name) + 1 - s.n
             w == Len(name) + 2
  <2>1. s.star \in 0 .. Len(pattern) /\ s.mark \in 0 .. Len(name) + 1 /\ s.n \in 1 .. Len(name) + 1
    BY DEF MatchStates
  <2>2. a \in Nat /\ b \in 0 .. w - 1 /\ c \in 0 .. w - 1
    BY <2>1, AheadIs
  <2>3. w \in Nat
    OBVIOUS
  <2> HIDE DEF a, b, c, w
  <2>4. Digits(a, b, c, w) \in Nat
    BY <2>2, <2>3, DigitsType
  <2>5. QED
    BY <2>4 DEF Ahead, a, b, c, w
<1>2. \A s \in D : Good(s)
  <2>1. SUFFICES ASSUME T # {} PROVE FALSE
    <3> HIDE DEF Good, A, D
    <3>1. QED
      OBVIOUS
  <2>2. PICK k \in T : \A l \in T : k <= l
    <3>1. T \in SUBSET Nat
      <4> HIDE DEF Good, A, D
      <4>1. QED
        BY <1>1
    <3> HIDE DEF T
    <3>2. QED
      BY <2>1, <3>1, LeastOf
  <2>3. PICK s \in D : ~Good(s) /\ A(s) = k
    <3> HIDE DEF Good, A, D
    <3>1. QED
      OBVIOUS
  <2>4. \A x \in D : A(x) < A(s) => Good(x)
    <3> TAKE x \in D
    <3> HAVE A(x) < A(s)
    <3>1. A(x) \in Nat /\ A(s) \in Nat
      BY <1>1
    <3> HIDE DEF Good, A, D
    <3>2. ~(A(s) <= A(x))
      BY <3>1
    <3>3. QED
      BY <2>2, <2>3, <3>2
  <2>5. IsAfterStar(pattern, s)
    BY <2>3
  <2>6. R[s] = IF IsOver(pattern, name, s) THEN s ELSE R[NextMatch(pattern, name, s)]
    BY RunIsThere
  <2>7. CASE IsOver(pattern, name, s)
    <3>1. R[s] = s
      BY <2>6, <2>7
    <3>2. FitsAtEnd(pattern, name, s) <=> CanFit(pattern, name, s)
      BY <2>5, <2>7, CanFitOver
    <3> HIDE DEF R
    <3>3. QED
      BY <2>3, <3>1, <3>2
  <2>8. CASE ~IsOver(pattern, name, s)
    <3> DEFINE t == NextMatch(pattern, name, s)
    <3>1. R[s] = R[t]
      BY <2>6, <2>8
    <3>2. t \in D /\ A(t) < A(s)
      BY <2>8, MatchGoesOn
    <3>3. IsAfterStar(pattern, t) /\ (CanFit(pattern, name, t) <=> CanFit(pattern, name, s))
      BY <2>5, <2>8, CanFitNext
    <3>4. Good(t)
      BY <2>4, <3>2
    <3> HIDE DEF R, t, A
    <3>5. QED
      BY <2>3, <3>1, <3>3, <3>4
  <2>9. QED
    BY <2>7, <2>8
<1>3. QED
  BY <1>2

\* A name matches a pattern if and only if it fits.
LEMMA MatchIsFit ==
  ASSUME NEW pattern \in Seq(STRING), NEW name \in Seq(STRING)
  PROVE  GlobMatch(pattern, name) <=> Fits(pattern, name)
<1>1. Len(pattern) \in Nat /\ Len(name) \in Nat
  OBVIOUS
<1>2. Started.p = 1 /\ Started.n = 1 /\ Started.star = 0 /\ Started.mark = 0
  BY DEF Started
<1>3. Started \in MatchStates(pattern, name)
  <2>1. Started = [p |-> Started.p, n |-> Started.n, star |-> Started.star, mark |-> Started.mark]
    BY DEF Started
  <2>2. QED
    BY <1>1, <1>2, <2>1, MatchStateIs
<1>4. IsAfterStar(pattern, Started)
  BY <1>2 DEF IsAfterStar
<1>5. CanFit(pattern, name, Started) <=> FitsFrom(pattern, name, 1, 0)
  <2>1. 1 - 1 = 0
    OBVIOUS
  <2>2. QED
    BY <1>2, <2>1 DEF CanFit
<1>6. FitsAtEnd(pattern, name, Run(pattern, name)[Started]) <=> CanFit(pattern, name, Started)
  BY <1>1, <1>3, <1>4, RunFits
<1>7. QED
  BY <1>5, <1>6, MatchIsRun, FitsIsFitsFrom

\* The newest of the files whose names fit.
FitsHere(dir, glob, i) == ~dir[i].isDir /\ Fits(glob, dir[i].name)
NewestStep(dir, glob, k, i) ==
  IF ~dir[i].isDir /\ GlobMatch(glob, dir[i].name) /\ (k = 0 \/ dir[i].time > dir[k].time) THEN i ELSE k
IsFoundIn(f, dir, glob) == f = [i \in 0..Len(dir) |-> IF i = 0 THEN 0 ELSE NewestStep(dir, glob, f[i - 1], i)]
FoundIn(dir, glob) == CHOOSE f : IsFoundIn(f, dir, glob)
NewestIn(dir, fitting) ==
  CHOOSE i \in fitting : \A j \in fitting : dir[i].time > dir[j].time \/ (dir[i].time = dir[j].time /\ i <= j)

LEMMA NewestIsFound ==
  ASSUME NEW dir, NEW glob
  PROVE  /\ FindNewestMatching(dir, glob) =
              IF FoundIn(dir, glob)[Len(dir)] = 0 THEN NoFile ELSE dir[FoundIn(dir, glob)[Len(dir)]]
         /\ NewestIsExact(dir, glob) <=>
              LET fitting == {i \in DOMAIN dir : FitsHere(dir, glob, i)} IN
              FindNewestMatching(dir, glob) = IF fitting = {} THEN NoFile ELSE dir[NewestIn(dir, fitting)]
<1>1. FindNewestMatching(dir, glob) =
              IF FoundIn(dir, glob)[Len(dir)] = 0 THEN NoFile ELSE dir[FoundIn(dir, glob)[Len(dir)]]
  BY Zenon DEF FindNewestMatching, FoundIn, IsFoundIn, NewestStep
<1>2. NewestIsExact(dir, glob) <=>
              LET fitting == {i \in DOMAIN dir : FitsHere(dir, glob, i)} IN
              FindNewestMatching(dir, glob) = IF fitting = {} THEN NoFile ELSE dir[NewestIn(dir, fitting)]
  BY Zenon DEF NewestIsExact, FitsHere, NewestIn
<1>3. QED
  BY <1>1, <1>2, Zenon

\* k is the newest of the first i that fit, 0 if none does.
IsNewest(T, time, k, i) ==
  \/ k = 0 /\ \A j \in 1..i : j \notin T
  \/ /\ k \in 1..i /\ k \in T
     /\ \A j \in 1..i : j \in T => time[k] > time[j] \/ (time[k] = time[j] /\ k <= j)

LEMMA NewestNext ==
  ASSUME NEW n \in Nat, NEW T, NEW time \in [1 .. n -> Nat], NEW i \in 1 .. n, NEW k, IsNewest(T, time, k, i - 1)
  PROVE  IsNewest(T, time, IF i \in T /\ (k = 0 \/ time[i] > time[k]) THEN i ELSE k, i)
<1>1. \A j \in 1 .. i : j = i \/ j \in 1 .. i - 1
  OBVIOUS
<1>2. \A j \in 1 .. i - 1 : j \in 1 .. i /\ j \in 1 .. n
  OBVIOUS
<1>3. i \in 1 .. i /\ i <= i /\ \A j \in 1 .. i : time[j] \in Nat
  OBVIOUS
<1>4. CASE k = 0 /\ \A j \in 1 .. i - 1 : j \notin T
  <2>1. CASE i \in T
    <3>1. \A j \in 1 .. i : j \in T => j = i
      BY <1>1, <1>4
    <3>2. QED
      BY <1>3, <1>4, <2>1, <3>1 DEF IsNewest
  <2>2. CASE i \notin T
    BY <1>1, <1>4, <2>2 DEF IsNewest
  <2>3. QED
    BY <2>1, <2>2
<1>5. CASE /\ k \in 1 .. i - 1 /\ k \in T
           /\ \A j \in 1 .. i - 1 : j \in T => time[k] > time[j] \/ (time[k] = time[j] /\ k <= j)
  <2>0. k # 0 /\ k \in 1 .. i /\ k <= i /\ time[k] \in Nat /\ time[i] \in Nat
    BY <1>3, <1>5
  <2>1. CASE i \in T /\ time[i] > time[k]
    <3>1. \A j \in 1 .. i : j \in T => time[i] > time[j] \/ (time[i] = time[j] /\ i <= j)
      <4> TAKE j \in 1 .. i
      <4> HAVE j \in T
      <4>1. CASE j = i
        BY <1>3, <4>1
      <4>2. CASE j # i
        <5>1. time[k] > time[j] \/ time[k] = time[j]
          BY <1>1, <1>5, <4>2
        <5>2. time[j] \in Nat
          BY <1>3
        <5>3. time[i] > time[j]
          BY <2>0, <2>1, <5>1, <5>2
        <5>4. QED
          BY <5>3
      <4>3. QED
        BY <4>1, <4>2
    <3>2. QED
      BY <1>3, <2>0, <2>1, <3>1 DEF IsNewest
  <2>2. CASE ~(i \in T /\ time[i] > time[k])
    <3>1. \A j \in 1 .. i : j \in T => time[k] > time[j] \/ (time[k] = time[j] /\ k <= j)
      <4> TAKE j \in 1 .. i
      <4> HAVE j \in T
      <4>1. CASE j = i
        <5>1. time[k] > time[i] \/ time[k] = time[i]
          BY <2>0, <2>2, <4>1
        <5>2. QED
          BY <2>0, <4>1, <5>1
      <4>2. CASE j # i
        BY <1>1, <1>5, <4>2
      <4>3. QED
        BY <4>1, <4>2
    <3>2. QED
      BY <1>5, <2>0, <2>2, <3>1 DEF IsNewest
  <2>3. QED
    BY <2>1, <2>2
<1>6. QED
  BY <1>4, <1>5 DEF IsNewest

LEMMA NewestExact ==
  ASSUME NEW dir \in Seq([name : Seq(STRING), time : Nat, isDir : BOOLEAN]), NEW glob \in Seq(STRING)
  PROVE  NewestIsExact(dir, glob)
<1> DEFINE n == Len(dir)
           T == {i \in DOMAIN dir : FitsHere(dir, glob, i)}
           time == [i \in 1 .. n |-> dir[i].time]
           G == FoundIn(dir, glob)
           S == 0 .. n
           step == [x \in S \X (1 .. n) |-> NewestStep(dir, glob, x[1], x[2])]
<1>1. n \in Nat /\ DOMAIN dir = 1 .. n /\ \A i \in 1 .. n : dir[i].name \in Seq(STRING) /\ dir[i].time \in Nat
  <2> DEFINE E == [name : Seq(STRING), time : Nat, isDir : BOOLEAN]
  <2>1. \A x \in E : x.name \in Seq(STRING) /\ x.time \in Nat
    OBVIOUS
  <2>2. dir \in Seq(E)
    OBVIOUS
  <2> HIDE DEF E
  <2>3. n \in Nat /\ DOMAIN dir = 1 .. n /\ \A i \in 1 .. n : dir[i] \in E
    BY <2>2
  <2>4. QED
    BY <2>1, <2>3
<1>2. \A i \in 1 .. n : (~dir[i].isDir /\ GlobMatch(glob, dir[i].name)) <=> i \in T
  <2>1. \A i \in 1 .. n : GlobMatch(glob, dir[i].name) <=> Fits(glob, dir[i].name)
    BY <1>1, MatchIsFit
  <2>2. QED
    BY <1>1, <2>1, Zenon DEF FitsHere
<1>3. time \in [1 .. n -> Nat] /\ \A i \in 1 .. n : time[i] = dir[i].time
  BY <1>1
<1>4. \A k \in S, i \in 1 .. n : NewestStep(dir, glob, k, i) = IF i \in T /\ (k = 0 \/ time[i] > time[k]) THEN i ELSE k
  <2> TAKE k \in S, i \in 1 .. n
  <2>1. NewestStep(dir, glob, k, i) = IF i \in T /\ (k = 0 \/ dir[i].time > dir[k].time) THEN i ELSE k
    <3> HIDE DEF T
    <3>1. QED
      BY <1>2, Zenon DEF NewestStep
  <2>2. k = 0 \/ k \in 1 .. n
    BY <1>1
  <2> HIDE DEF T, time
  <2>3. (k = 0 \/ dir[i].time > dir[k].time) <=> (k = 0 \/ time[i] > time[k])
    BY <1>3, <2>2
  <2>4. QED
    BY <2>1, <2>3
<1> HIDE DEF T, time
<1>5. 0 \in S /\ \A k \in S, i \in 1 .. n : step[<<k, i>>] = NewestStep(dir, glob, k, i) /\ step[<<k, i>>] \in S
  <2>1. \A k \in S, i \in 1 .. n : NewestStep(dir, glob, k, i) \in S
    <3> TAKE k \in S, i \in 1 .. n
    <3>1. i \in S
      BY <1>1
    <3>2. NewestStep(dir, glob, k, i) = IF i \in T /\ (k = 0 \/ time[i] > time[k]) THEN i ELSE k
      BY <1>4
    <3> HIDE DEF S
    <3>3. QED
      BY <3>1, <3>2, Zenon
  <2>2. 0 \in S
    BY <1>1
  <2> HIDE DEF S
  <2>3. \A k \in S, i \in 1 .. n : step[<<k, i>>] = NewestStep(dir, glob, k, i)
    OBVIOUS
  <2> HIDE DEF step
  <2>4. QED
    BY <2>1, <2>2, <2>3
<1> HIDE DEF step, S
<1>6. PICK f : Steps(f, n, 0, step) /\ f \in [0 .. n -> S]
  BY <1>1, <1>5, StepsAreThere
<1>7. f = [i \in 0..n |-> IF i = 0 THEN 0 ELSE step[<<f[i - 1], i>>]]
  BY <1>6 DEF Steps
<1>8. \A i \in 0 .. n : i # 0 => step[<<f[i - 1], i>>] = NewestStep(dir, glob, f[i - 1], i)
  <2> TAKE i \in 0 .. n
  <2> HAVE i # 0
  <2>1. i - 1 \in 0 .. n /\ i \in 1 .. n
    BY <1>1
  <2>2. f[i - 1] \in S
    BY <1>6, <2>1
  <2>3. QED
    BY <1>5, <2>1, <2>2
<1>9. f = [i \in 0..n |-> IF i = 0 THEN 0 ELSE NewestStep(dir, glob, f[i - 1], i)]
  BY <1>7, <1>8
<1>10. IsFoundIn(f, dir, glob)
  BY <1>9, Zenon DEF IsFoundIn
<1>11. IsFoundIn(G, dir, glob)
  BY <1>10, Zenon DEF FoundIn
<1>12. G = [i \in 0..n |-> IF i = 0 THEN 0 ELSE NewestStep(dir, glob, G[i - 1], i)]
  BY <1>11, Zenon DEF IsFoundIn
<1> HIDE DEF G
<1>13. G[0] = 0 /\ \A i \in 1 .. n : G[i] = NewestStep(dir, glob, G[i - 1], i)
  <2>1. 0 \in 0 .. n /\ \A i \in 1 .. n : i \in 0 .. n /\ i # 0
    BY <1>1
  <2>2. QED
    BY <1>12, <2>1, Zenon
<1> DEFINE Good(i) == G[i] \in S /\ IsNewest(T, time, G[i], i)
<1>14. \A i \in 0 .. n : Good(i)
  <2> DEFINE U == {i \in 0 .. n : ~Good(i)}
  <2>1. SUFFICES ASSUME U # {} PROVE FALSE
    OBVIOUS
  <2>2. PICK i \in U : \A l \in U : i <= l
    <3>1. U \in SUBSET Nat
      OBVIOUS
    <3> HIDE DEF U
    <3>2. QED
      BY <2>1, <3>1, LeastOf
  <2>3. i \in 0 .. n /\ ~Good(i)
    OBVIOUS
  <2>4. i # 0
    <3>1. 1 .. 0 = {}
      OBVIOUS
    <3>2. IsNewest(T, time, 0, 0)
      BY <3>1 DEF IsNewest
    <3>3. QED
      BY <1>5, <1>13, <2>3, <3>2
  <2>5. i - 1 \in 0 .. n /\ i \in 1 .. n /\ ~(i <= i - 1)
    BY <1>1, <2>3, <2>4
  <2>6. Good(i - 1)
    BY <2>2, <2>5
  <2> DEFINE k == G[i - 1]
             l == IF i \in T /\ (k = 0 \/ time[i] > time[k]) THEN i ELSE k
  <2>7. k \in S /\ IsNewest(T, time, k, i - 1)
    BY <2>6
  <2>8. G[i] = NewestStep(dir, glob, k, i)
    BY <1>13, <2>5
  <2> HIDE DEF k
  <2>9. G[i] = l /\ G[i] \in S
    BY <1>4, <1>5, <2>5, <2>7, <2>8
  <2>10. IsNewest(T, time, l, i)
    BY <1>1, <1>3, <2>5, <2>7, NewestNext
  <2> HIDE DEF l
  <2>11. QED
    BY <2>3, <2>9, <2>10
<1> DEFINE k == G[n]
<1>15. IsNewest(T, time, k, n)
  <2>1. n \in 0 .. n
    BY <1>1
  <2>2. QED
    BY <1>14, <2>1
<1>16. FindNewestMatching(dir, glob) = IF k = 0 THEN NoFile ELSE dir[k]
  BY NewestIsFound, Zenon DEF G
<1>17. NewestIsExact(dir, glob) <=> FindNewestMatching(dir, glob) = IF T = {} THEN NoFile ELSE dir[NewestIn(dir, T)]
  BY NewestIsFound, Zenon DEF T
<1>18. \A i \in T : i \in 1 .. n
  BY <1>1 DEF T
<1> HIDE DEF k
<1>19. CASE k = 0 /\ \A j \in 1 .. n : j \notin T
  <2>1. T = {}
    BY <1>18, <1>19
  <2>2. QED
    BY <1>16, <1>17, <1>19, <2>1
<1>20. CASE /\ k \in 1 .. n /\ k \in T
            /\ \A j \in 1 .. n : j \in T => time[k] > time[j] \/ (time[k] = time[j] /\ k <= j)
  <2> DEFINE Newer(i, j) == dir[i].time > dir[j].time \/ (dir[i].time = dir[j].time /\ i <= j)
             c == NewestIn(dir, T)
  <2>1. \A j \in T : Newer(k, j)
    BY <1>3, <1>18, <1>20
  <2>2. c = CHOOSE i \in T : \A j \in T : Newer(i, j)
    BY Zenon DEF NewestIn
  <2> HIDE DEF Newer, c
  <2>3. c \in T /\ \A j \in T : Newer(c, j)
    BY <1>20, <2>1, <2>2, Zenon
  <2>4. Newer(c, k) /\ Newer(k, c) /\ c \in 1 .. n
    BY <1>18, <1>20, <2>1, <2>3
  <2>5. c = k
    <3> DEFINE x == dir[c].time
               y == dir[k].time
    <3>1. x \in Nat /\ y \in Nat
      BY <1>1, <1>20, <2>4
    <3>2. x > y \/ (x = y /\ c <= k)
      BY <2>4 DEF Newer
    <3>3. y > x \/ (y = x /\ k <= c)
      BY <2>4 DEF Newer
    <3> HIDE DEF x, y
    <3>4. QED
      BY <1>20, <2>4, <3>1, <3>2, <3>3
  <2>6. k # 0 /\ T # {}
    BY <1>20
  <2>7. QED
    BY <1>16, <1>17, <2>5, <2>6 DEF c
<1>21. QED
  BY <1>15, <1>19, <1>20 DEF IsNewest

----------------------------------------------------------------------------
\* A log, or a directory, that was picked is one of those that are looked at.
PickedLog == /\ Of("log") => \E l \in Logs : input = <<l>>
             /\ Of("dir") => \E d \in Dirs : input = <<d>>

LEMMA PickedLogHolds == MCSpec => []PickedLog
<1>1. MCInit => PickedLog
  BY DEF MCInit, PickedLog, Of
<1>2. PickedLog /\ [Pick \/ SessionStep \/ FolderStep]_<<inputVars, historyVars, folderVars>> => PickedLog'
  <2> SUFFICES ASSUME PickedLog, [Pick \/ SessionStep \/ FolderStep]_<<inputVars, historyVars, folderVars>>
               PROVE  PickedLog'
    OBVIOUS
  <2>1. CASE Pick
    <3>1. subject' = subject /\ input' \in {<<i>> : i \in Inputs}
      BY <2>1 DEF Pick
    <3>2. ASSUME subject = "log" PROVE Inputs = Logs
      BY <3>2, Zenon DEF Inputs
    <3>3. ASSUME subject = "dir" PROVE Inputs = Dirs
      BY <3>3, Zenon DEF Inputs
    <3>4. QED
      BY <3>1, <3>2, <3>3 DEF PickedLog, Of
  <2>2. CASE UNCHANGED inputVars
    BY <2>2 DEF inputVars, PickedLog, Of
  <2>3. QED
    BY <2>1, <2>2 DEF SessionStep, FolderStep
<1>3. QED
  BY <1>1, <1>2, PTL DEF MCSpec

\* The end of a log in a report is the last lines of it, in whole lines, for any log and any limits.
THEOREM TailsAreOfTheLog == MCSpec => []TailsAreExact
<1>1. PickedLog => TailsAreExact
  <2> SUFFICES ASSUME PickedLog, Of("log"), NEW maxBytes \in ByteLimits, NEW maxLines \in LineLimits
               PROVE  TailIsExact(input[1], maxBytes, maxLines)
    BY DEF TailsAreExact
  <2>1. PICK l \in Logs : input = <<l>>
    BY DEF PickedLog
  <2>2. input[1] = l
    BY <2>1
  <2>3. l \in Texts /\ maxBytes \in Nat /\ maxLines \in Nat
    BY LogsAssumption, Zenon DEF Texts
  <2>4. QED
    BY <2>2, <2>3, TailExact
<1>2. QED
  BY <1>1, PickedLogHolds, PTL

\* The lines from around a crash are those whose last time stamp is in the window, for any log and
\* any window.
THEOREM WindowsAreOfTheCrash == MCSpec => []WindowsAreExact
<1>1. PickedLog => WindowsAreExact
  <2> SUFFICES ASSUME PickedLog, Of("log"), NEW window \in Windows, NEW maxLines \in LineLimits
               PROVE  WindowIsExact(input[1], window[1], window[2], maxLines)
    BY DEF WindowsAreExact
  <2>1. PICK l \in Logs : input = <<l>>
    BY DEF PickedLog
  <2>2. input[1] = l
    BY <2>1
  <2>3. l \in Texts
    BY LogsAssumption, Zenon DEF Texts
  <2>4. WindowIsExact(l, window[1], window[2], maxLines)
    BY <2>3, WindowExact, Zenon
  <2>5. QED
    BY <2>2, <2>4
<1>2. QED
  BY <1>1, PickedLogHolds, PTL

\* The match with one star to go back to finds every way a name can fit, and the log that is shown
\* is the newest that does, for any directory and any pattern.
THEOREM LogIsTheNewest == MCSpec => []NewestLogIsFound
<1>1. PickedLog => NewestLogIsFound
  <2> SUFFICES ASSUME PickedLog, Of("dir")
               PROVE  NewestIsExact(input[1][1], input[1][2])
    BY DEF NewestLogIsFound
  <2>1. PICK d \in Dirs : input = <<d>>
    BY DEF PickedLog
  <2>2. input[1] = d
    BY <2>1
  <2>3. d[1] \in Seq([name : Seq(STRING), time : Nat, isDir : BOOLEAN]) /\ d[2] \in Seq(STRING)
    BY LogsAssumption, Zenon
  <2>4. NewestIsExact(d[1], d[2])
    BY <2>3, NewestExact, Zenon
  <2>5. QED
    BY <2>2, <2>4
<1>2. QED
  BY <1>1, PickedLogHolds, PTL

\* What a report shows of the logs: the tails, the windows and the choice of the file, for any logs
\* and directories.
THEOREM LogsAreShown == MCSpec => []LogsAreExact
<1>1. TailsAreExact /\ WindowsAreExact /\ NewestLogIsFound => LogsAreExact
  BY DEF LogsAreExact
<1>2. QED
  BY <1>1, TailsAreOfTheLog, WindowsAreOfTheCrash, LogIsTheNewest, PTL
=============================================================================
