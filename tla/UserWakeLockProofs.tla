------------------------- MODULE UserWakeLockProofs -------------------------
(* Proofs about the wake locks of user space, for every set of names and   *)
(* time-outs, on top of those about the core.                              *)
EXTENDS UserWakeLock, WakeLockProofs, WellFoundedInduction,
        SequenceTheorems

-----------------------------------------------------------------------------
(* The order of names.                                                     *)

\* A set of positions that is not empty has a first one.
LEMMA FirstIn ==
  ASSUME NEW S \in SUBSET Nat, S # {}
  PROVE  \E i \in S : \A j \in S : i <= j
<1>1. PICK i \in S : \A j \in S : ~(<<j, i>> \in OpToRel(<, Nat))
  BY NatLessThanWellFounded, WFMin
<1>2. \A j \in S : ~(j < i)
  BY <1>1 DEF OpToRel
<1> QED
  BY <1>2

LEMMA NameType ==
  ASSUME NEW a \in Names
  PROVE  /\ a \in Seq(Nat \ {0}) /\ Len(a) \in Nat
         /\ \A i \in 1 .. Len(a) : a[i] \in Nat \ {0}
BY NamesAssumption DEF Names

\* Two names of the same length and characters are the same.
LEMMA SameName ==
  ASSUME NEW a \in Names, NEW b \in Names, Len(a) = Len(b),
         \A i \in 1 .. Len(a) : a[i] = b[i]
  PROVE  a = b
BY NameType, SeqEqual

\* What the search goes by is the order of strings.
LEMMA CompareOrder ==
  ASSUME NEW a \in Names, NEW b \in Names
  PROVE  /\ Compare(a, b) \in Int
         /\ Compare(a, b) = 0 => a = b
         /\ Compare(a, b) < 0 => Smaller(a, b)
         /\ Compare(a, b) > 0 => Smaller(b, a)
<1> DEFINE differ == {i \in 1 .. Len(a) : a[i] # At(b, i)}
           first == CHOOSE i \in differ : \A j \in differ : i <= j
<1>1. /\ Len(a) \in Nat /\ \A i \in 1 .. Len(a) : a[i] \in Nat \ {0}
      /\ Len(b) \in Nat /\ \A i \in 1 .. Len(b) : b[i] \in Nat \ {0}
  BY NameType
<1>2. \A i \in 1 .. Len(a) : a[i] = At(b, i) => i <= Len(b) /\ a[i] = b[i]
  BY <1>1 DEF At
<1>3. CASE differ = {}
  <2>1. \A i \in 1 .. Len(a) : i <= Len(b) /\ a[i] = b[i]
    BY <1>2, <1>3
  <2>2. Len(a) <= Len(b)
    BY <1>1, <2>1
  <2>3. Compare(a, b) = IF At(b, Len(a) + 1) # 0 THEN -1 ELSE 0
    BY <1>3 DEF Compare
  <2>4. CASE At(b, Len(a) + 1) # 0
    <3>1. Len(a) + 1 \in 1 .. Len(b)
      BY <1>1, <2>4 DEF At
    <3>2. Smaller(a, b)
      BY <1>1, <2>1, <3>1 DEF Smaller
    <3> QED
      BY <2>3, <2>4, <3>2
  <2>5. CASE At(b, Len(a) + 1) = 0
    <3>1. Len(a) = Len(b)
      BY <1>1, <2>2, <2>5 DEF At
    <3>2. a = b
      BY <2>1, <3>1, SameName
    <3> QED
      BY <2>3, <2>5, <3>2
  <2> QED
    BY <2>4, <2>5
<1>4. CASE differ # {}
  <2>1. first \in differ /\ \A j \in differ : first <= j
    <3>1. differ \in SUBSET Nat
      BY <1>1
    <3> QED
      BY <1>4, <3>1, FirstIn
  <2>2. Compare(a, b) = a[first] - At(b, first)
    BY <1>4 DEF Compare
  <2> HIDE DEF first
  <2>3. first \in 1 .. Len(a) /\ a[first] # At(b, first)
    BY <2>1
  <2>4. \A j \in 1 .. (first - 1) : j <= Len(a) /\ j <= Len(b) /\ a[j] = b[j]
    <3> TAKE j \in 1 .. (first - 1)
    <3>1. j \in 1 .. Len(a) /\ ~(first <= j)
      BY <1>1, <2>3
    <3>2. a[j] = At(b, j)
      BY <2>1, <3>1
    <3> QED
      BY <1>2, <3>1, <3>2
  <2> HIDE DEF differ
  <2>5. CASE first <= Len(b)
    <3>1. At(b, first) = b[first] /\ a[first] \in Nat /\ b[first] \in Nat
      BY <1>1, <2>3, <2>5 DEF At
    <3>2. a[first] < b[first] => Smaller(a, b)
      BY <1>1, <2>3, <2>4, <2>5 DEF Smaller
    <3>3. b[first] < a[first] => Smaller(b, a)
      BY <1>1, <2>3, <2>4, <2>5 DEF Smaller
    <3> QED
      BY <2>2, <2>3, <3>1, <3>2, <3>3
  <2>6. CASE first > Len(b)
    <3>1. At(b, first) = 0 /\ a[first] \in Nat \ {0}
      BY <1>1, <2>3, <2>6 DEF At
    <3>2. first = Len(b) + 1
      <4>1. first - 1 <= Len(b)
        BY <1>1, <2>3, <2>4
      <4> QED
        BY <1>1, <2>3, <2>6, <4>1
    <3>3. Smaller(b, a)
      BY <2>3, <2>4, <3>2 DEF Smaller
    <3> QED
      BY <2>2, <3>1, <3>3
  <2> QED
    BY <1>1, <2>3, <2>5, <2>6
<1> QED
  BY <1>3, <1>4

\* A name is found where it is.
LEMMA CompareSelf ==
  ASSUME NEW a \in Names
  PROVE  Compare(a, a) = 0
BY NameType DEF Compare, At

LEMMA SmallerTransitive ==
  ASSUME NEW a \in Names, NEW b \in Names, NEW c \in Names,
         Smaller(a, b), Smaller(b, c)
  PROVE  Smaller(a, c)
<1>1. /\ Len(a) \in Nat /\ \A i \in 1 .. Len(a) : a[i] \in Nat
      /\ Len(b) \in Nat /\ \A i \in 1 .. Len(b) : b[i] \in Nat
      /\ Len(c) \in Nat /\ \A i \in 1 .. Len(c) : c[i] \in Nat
  BY NameType
<1>2. PICK i \in 1 .. Len(b) :
        /\ \A m \in 1 .. (i - 1) : m <= Len(a) /\ a[m] = b[m]
        /\ i = Len(a) + 1 \/ (i <= Len(a) /\ a[i] < b[i])
  BY DEF Smaller
<1>3. PICK j \in 1 .. Len(c) :
        /\ \A m \in 1 .. (j - 1) : m <= Len(b) /\ b[m] = c[m]
        /\ j = Len(b) + 1 \/ (j <= Len(b) /\ b[j] < c[j])
  BY DEF Smaller
<1>4. CASE i < j
  <2>1. i \in 1 .. Len(c) /\ b[i] = c[i]
    BY <1>1, <1>2, <1>3, <1>4
  <2>2. \A m \in 1 .. (i - 1) : m <= Len(a) /\ a[m] = c[m]
    BY <1>1, <1>2, <1>3, <1>4
  <2> QED
    BY <1>2, <2>1, <2>2 DEF Smaller
<1>5. CASE i = j
  <2>1. b[j] < c[j]
    BY <1>1, <1>2, <1>3, <1>5
  <2>2. \A m \in 1 .. (j - 1) : m <= Len(a) /\ a[m] = c[m]
    BY <1>1, <1>2, <1>3, <1>5
  <2>3. j = Len(a) + 1 \/ (j <= Len(a) /\ a[j] < c[j])
    BY <1>1, <1>2, <1>3, <1>5, <2>1
  <2> QED
    BY <2>2, <2>3 DEF Smaller
<1>6. CASE i > j
  <2>1. j <= Len(a) /\ a[j] = b[j] /\ b[j] < c[j]
    BY <1>1, <1>2, <1>3, <1>6
  <2>2. \A m \in 1 .. (j - 1) : m <= Len(a) /\ a[m] = c[m]
    BY <1>1, <1>2, <1>3, <1>6
  <2> QED
    BY <2>1, <2>2 DEF Smaller
<1> QED
  BY <1>1, <1>4, <1>5, <1>6

-----------------------------------------------------------------------------
(* The tree.                                                               *)

InTree(n) == \E i \in 1 .. Len(user_wake_locks) : user_wake_locks[i] = n

Sorted ==
  \A i, j \in 1 .. Len(user_wake_locks) :
    i < j => Smaller(user_wake_locks[i], user_wake_locks[j])

\* A lookup finds the name itself, if it is there.
LEMMA FoundIsName ==
  ASSUME NEW buf \in Names
  PROVE  Found(buf) = {n \in {buf} : InTree(n)}
BY CompareOrder, CompareSelf DEF Found, InTree

LEMMA DescentPosition ==
  ASSUME user_wake_locks \in Seq(Names), NEW buf \in Names, Found(buf) = {}
  PROVE  /\ Descent(buf) \in 1 .. (Len(user_wake_locks) + 1)
         /\ \A j \in 1 .. Len(user_wake_locks) :
              j < Descent(buf) => Smaller(user_wake_locks[j], buf)
         /\ Descent(buf) <= Len(user_wake_locks) =>
              Smaller(buf, user_wake_locks[Descent(buf)])
<1> DEFINE list == user_wake_locks
           greater == {i \in 1 .. Len(list) : Compare(buf, list[i]) < 0}
           first == CHOOSE i \in greater : \A j \in greater : i <= j
<1>1. Len(list) \in Nat /\ \A i \in 1 .. Len(list) : list[i] \in Names
  OBVIOUS
<1>2. \A i \in 1 .. Len(list) :
        /\ Compare(buf, list[i]) \in Int
        /\ Compare(buf, list[i]) # 0
        /\ Compare(buf, list[i]) < 0 => Smaller(buf, list[i])
        /\ Compare(buf, list[i]) > 0 => Smaller(list[i], buf)
  BY <1>1, CompareOrder DEF Found
<1>3. Descent(buf) = IF greater = {} THEN Len(list) + 1 ELSE first
  BY DEF Descent
<1>4. CASE greater = {}
  BY <1>1, <1>2, <1>3, <1>4
<1>5. CASE greater # {}
  <2>1. greater \in SUBSET Nat
    BY <1>1
  <2>2. first \in greater /\ \A j \in greater : first <= j
    BY <1>5, <2>1, FirstIn
  <2> HIDE DEF first
  <2>3. \A j \in 1 .. Len(list) : j < first => Compare(buf, list[j]) > 0
    BY <1>1, <1>2, <2>1, <2>2
  <2> QED
    BY <1>1, <1>2, <1>3, <1>5, <2>2, <2>3
<1> QED
  BY <1>4, <1>5

LEMMA InsertType ==
  ASSUME user_wake_locks \in Seq(Names), NEW buf \in Names, Found(buf) = {},
         user_wake_locks' = rb_insert(buf)
  PROVE  /\ user_wake_locks' \in Seq(Names)
         /\ Len(user_wake_locks') = Len(user_wake_locks) + 1
<1> DEFINE list == user_wake_locks
           d == Descent(buf)
<1>1. d \in 1 .. (Len(list) + 1)
  BY DescentPosition
<1>2. list' = [j \in 1 .. (Len(list) + 1) |->
                 IF j < d THEN list[j] ELSE IF j = d THEN buf ELSE list[j - 1]]
  BY DEF rb_insert
<1> HIDE DEF d
<1>3. Len(list) \in Nat /\ \A i \in 1 .. Len(list) : list[i] \in Names
  OBVIOUS
<1>4. \A j \in 1 .. (Len(list) + 1) : list'[j] \in Names
  BY <1>1, <1>2, <1>3
<1>5. list' \in [1 .. (Len(list) + 1) -> Names]
  BY <1>2, <1>4
<1>6. Len(list) + 1 \in Nat
  BY <1>3
<1> QED
  BY <1>5, <1>6

\* Linking a new name keeps the tree a search tree.
LEMMA InsertName ==
  ASSUME user_wake_locks \in Seq(Names), Sorted, NEW buf \in Names,
         Found(buf) = {}, user_wake_locks' = rb_insert(buf)
  PROVE  /\ Sorted'
         /\ \A n \in Names : InTree(n)' <=> InTree(n) \/ n = buf
<1> DEFINE list == user_wake_locks
           d == Descent(buf)
<1>1. /\ d \in 1 .. (Len(list) + 1)
      /\ \A j \in 1 .. Len(list) : j < d => Smaller(list[j], buf)
      /\ d <= Len(list) => Smaller(buf, list[d])
  BY DescentPosition
<1>2. list' = [j \in 1 .. (Len(list) + 1) |->
                 IF j < d THEN list[j] ELSE IF j = d THEN buf ELSE list[j - 1]]
  BY DEF rb_insert
<1> HIDE DEF d
<1>3. Len(list) \in Nat /\ \A i \in 1 .. Len(list) : list[i] \in Names
  OBVIOUS
<1>4. \A j \in 1 .. (Len(list) + 1) : j > d => j - 1 \in 1 .. Len(list)
  BY <1>1, <1>3
<1>5. \A j \in 1 .. (Len(list) + 1) : j < d => j \in 1 .. Len(list)
  BY <1>1, <1>3
<1>6. Len(list') = Len(list) + 1
  BY InsertType
<1>7. \A j \in 1 .. Len(list) : d <= j => Smaller(buf, list[j])
  <2> SUFFICES ASSUME NEW j \in 1 .. Len(list), d <= j
               PROVE  Smaller(buf, list[j])
    OBVIOUS
  <2>1. d \in 1 .. Len(list) /\ Smaller(buf, list[d])
    BY <1>1, <1>3
  <2>2. d < j => Smaller(list[d], list[j])
    BY <2>1 DEF Sorted
  <2>3. d < j => Smaller(buf, list[j])
    BY <1>3, <2>1, <2>2, SmallerTransitive
  <2> QED
    BY <1>1, <1>3, <2>1, <2>3
<1>8. Sorted'
  <2> SUFFICES ASSUME NEW i \in 1 .. Len(list'), NEW j \in 1 .. Len(list'), i < j
               PROVE  Smaller(list'[i], list'[j])
    BY DEF Sorted
  <2>1. i \in 1 .. (Len(list) + 1) /\ j \in 1 .. (Len(list) + 1)
    BY <1>6
  <2>2. CASE j < d
    BY <1>1, <1>2, <1>3, <1>5, <2>1, <2>2 DEF Sorted
  <2>3. CASE j = d
    BY <1>1, <1>2, <1>3, <1>5, <2>1, <2>3
  <2>4. CASE j > d /\ i < d
    <3>1. /\ list'[i] = list[i] /\ list'[j] = list[j - 1]
          /\ i \in 1 .. Len(list) /\ j - 1 \in 1 .. Len(list) /\ i < j - 1
      BY <1>1, <1>2, <1>3, <1>4, <1>5, <2>1, <2>4
    <3> QED
      BY <3>1 DEF Sorted
  <2>5. CASE j > d /\ i = d
    <3>1. /\ list'[i] = buf /\ list'[j] = list[j - 1]
          /\ j - 1 \in 1 .. Len(list) /\ d <= j - 1
      BY <1>1, <1>2, <1>3, <1>4, <2>1, <2>5
    <3> QED
      BY <1>7, <3>1
  <2>6. CASE j > d /\ i > d
    <3>1. /\ list'[i] = list[i - 1] /\ list'[j] = list[j - 1]
          /\ i - 1 \in 1 .. Len(list) /\ j - 1 \in 1 .. Len(list)
          /\ i - 1 < j - 1
      BY <1>1, <1>2, <1>3, <1>4, <2>1, <2>6
    <3> QED
      BY <3>1 DEF Sorted
  <2> QED
    BY <1>1, <1>3, <2>1, <2>2, <2>3, <2>4, <2>5, <2>6
<1>9. ASSUME NEW n \in Names
       PROVE  InTree(n)' <=> InTree(n) \/ n = buf
  <2>1. ASSUME NEW i \in 1 .. Len(list'), list'[i] = n
        PROVE  InTree(n) \/ n = buf
    BY <1>1, <1>2, <1>3, <1>4, <1>5, <1>6, <2>1 DEF InTree
  <2>2. ASSUME NEW i \in 1 .. Len(list), list[i] = n
        PROVE  InTree(n)'
    <3>1. /\ i < d => i \in 1 .. Len(list') /\ list'[i] = n
          /\ d <= i => i + 1 \in 1 .. Len(list') /\ list'[i + 1] = n
      BY <1>1, <1>2, <1>3, <1>6, <2>2
    <3> QED
      BY <1>1, <1>3, <3>1 DEF InTree
  <2>3. d \in 1 .. Len(list') /\ list'[d] = buf
    BY <1>1, <1>2, <1>3, <1>6
  <2> QED
    BY <2>1, <2>2, <2>3 DEF InTree
<1> QED
  BY <1>8, <1>9

-----------------------------------------------------------------------------
(* Nanoseconds and jiffies.                                                *)

LEMMA ToLongRange ==
  ASSUME NEW j \in Int
  PROVE  ToLong(j) \in -H .. (H - 1)
<1>1. 2 * H \in Nat \ {0} /\ j + H \in Int
  BY TimeAssumption
<1>2. (j + H) % (2 * H) \in 0 .. (2 * H - 1)
  BY <1>1
<1> QED
  BY <1>2, TimeAssumption DEF ToLong

\* What fits a long stays what it is.
LEMMA ToLongFits ==
  ASSUME NEW j \in 0 .. (H - 1)
  PROVE  ToLong(j) = j
<1>1. j + H \in 0 .. (2 * H - 1) /\ 2 * H \in Nat \ {0}
  BY TimeAssumption
<1>2. (j + H) % (2 * H) = j + H
  BY <1>1
<1> QED
  BY <1>2, TimeAssumption DEF ToLong

LEMMA Quotient ==
  ASSUME NEW m \in Nat, NEW n \in Nat \ {0}
  PROVE  /\ m \div n \in Nat
         /\ (m \div n) * n <= m /\ m < (m \div n) * n + n
OBVIOUS

LEMMA Times ==
  ASSUME NEW j \in Nat, NEW k \in Nat, j <= k, NEW n \in Nat
  PROVE  j * n \in Nat /\ k * n \in Nat /\ j * n <= k * n
OBVIOUS

LEMMA TimesLess ==
  ASSUME NEW j \in Nat, NEW k \in Nat, j < k, NEW n \in Nat
  PROVE  j * n + n <= k * n
<1>1. (j + 1) * n = j * n + n
  OBVIOUS
<1> QED
  BY <1>1, Times

\* The jiffies of a number of nanoseconds, rounded up, without overflow.
Ceiling(ns) ==
  LET j == (ns + NsPerJiffy - 1) \div NsPerJiffy IN IF j <= 0 THEN 1 ELSE j

LEMMA CeilingIs ==
  ASSUME NEW ns \in Nat
  PROVE  /\ Ceiling(ns) \in Nat \ {0} /\ Ceiling(ns) <= ns + 1
         /\ Ceiling(ns) * NsPerJiffy >= ns
         /\ \A k \in 1 .. (Ceiling(ns) - 1) : k * NsPerJiffy < ns
<1> DEFINE N == NsPerJiffy
           q == (ns + N - 1) \div N
<1>1. N \in Nat \ {0} /\ ns + N - 1 \in Nat
  BY NanosecondsAssumption
<1>2. q \in Nat /\ q * N <= ns + N - 1 /\ ns + N - 1 < q * N + N
  BY <1>1, Quotient
<1>3. Ceiling(ns) = IF q <= 0 THEN 1 ELSE q
  BY DEF Ceiling
<1> HIDE DEF q, N
<1>4. q * N \in Nat
  BY <1>1, <1>2, Times
<1>5. q <= ns
  <2> SUFFICES ASSUME ns < q PROVE FALSE
    BY <1>2
  <2>1. ns * N + N <= q * N
    BY <1>1, <1>2, TimesLess
  <2>2. ns * N >= ns
    BY <1>1
  <2> QED
    BY <1>1, <1>2, <1>4, <2>1, <2>2
<1>6. ASSUME NEW k \in Nat, k < q PROVE k * N < ns
  <2>1. k * N + N <= q * N
    BY <1>1, <1>2, <1>6, TimesLess
  <2>2. k * N \in Nat
    BY <1>1, Times
  <2> QED
    BY <1>1, <1>2, <1>4, <2>1, <2>2
<1>7. CASE q = 0
  <2>1. ns = 0 /\ Ceiling(ns) = 1
    BY <1>1, <1>2, <1>3, <1>7
  <2> QED
    BY <1>1, <2>1 DEF N
<1>8. CASE q # 0
  <2>1. Ceiling(ns) = q
    BY <1>2, <1>3, <1>8
  <2>2. q * N >= ns
    BY <1>1, <1>2, <1>4
  <2> QED
    BY <1>2, <1>5, <1>6, <1>8, <2>1, <2>2 DEF N
<1> QED
  BY <1>7, <1>8

\* It is what the writer asks for.
LEMMA AskedForIs ==
  ASSUME NEW ns \in Nanoseconds
  PROVE  AskedFor(ns) = Ceiling(ns) /\ AskedFor(ns) \in 1 .. U64
<1> DEFINE c == Ceiling(ns)
           P(j) == /\ j * NsPerJiffy >= ns
                   /\ \A k \in 1 .. (j - 1) : k * NsPerJiffy < ns
<1>1. ns \in 0 .. (U64 - 1) /\ U64 \in Nat /\ NsPerJiffy \in Nat
  BY NanosecondsAssumption
<1>2. c \in 1 .. U64 /\ P(c)
  <2>1. ns \in Nat /\ ns + 1 <= U64
    BY <1>1
  <2>2. P(c) /\ c \in Nat \ {0} /\ c <= ns + 1
    BY <2>1, CeilingIs
  <2>3. c \in 1 .. U64
    BY <1>1, <2>1, <2>2
  <2> QED
    BY <2>2, <2>3
<1> HIDE DEF c
<1>3. ASSUME NEW j \in 1 .. (U64 + 1), P(j)
      PROVE  j = c
  <2>1. /\ j * NsPerJiffy \in Int /\ c * NsPerJiffy \in Int /\ ns \in Int
        /\ j \in Int /\ c \in Int
    BY <1>1, <1>2
  <2>2. ~(j < c)
    <3>1. j < c => j \in 1 .. (c - 1)
      BY <1>2
    <3> QED
      BY <1>2, <1>3, <2>1, <3>1
  <2>3. ~(c < j)
    <3>1. c < j => c \in 1 .. (j - 1)
      BY <1>2
    <3> QED
      BY <1>2, <1>3, <2>1, <3>1
  <2> QED
    BY <2>1, <2>2, <2>3
<1>4. c \in 1 .. (U64 + 1)
  BY <1>1, <1>2
<1>5. AskedFor(ns) = CHOOSE j \in 1 .. (U64 + 1) : P(j)
  BY DEF AskedFor
<1> HIDE DEF P
<1> QED
  BY <1>2, <1>3, <1>4, <1>5 DEF c

\* The time-outs that survive the arithmetic of a u64 and the assignment to a
\* long: up to 2^31 - 1 jiffies, 124 days.  Beyond them userwakelock.c:74 cuts
\* the number off, as the run user_timeout shows.
Fitting ==
  \A ns \in Nanoseconds : ns + NsPerJiffy - 1 < U64 /\ AskedFor(ns) < H

LEMMA JiffiesType ==
  ASSUME NEW ns \in Nanoseconds
  PROVE  Jiffies(ns) \in Nat
<1>1. ns + NsPerJiffy - 1 \in Nat /\ U64 \in Nat \ {0} /\ NsPerJiffy \in Nat \ {0}
  BY NanosecondsAssumption
<1>2. (ns + NsPerJiffy - 1) % U64 \in Nat
  BY <1>1
<1>3. ((ns + NsPerJiffy - 1) % U64) \div NsPerJiffy \in Nat
  BY <1>1, <1>2, Quotient
<1> QED
  BY <1>3 DEF Jiffies

\* A time-out that fits reaches the core as it was asked for.
LEMMA TimeoutExact ==
  ASSUME NEW ns \in Nanoseconds, Fitting
  PROVE  ToLong(Jiffies(ns)) = AskedFor(ns) /\ AskedFor(ns) \in 1 .. (H - 1)
<1>1. /\ ns + NsPerJiffy - 1 \in Nat /\ U64 \in Nat \ {0} /\ ns \in Nat
      /\ ns + NsPerJiffy - 1 < U64
  BY NanosecondsAssumption DEF Fitting
<1>2. (ns + NsPerJiffy - 1) % U64 = ns + NsPerJiffy - 1
  BY <1>1
<1>3. Jiffies(ns) = Ceiling(ns)
  BY <1>2 DEF Jiffies, Ceiling
<1>4. Ceiling(ns) \in 1 .. (H - 1)
  <2>1. Ceiling(ns) \in Nat \ {0} /\ Ceiling(ns) < H
    BY <1>1, CeilingIs, AskedForIs DEF Fitting
  <2> QED
    BY <2>1, TimeAssumption
<1> QED
  BY <1>3, <1>4, ToLongFits, AskedForIs

-----------------------------------------------------------------------------
(* What a step of the core leaves of a lock that it is not about.          *)

Untouched(l) ==
  /\ HeldIn(flags, left, l) => flags'[l] = flags[l] /\ left'[l] = left[l]
  /\ flags'[l] = "uninit" <=> flags[l] = "uninit"

LEMMA ExpireLeaves ==
  ASSUME NEW f, NEW b, NEW x \in [Locks -> Int], NEW p, NEW E,
         E = {} \/ E = Expired(f, b, x), expire_wake_lock(f, b, x, p, E),
         NEW l \in Locks
  PROVE  /\ HeldIn(f, x, l) => flags'[l] = f[l] /\ left'[l] = x[l]
         /\ flags'[l] = "uninit" <=> f[l] = "uninit"
<1>1. l \in E => f[l] = "timed" /\ x[l] <= 0
  BY ExpiredOnly
<1>2. x[l] \in Int
  OBVIOUS
<1>3. HeldIn(f, x, l) => l \notin E
  BY <1>1, <1>2 DEF HeldIn
<1>4. /\ flags'[l] = IF l \in E THEN "inactive" ELSE f[l]
      /\ left'[l] = IF l \in E THEN 0 ELSE x[l]
  BY DEF expire_wake_lock
<1> QED
  BY <1>1, <1>3, <1>4

LEMMA InternalLeaves ==
  ASSUME TypeOK, NEW k \in Locks, NEW t \in -H .. (H - 1), NEW timed \in BOOLEAN,
         wake_lock_internal(k, t, timed)
  PROVE  /\ \A l \in Locks \ {k} : Untouched(l)
         /\ flags[k] # "uninit" /\ flags'[k] # "uninit"
         /\ ~timed => flags'[k] = "permanent"
         /\ timed /\ t > 0 => flags'[k] = "timed" /\ left'[k] = t
<1> DEFINE f == LockFlags(k, timed)
           x == LockLeft(k, t, timed)
           b == Relist(k, timed)
           p == LockPreventing(k, f, x)
<1>1. x \in [Locks -> Int]
  BY TimeAssumption DEF LockLeft, TypeOK, LockTypes
<1>2. \A l \in Locks \ {k} : f[l] = flags[l] /\ x[l] = left[l]
  BY DEF LockFlags, LockLeft, TypeOK, LockTypes
<1>3. /\ f[k] = IF timed THEN "timed" ELSE "permanent"
      /\ x[k] = IF timed THEN t ELSE 0
  BY DEF LockFlags, LockLeft, TypeOK, LockTypes
<1>4. \/ expire_wake_lock(f, b, x, p, {})
      \/ expire_wake_lock(f, b, x, p, Expired(f, b, x))
  BY Zenon DEF wake_lock_internal
<1>5. flags[k] # "uninit"
  BY Zenon DEF wake_lock_internal
<1> HIDE DEF f, x, b, p
<1>6. \A l \in Locks :
        /\ HeldIn(f, x, l) => flags'[l] = f[l] /\ left'[l] = x[l]
        /\ flags'[l] = "uninit" <=> f[l] = "uninit"
  BY <1>1, <1>4, ExpireLeaves
<1>7. \A l \in Locks \ {k} : Untouched(l)
  BY <1>2, <1>6 DEF Untouched, HeldIn
<1>8. /\ flags'[k] # "uninit"
      /\ ~timed => flags'[k] = "permanent"
      /\ timed /\ t > 0 => flags'[k] = "timed" /\ left'[k] = t
  BY <1>3, <1>6 DEF HeldIn
<1> QED
  BY <1>5, <1>7, <1>8

LEMMA UnlockLeaves ==
  ASSUME TypeOK, NEW k \in Locks, wake_unlock(k)
  PROVE  /\ \A l \in Locks \ {k} : Untouched(l)
         /\ flags[k] # "uninit" /\ flags'[k] # "uninit"
<1> DEFINE f == [flags EXCEPT ![k] = "inactive"]
           x == [left EXCEPT ![k] = 0]
           b == list_del(before, {k})
<1>1. x \in [Locks -> Int]
  BY TimeAssumption DEF TypeOK, LockTypes
<1>2. \A l \in Locks \ {k} : f[l] = flags[l] /\ x[l] = left[l]
  BY DEF TypeOK, LockTypes
<1>3. f[k] = "inactive" /\ flags[k] # "uninit"
  BY DEF TypeOK, LockTypes, wake_unlock
<1>4. \E p : \/ expire_wake_lock(f, b, x, p, {})
             \/ expire_wake_lock(f, b, x, p, Expired(f, b, x))
  BY Zenon DEF wake_unlock
<1> HIDE DEF f, x, b
<1>5. \A l \in Locks :
        /\ HeldIn(f, x, l) => flags'[l] = f[l] /\ left'[l] = x[l]
        /\ flags'[l] = "uninit" <=> f[l] = "uninit"
  BY <1>1, <1>4, ExpireLeaves
<1>6. \A l \in Locks \ {k} : Untouched(l)
  BY <1>2, <1>5 DEF Untouched, HeldIn
<1> QED
  BY <1>3, <1>5, <1>6

LEMMA ScanTouches ==
  ASSUME TypeOK, NEW r, has_wake_lock(r), NEW l \in Locks
  PROVE  Untouched(l)
<1>1. left \in [Locks -> Int]
  BY TimeAssumption DEF TypeOK, LockTypes
<1> QED
  BY <1>1, ExpireLeaves DEF has_wake_lock, Untouched

LEMMA NamesAreLocks ==
  /\ Names \subseteq Locks /\ Names \subseteq SuspendLocks
  /\ Main \in Locks /\ Unknown \in Locks
  /\ Main \notin Names /\ Unknown \notin Names
BY LocksAssumption DEF Names, Locks, SuspendLocks

\* Main, the timer and suspend() leave the locks of user space alone.
LEMMA CoreLeaves ==
  ASSUME TypeOK, CoreStep, NEW n \in Names
  PROVE  Untouched(n)
<1>1. CASE wake_lock(Main)
  <2>1. wake_lock_internal(Main, 0, FALSE)
    BY <1>1 DEF wake_lock
  <2>2. 0 \in -H .. (H - 1)
    BY TimeAssumption
  <2> QED
    BY <2>1, <2>2, InternalLeaves, NamesAreLocks
<1>2. CASE wake_unlock(Main)
  BY <1>2, UnlockLeaves, NamesAreLocks
<1>3. CASE run_timers
  BY <1>3 DEF run_timers, lockVars, Untouched
<1>4. CASE expire_wake_locks
  BY <1>4, ScanTouches, NamesAreLocks DEF expire_wake_locks
<1>5. CASE Suspend
  <2>1. CASE suspend_unknown
    <3>1. wake_lock_internal(Unknown, HalfSecond, TRUE)
      BY <2>1 DEF suspend_unknown
    <3>2. HalfSecond \in -H .. (H - 1)
      BY TimeAssumption
    <3> QED
      BY <3>1, <3>2, InternalLeaves, NamesAreLocks
  <2>2. CASE suspend_check \/ try_to_freeze_tasks \/ power_suspend_late
    <3>1. PICK r \in Results : has_wake_lock(r)
      BY <2>2 DEF suspend_check, try_to_freeze_tasks, power_suspend_late
    <3> QED
      BY <3>1, ScanTouches, NamesAreLocks
  <2>3. CASE \/ run_workqueue \/ suspend_entry \/ suspend_prepare
             \/ tasks_frozen \/ suspend_devices \/ pm_suspend_fails
             \/ pm_enter \/ pm_wake \/ suspend_exit
    BY <2>3
    DEF Untouched, lockVars, run_workqueue, suspend_entry, suspend_prepare,
        tasks_frozen, suspend_devices, pm_suspend_fails, pm_enter, pm_wake,
        suspend_exit
  <2> QED
    BY <1>5, <2>1, <2>2, <2>3, Zenon DEF Suspend
<1> QED
  BY <1>1, <1>2, <1>3, <1>4, <1>5 DEF CoreStep

-----------------------------------------------------------------------------
(* Types.                                                                  *)

WriterTypes ==
  writer # Nobody => writer.name \in Names /\ writer.jiffies \in -1 .. U64

UserTypes == UserTypeOK /\ WriterTypes

\* What a writer hands to lookup_wake_lock_name.
LEMMA Written ==
  ASSUME NEW buf \in Names, wake_lock_store(buf)
  PROVE  \E t \in -H .. (H - 1), j \in -1 .. U64 :
           /\ lookup_wake_lock_name(buf, t, j)
           /\ Fitting => IF j = Forever THEN t = 0 ELSE t = j /\ j > 0
<1>1. 0 \in -H .. (H - 1) /\ Forever \in -1 .. U64
  BY TimeAssumption, NanosecondsAssumption DEF Forever
<1>2. CASE lookup_wake_lock_name(buf, 0, Forever)
  BY <1>1, <1>2
<1>3. ASSUME NEW ns \in Nanoseconds,
             lookup_wake_lock_name(buf, ToLong(Jiffies(ns)), AskedFor(ns))
      PROVE  \E t \in -H .. (H - 1), j \in -1 .. U64 :
               /\ lookup_wake_lock_name(buf, t, j)
               /\ Fitting => IF j = Forever THEN t = 0 ELSE t = j /\ j > 0
  <2>1. ToLong(Jiffies(ns)) \in -H .. (H - 1)
    BY JiffiesType, ToLongRange
  <2>2. AskedFor(ns) \in -1 .. U64 /\ AskedFor(ns) > 0 /\ AskedFor(ns) # Forever
    BY AskedForIs, NanosecondsAssumption DEF Forever
  <2>3. Fitting => ToLong(Jiffies(ns)) = AskedFor(ns)
    BY TimeoutExact
  <2> QED
    BY <1>3, <2>1, <2>2, <2>3
<1> QED
  BY <1>2, <1>3 DEF wake_lock_store

\* The lock that a lookup hands out is the one of the name.
LEMMA LookedUp ==
  ASSUME NEW buf \in Names, NEW t, NEW j, lookup_wake_lock_name(buf, t, j)
  PROVE  /\ writer' = [lock |-> buf, timeout |-> t, name |-> buf, jiffies |-> j]
         /\ UNCHANGED asked
         /\ \/ /\ Found(buf) = {} /\ wake_lock_init(buf)
               /\ user_wake_locks' = rb_insert(buf)
            \/ UNCHANGED <<vars, user_wake_locks>>
BY FoundIsName DEF lookup_wake_lock_name

\* The second half of a store.
LEMMA Stored ==
  ASSUME UserTypes, wake_lock_store_locks
  PROVE  /\ writer.lock \in Locks /\ writer.timeout \in -H .. (H - 1)
         /\ wake_lock_internal(writer.lock, writer.timeout, writer.timeout # 0)
         /\ ~IrqsOff /\ UNCHANGED <<pc, user_wake_locks>>
         /\ asked' = [asked EXCEPT ![writer.name] = writer.jiffies]
         /\ writer' = Nobody
<1>1. writer.lock \in Locks /\ writer.timeout \in -H .. (H - 1)
  BY NamesAreLocks DEF UserTypes, UserTypeOK, wake_lock_store_locks
<1>2. CASE writer.timeout = 0
  BY <1>1, <1>2 DEF wake_lock_store_locks, wake_lock
<1>3. CASE writer.timeout # 0
  BY <1>1, <1>3 DEF wake_lock_store_locks, wake_lock_timeout
<1> QED
  BY <1>2, <1>3

LEMMA UserTypeInit == UserInit => UserTypes
<1> SUFFICES ASSUME UserInit PROVE UserTypes
  OBVIOUS
<1>1. TypeOK
  BY InitType DEF UserInit
<1>2. 0 \in -1 .. U64
  BY NanosecondsAssumption
<1> QED
  BY <1>1, <1>2 DEF UserInit, UserTypes, UserTypeOK, WriterTypes

LEMMA UserTypeStep ==
  ASSUME UserTypes, [UserNext]_allVars
  PROVE  UserTypes'
<1> USE DEF UserTypes, UserTypeOK, WriterTypes
<1>1. ASSUME NEW buf \in Names, wake_lock_store(buf)
      PROVE  UserTypes'
  <2>1. PICK t \in -H .. (H - 1), j \in -1 .. U64 : lookup_wake_lock_name(buf, t, j)
    BY <1>1, Written
  <2>2. /\ writer' = [lock |-> buf, timeout |-> t, name |-> buf, jiffies |-> j]
        /\ UNCHANGED asked
    BY <2>1, LookedUp
  <2>3. CASE Found(buf) = {} /\ wake_lock_init(buf) /\ user_wake_locks' = rb_insert(buf)
    <3>1. TypeOK'
      BY <2>3, OperationType DEF Operation, Names
    <3>2. user_wake_locks' \in Seq(Names)
      BY <2>3, InsertType
    <3> QED
      BY <2>2, <3>1, <3>2
  <2>4. CASE UNCHANGED <<vars, user_wake_locks>>
    BY <2>2, <2>4
    DEF vars, TypeOK, LockTypes, TimerTypes, WorkerTypes
  <2> QED
    BY <2>1, <2>3, <2>4, LookedUp
<1>2. CASE wake_lock_store_locks
  <2>1. (writer.timeout # 0) \in BOOLEAN
    OBVIOUS
  <2>2. pc' \in Places
    BY <1>2, Stored DEF TypeOK, WorkerTypes
  <2>3. TypeOK'
    BY <1>2, <2>1, <2>2, Stored, LockInternalType
  <2>4. writer.jiffies \in -1 .. U64
    BY <1>2 DEF wake_lock_store_locks
  <2> QED
    BY <1>2, <2>3, <2>4, Stored
<1>3. ASSUME NEW buf \in Names, wake_unlock_store(buf)
      PROVE  UserTypes'
  <2>1. PICK n \in Names : wake_unlock(n)
    BY <1>3 DEF wake_unlock_store, Found
  <2>2. TypeOK'
    BY <2>1, UnlockType, NamesAreLocks
  <2>3. 0 \in -1 .. U64
    BY NanosecondsAssumption
  <2> QED
    BY <1>3, <2>2, <2>3 DEF wake_unlock_store
<1>4. CASE UserTick
  <2>1. TypeOK'
    BY <1>4, TimerType DEF UserTick, Timer
  <2>2. asked' \in [Names -> -1 .. U64]
    BY <1>4, NanosecondsAssumption DEF UserTick
  <2> QED
    BY <1>4, <2>1, <2>2 DEF UserTick
<1>5. CASE CoreStep
  <2>1. Operation \/ Timer \/ Suspend
    BY <1>5 DEF CoreStep, Operation, Timer
  <2>2. TypeOK'
    BY <2>1, OperationType, TimerType, SuspendType
  <2> QED
    BY <1>5, <2>2 DEF CoreStep, userVars
<1>6. CASE UNCHANGED allVars
  BY <1>6
  DEF allVars, vars, userVars, TypeOK, LockTypes, TimerTypes, WorkerTypes
<1> QED
  BY <1>1, <1>2, <1>3, <1>4, <1>5, <1>6 DEF UserNext

-----------------------------------------------------------------------------
(* The tree and the locks that were initialised.                           *)

\* TreeOrdered, in the terms of the lemmas above.
LEMMA TreeIs ==
  TreeOrdered <=> Sorted /\ \A n \in Names : flags[n] # "uninit" <=> InTree(n)
BY DEF TreeOrdered, Sorted, InTree

LEMMA TreeStep ==
  ASSUME UserTypes, TreeOrdered, [UserNext]_allVars
  PROVE  TreeOrdered'
<1>1. Sorted /\ \A n \in Names : flags[n] # "uninit" <=> InTree(n)
  BY TreeIs
<1>2. flags \in [Locks -> Modes] /\ user_wake_locks \in Seq(Names)
  BY DEF UserTypes, UserTypeOK, TypeOK, LockTypes
<1>3. ASSUME UNCHANGED user_wake_locks,
             \A n \in Names : flags'[n] = "uninit" <=> flags[n] = "uninit"
      PROVE  TreeOrdered'
  BY <1>1, <1>3 DEF TreeOrdered, Sorted, InTree
<1>4. ASSUME NEW buf \in Names, wake_lock_store(buf)
      PROVE  TreeOrdered'
  <2>1. PICK t, j : lookup_wake_lock_name(buf, t, j)
    BY <1>4, Written
  <2>2. CASE Found(buf) = {} /\ wake_lock_init(buf) /\ user_wake_locks' = rb_insert(buf)
    <3>1. Sorted' /\ \A n \in Names : InTree(n)' <=> InTree(n) \/ n = buf
      BY <1>1, <1>2, <2>2, InsertName
    <3>2. \A n \in Names : flags'[n] # "uninit" <=> flags[n] # "uninit" \/ n = buf
      BY <1>2, <2>2, NamesAreLocks DEF wake_lock_init
    <3> QED
      BY <1>1, <3>1, <3>2 DEF TreeOrdered, Sorted, InTree
  <2>3. CASE UNCHANGED <<vars, user_wake_locks>>
    BY <1>3, <2>3 DEF vars
  <2> QED
    BY <2>1, <2>2, <2>3, LookedUp
<1>5. CASE wake_lock_store_locks
  <2>1. (writer.timeout # 0) \in BOOLEAN
    OBVIOUS
  <2>2. /\ \A l \in Locks \ {writer.lock} : Untouched(l)
        /\ flags[writer.lock] # "uninit" /\ flags'[writer.lock] # "uninit"
    BY <1>5, <2>1, Stored, InternalLeaves DEF UserTypes, UserTypeOK
  <2>3. \A n \in Names : flags'[n] = "uninit" <=> flags[n] = "uninit"
    BY <2>2, NamesAreLocks DEF Untouched
  <2> QED
    BY <1>3, <1>5, <2>3, Stored
<1>6. ASSUME NEW buf \in Names, wake_unlock_store(buf)
      PROVE  TreeOrdered'
  <2>1. PICK n \in Names : wake_unlock(n)
    BY <1>6 DEF wake_unlock_store, Found
  <2>2. /\ \A l \in Locks \ {n} : Untouched(l)
        /\ flags[n] # "uninit" /\ flags'[n] # "uninit"
    BY <2>1, UnlockLeaves, NamesAreLocks DEF UserTypes, UserTypeOK
  <2>3. \A k \in Names : flags'[k] = "uninit" <=> flags[k] = "uninit"
    BY <2>2, NamesAreLocks DEF Untouched
  <2> QED
    BY <1>3, <1>6, <2>3 DEF wake_unlock_store
<1>7. CASE UserTick
  BY <1>3, <1>7 DEF UserTick, Tick
<1>8. CASE CoreStep
  BY <1>3, <1>8, CoreLeaves
  DEF CoreStep, userVars, Untouched, UserTypes, UserTypeOK
<1>9. CASE UNCHANGED allVars
  BY <1>3, <1>9 DEF allVars, vars, userVars
<1> QED
  BY <1>4, <1>5, <1>6, <1>7, <1>8, <1>9 DEF UserNext

\* The names are a search tree without duplicates, however they begin with one
\* another, and the tree holds exactly the locks that were initialised, for
\* every set of names and all time-outs.
THEOREM TreeCorrect == UserSpec => []TreeOrdered
<1>1. UserInit => UserTypes /\ TreeOrdered
  <2> SUFFICES ASSUME UserInit PROVE TreeOrdered
    BY UserTypeInit
  <2>1. \A n \in Names : flags[n] = "uninit"
    BY NamesAreLocks DEF UserInit, Init
  <2>2. Len(user_wake_locks) = 0
    BY DEF UserInit
  <2> QED
    BY <2>1, <2>2 DEF TreeOrdered
<1>2. UserTypes /\ TreeOrdered /\ [UserNext]_allVars => (UserTypes /\ TreeOrdered)'
  BY UserTypeStep, TreeStep
<1> QED
  BY <1>1, <1>2, PTL DEF UserSpec

-----------------------------------------------------------------------------
(* The requests.                                                           *)

\* A name that was asked for without a time-out is held without one; one with a
\* time-out has at least the jiffies left that were asked for.
AskedOK ==
  \A n \in Names : /\ asked[n] = Forever => flags[n] = "permanent"
                   /\ asked[n] > 0 => flags[n] = "timed" /\ left[n] >= asked[n]

\* A store holds the lock of its name, and what it will pass to the core is what
\* was written.
WriterOK ==
  writer # Nobody =>
    /\ writer.lock = writer.name
    /\ IF writer.jiffies = Forever
       THEN writer.timeout = 0
       ELSE writer.timeout = writer.jiffies /\ writer.jiffies > 0

LEMMA WriterStep ==
  ASSUME Fitting, WriterOK, [UserNext]_allVars
  PROVE  WriterOK'
<1>1. ASSUME NEW buf \in Names, wake_lock_store(buf)
      PROVE  WriterOK'
  <2>1. PICK t \in -H .. (H - 1), j \in -1 .. U64 :
          /\ lookup_wake_lock_name(buf, t, j)
          /\ IF j = Forever THEN t = 0 ELSE t = j /\ j > 0
    BY <1>1, Written
  <2>2. writer' = [lock |-> buf, timeout |-> t, name |-> buf, jiffies |-> j]
    BY <2>1, LookedUp
  <2> QED
    BY <2>1, <2>2 DEF WriterOK
<1>2. CASE wake_lock_store_locks
  BY <1>2 DEF wake_lock_store_locks, WriterOK
<1>3. CASE \/ \E n \in Names : wake_unlock_store(n)
           \/ UserTick \/ CoreStep \/ UNCHANGED allVars
  BY <1>3
  DEF wake_unlock_store, UserTick, CoreStep, userVars, allVars, WriterOK
<1> QED
  BY <1>1, <1>2, <1>3 DEF UserNext

\* A request that lasts is a lock that is held.
LEMMA AskedIsHeld ==
  ASSUME UserTypes, AskedOK, NEW n \in Names
  PROVE  /\ asked[n] \in -1 .. U64 /\ left[n] \in Int
         /\ asked[n] # 0 => HeldIn(flags, left, n)
<1>1. asked[n] \in -1 .. U64 /\ U64 \in Nat
  BY NanosecondsAssumption DEF UserTypes, UserTypeOK
<1>2. left[n] \in Int
  BY NamesAreLocks, TimeAssumption
  DEF UserTypes, UserTypeOK, TypeOK, LockTypes
<1> QED
  BY <1>1, <1>2 DEF AskedOK, HeldIn, Forever

LEMMA AskedStep ==
  ASSUME UserTypes, WriterOK, AskedOK, [UserNext]_allVars
  PROVE  AskedOK'
<1>1. /\ TypeOK /\ flags \in [Locks -> Modes]
      /\ asked \in [Names -> -1 .. U64]
  BY DEF UserTypes, UserTypeOK, TypeOK, LockTypes
\* A name whose request stands and whose lock is left alone keeps it.
<1>2. ASSUME NEW n \in Names, asked'[n] = asked[n],
             \/ Untouched(n)
             \/ flags'[n] = flags[n] /\ left'[n] = left[n]
      PROVE  /\ asked'[n] = Forever => flags'[n] = "permanent"
             /\ asked'[n] > 0 => flags'[n] = "timed" /\ left'[n] >= asked'[n]
  <2>1. /\ asked[n] \in -1 .. U64 /\ U64 \in Nat
        /\ asked[n] # 0 => HeldIn(flags, left, n)
    BY AskedIsHeld, NanosecondsAssumption
  <2>2. asked[n] # 0 => flags'[n] = flags[n] /\ left'[n] = left[n]
    BY <1>2, <2>1 DEF Untouched
  <2> QED
    BY <1>2, <2>1, <2>2 DEF AskedOK, Forever
<1>3. ASSUME NEW buf \in Names, wake_lock_store(buf)
      PROVE  AskedOK'
  <2>1. PICK t, j : lookup_wake_lock_name(buf, t, j)
    BY <1>3, Written
  <2>2. UNCHANGED asked
    BY <2>1, LookedUp
  <2>3. CASE wake_lock_init(buf)
    <3>1. /\ flags[buf] = "uninit" /\ UNCHANGED left
          /\ \A n \in Names \ {buf} : flags'[n] = flags[n]
      BY <1>1, <2>3, NamesAreLocks DEF wake_lock_init
    <3>2. asked[buf] = 0
      BY <3>1, AskedIsHeld DEF HeldIn
    <3>3. \A n \in Names \ {buf} :
            /\ asked'[n] = Forever => flags'[n] = "permanent"
            /\ asked'[n] > 0 => flags'[n] = "timed" /\ left'[n] >= asked'[n]
      BY <1>2, <2>2, <3>1
    <3> QED
      BY <2>2, <3>2, <3>3 DEF AskedOK, Forever
  <2>4. CASE UNCHANGED <<vars, user_wake_locks>>
    BY <1>2, <2>2, <2>4 DEF vars, AskedOK
  <2> QED
    BY <2>1, <2>3, <2>4, LookedUp
<1>4. CASE wake_lock_store_locks
  <2> DEFINE k == writer.lock
             t == writer.timeout
  <2>1. (t # 0) \in BOOLEAN
    OBVIOUS
  <2>2. /\ k = writer.name /\ k \in Names
        /\ IF writer.jiffies = Forever THEN t = 0
           ELSE t = writer.jiffies /\ writer.jiffies > 0
    BY <1>4 DEF wake_lock_store_locks, WriterOK, UserTypes, UserTypeOK
  <2>3. /\ \A l \in Locks \ {k} : Untouched(l)
        /\ t = 0 => flags'[k] = "permanent"
        /\ t # 0 /\ t > 0 => flags'[k] = "timed" /\ left'[k] = t
    BY <1>1, <1>4, <2>1, Stored, InternalLeaves
  <2>4. /\ asked'[k] = writer.jiffies
        /\ \A n \in Names \ {k} : asked'[n] = asked[n]
    BY <1>1, <1>4, <2>2, Stored
  <2>5. t \in Int
    BY <1>4, Stored, TimeAssumption
  <2>6. /\ asked'[k] = Forever => flags'[k] = "permanent"
        /\ asked'[k] > 0 => flags'[k] = "timed" /\ left'[k] >= asked'[k]
    BY <2>2, <2>3, <2>4, <2>5 DEF Forever
  <2>7. \A n \in Names \ {k} :
          /\ asked'[n] = Forever => flags'[n] = "permanent"
          /\ asked'[n] > 0 => flags'[n] = "timed" /\ left'[n] >= asked'[n]
    BY <1>2, <2>3, <2>4, NamesAreLocks
  <2> QED
    BY <2>6, <2>7 DEF AskedOK
<1>5. ASSUME NEW buf \in Names, wake_unlock_store(buf)
      PROVE  AskedOK'
  <2>1. wake_unlock(buf) /\ asked' = [asked EXCEPT ![buf] = 0]
    BY <1>5, FoundIsName DEF wake_unlock_store
  <2>2. \A l \in Locks \ {buf} : Untouched(l)
    BY <1>1, <2>1, UnlockLeaves, NamesAreLocks
  <2>3. asked'[buf] = 0 /\ \A n \in Names \ {buf} : asked'[n] = asked[n]
    BY <1>1, <2>1
  <2>4. \A n \in Names \ {buf} :
          /\ asked'[n] = Forever => flags'[n] = "permanent"
          /\ asked'[n] > 0 => flags'[n] = "timed" /\ left'[n] >= asked'[n]
    BY <1>2, <2>2, <2>3, NamesAreLocks
  <2> QED
    BY <2>3, <2>4 DEF AskedOK, Forever
<1>6. CASE UserTick
  <2> SUFFICES ASSUME NEW n \in Names
               PROVE  /\ asked'[n] = Forever => flags'[n] = "permanent"
                      /\ asked'[n] > 0 => /\ flags'[n] = "timed"
                                          /\ left'[n] >= asked'[n]
    BY DEF AskedOK
  <2>1. /\ flags' = flags
        /\ left'[n] = IF flags[n] = "timed" THEN Wrap(left[n] - 1) ELSE left[n]
        /\ asked'[n] = IF asked[n] > 0 THEN asked[n] - 1 ELSE asked[n]
    BY <1>6, NamesAreLocks DEF UserTick, Tick
  <2>2. asked[n] \in -1 .. U64 /\ left[n] \in Int /\ U64 \in Nat /\ H \in Nat
    BY AskedIsHeld, NanosecondsAssumption, TimeAssumption
  <2>3. CASE asked[n] > 0
    <3>1. flags[n] = "timed" /\ left[n] >= asked[n]
      BY <2>3 DEF AskedOK
    <3>2. Wrap(left[n] - 1) = left[n] - 1
      BY <2>2, <2>3, <3>1 DEF Wrap
    <3> QED
      BY <2>1, <2>2, <2>3, <3>1, <3>2 DEF Forever
  <2>4. CASE ~(asked[n] > 0)
    BY <2>1, <2>2, <2>4 DEF AskedOK, Forever
  <2> QED
    BY <2>3, <2>4
<1>7. CASE CoreStep
  BY <1>1, <1>2, <1>7, CoreLeaves DEF CoreStep, userVars, AskedOK
<1>8. CASE UNCHANGED allVars
  BY <1>2, <1>8 DEF allVars, vars, userVars, AskedOK
<1> QED
  BY <1>3, <1>4, <1>5, <1>6, <1>7, <1>8 DEF UserNext

\* A store with a time-out of its own is not a step of WakeLock's Next, but like
\* those it does not run while the worker has interrupts off.
LEMMA UserSleepStep ==
  ASSUME UserTypes, SleepInv, [UserNext]_allVars
  PROVE  SleepInv'
<1>1. TypeOK
  BY DEF UserTypes, UserTypeOK
<1>2. CASE wake_lock_store_locks
  BY <1>2, Stored DEF SleepInv, IrqsOff
<1>3. CASE ~wake_lock_store_locks
  <2>1. ASSUME NEW buf \in Names, wake_lock_store(buf)
        PROVE  [Next]_vars
    <3>1. PICK t, j : lookup_wake_lock_name(buf, t, j)
      BY <2>1, Written
    <3>2. wake_lock_init(buf) \/ UNCHANGED vars
      BY <3>1, LookedUp
    <3> QED
      BY <3>2 DEF Next, Operation, Names
  <2>2. ASSUME NEW buf \in Names, wake_unlock_store(buf)
        PROVE  Next
    <3>1. PICK n \in Names : wake_unlock(n)
      BY <2>2 DEF wake_unlock_store, Found
    <3> QED
      BY <3>1 DEF Next, Operation, Names
  <2>3. UserTick \/ CoreStep => Next
    BY DEF UserTick, CoreStep, Next, Operation, Timer
  <2>4. UNCHANGED allVars => UNCHANGED vars
    BY DEF allVars
  <2>5. [Next]_vars
    BY <1>3, <2>1, <2>2, <2>3, <2>4 DEF UserNext
  <2> QED
    BY <1>1, <2>5, SleepStep
<1> QED
  BY <1>2, <1>3

\* For every set of names, and time-outs that fit a long: a lock is live as long
\* as its name was last asked for, and the system does not sleep meanwhile,
\* through every scan, expiry and attempt of suspend() in between.
THEOREM Served ==
  ASSUME Fitting
  PROVE  UserSpec => []ServedAsAsked
<1> DEFINE IInv == UserTypes /\ SleepInv /\ WriterOK /\ AskedOK
<1>1. UserInit => IInv
  <2> SUFFICES ASSUME UserInit PROVE IInv
    OBVIOUS
  <2>1. SleepInv
    BY DEF UserInit, Init, SleepInv
  <2>2. WriterOK /\ AskedOK
    BY DEF UserInit, WriterOK, AskedOK, Forever
  <2> QED
    BY <2>1, <2>2, UserTypeInit
<1>2. IInv /\ [UserNext]_allVars => IInv'
  BY UserTypeStep, UserSleepStep, WriterStep, AskedStep
<1>3. IInv => ServedAsAsked
  <2> SUFFICES ASSUME IInv PROVE ServedAsAsked
    OBVIOUS
  <2>1. \A n \in Names : asked[n] # 0 => n \in Live
    BY AskedIsHeld, NamesAreLocks DEF HeldIn, Live
  <2>2. pc = "asleep" => \A n \in Names : asked[n] = 0
    BY <2>1 DEF SleepInv
  <2> QED
    BY <2>1, <2>2 DEF ServedAsAsked, HeldAsAsked, AwakeAsAsked, UserTypes
<1> QED
  BY <1>1, <1>2, <1>3, PTL DEF UserSpec
=============================================================================
