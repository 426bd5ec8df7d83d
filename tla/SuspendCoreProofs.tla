------------------------- MODULE SuspendCoreProofs --------------------------
(***************************************************************************)
(* Proofs about the power management of devices (DevicePM), for every set   *)
(* of devices and parents, and, on top of them, about the suspend core.     *)
(***************************************************************************)
EXTENDS SuspendCore, TLAPS

-----------------------------------------------------------------------------
(* Lists: their members and the order they stand in.                       *)

LEMMA MembersEmpty ==
  Members(<<>>) = {} /\ NoDuplicates(<<>>)
BY DEF Members, NoDuplicates

LEMMA MembersConcat ==
  ASSUME NEW S, NEW s \in Seq(S), NEW t \in Seq(S)
  PROVE  Members(s \o t) = Members(s) \cup Members(t)
<1>1. s \o t \in Seq(S) /\ Len(s \o t) = Len(s) + Len(t)
  OBVIOUS
<1>2. \A i \in 1 .. Len(s) : i \in 1 .. Len(s \o t) /\ (s \o t)[i] = s[i]
  OBVIOUS
<1>3. \A i \in 1 .. Len(t) :
        Len(s) + i \in 1 .. Len(s \o t) /\ (s \o t)[Len(s) + i] = t[i]
  OBVIOUS
<1>4. \A i \in 1 .. Len(s \o t) :
        \/ i \in 1 .. Len(s) /\ (s \o t)[i] = s[i]
        \/ i - Len(s) \in 1 .. Len(t) /\ (s \o t)[i] = t[i - Len(s)]
  OBVIOUS
<1>5. Members(s \o t) \subseteq Members(s) \cup Members(t)
  BY <1>4, Zenon DEF Members
<1>6. Members(s) \cup Members(t) \subseteq Members(s \o t)
  BY <1>2, <1>3, Zenon DEF Members
<1> QED
  BY <1>5, <1>6

\* One before the other in the joined list.
LEMMA BeforeConcat ==
  ASSUME NEW S, NEW s \in Seq(S), NEW t \in Seq(S), NEW a, NEW b
  PROVE  Before(s \o t, a, b)
           <=> \/ Before(s, a, b) \/ Before(t, a, b)
               \/ a \in Members(s) /\ b \in Members(t)
<1>1. ASSUME Before(s \o t, a, b)
      PROVE  \/ Before(s, a, b) \/ Before(t, a, b)
             \/ a \in Members(s) /\ b \in Members(t)
  <2>1. PICK i, j \in 1 .. Len(s \o t) :
          i < j /\ (s \o t)[i] = a /\ (s \o t)[j] = b
    BY <1>1 DEF Before
  <2>2. CASE j <= Len(s)
    <3>1. i \in 1 .. Len(s) /\ j \in 1 .. Len(s) /\ s[i] = a /\ s[j] = b
      BY <2>1, <2>2
    <3> QED
      BY <2>1, <3>1 DEF Before
  <2>3. CASE i > Len(s)
    <3>1. /\ i - Len(s) \in 1 .. Len(t) /\ j - Len(s) \in 1 .. Len(t)
          /\ t[i - Len(s)] = a /\ t[j - Len(s)] = b /\ i - Len(s) < j - Len(s)
      BY <2>1, <2>3
    <3> QED
      BY <3>1 DEF Before
  <2>4. CASE i <= Len(s) /\ j > Len(s)
    <3>1. /\ i \in 1 .. Len(s) /\ s[i] = a
          /\ j - Len(s) \in 1 .. Len(t) /\ t[j - Len(s)] = b
      BY <2>1, <2>4
    <3> QED
      BY <3>1 DEF Members
  <2> QED
    BY <2>1, <2>2, <2>3, <2>4
<1>2. ASSUME Before(s, a, b) PROVE Before(s \o t, a, b)
  <2>1. PICK i, j \in 1 .. Len(s) : i < j /\ s[i] = a /\ s[j] = b
    BY <1>2 DEF Before
  <2>2. /\ i \in 1 .. Len(s \o t) /\ j \in 1 .. Len(s \o t)
        /\ (s \o t)[i] = a /\ (s \o t)[j] = b
    BY <2>1
  <2> QED
    BY <2>1, <2>2 DEF Before
<1>3. ASSUME Before(t, a, b) PROVE Before(s \o t, a, b)
  <2>1. PICK i, j \in 1 .. Len(t) : i < j /\ t[i] = a /\ t[j] = b
    BY <1>3 DEF Before
  <2>2. /\ Len(s) + i \in 1 .. Len(s \o t) /\ Len(s) + j \in 1 .. Len(s \o t)
        /\ (s \o t)[Len(s) + i] = a /\ (s \o t)[Len(s) + j] = b
        /\ Len(s) + i < Len(s) + j
    BY <2>1
  <2> QED
    BY <2>2 DEF Before
<1>4. ASSUME a \in Members(s), b \in Members(t) PROVE Before(s \o t, a, b)
  <2>1. PICK i \in 1 .. Len(s), j \in 1 .. Len(t) : s[i] = a /\ t[j] = b
    BY <1>4 DEF Members
  <2>2. /\ i \in 1 .. Len(s \o t) /\ Len(s) + j \in 1 .. Len(s \o t)
        /\ (s \o t)[i] = a /\ (s \o t)[Len(s) + j] = b
        /\ i < Len(s) + j
    BY <2>1
  <2> QED
    BY <2>2 DEF Before
<1> QED
  BY <1>1, <1>2, <1>3, <1>4

LEMMA NoDuplicatesConcat ==
  ASSUME NEW S, NEW s \in Seq(S), NEW t \in Seq(S)
  PROVE  NoDuplicates(s \o t)
           <=> NoDuplicates(s) /\ NoDuplicates(t) /\ Members(s) \cap Members(t) = {}
<1>1. ASSUME NoDuplicates(s \o t)
      PROVE  NoDuplicates(s) /\ NoDuplicates(t)
  <2>1. ASSUME NEW i \in 1 .. Len(s), NEW j \in 1 .. Len(s), s[i] = s[j]
        PROVE  i = j
    BY <1>1, <2>1 DEF NoDuplicates
  <2>2. ASSUME NEW i \in 1 .. Len(t), NEW j \in 1 .. Len(t), t[i] = t[j]
        PROVE  i = j
    <3>1. /\ Len(s) + i \in 1 .. Len(s \o t) /\ Len(s) + j \in 1 .. Len(s \o t)
          /\ (s \o t)[Len(s) + i] = t[i] /\ (s \o t)[Len(s) + j] = t[j]
      OBVIOUS
    <3>2. Len(s) + i = Len(s) + j
      BY <1>1, <2>2, <3>1 DEF NoDuplicates
    <3> QED
      BY <3>2
  <2> QED
    BY <2>1, <2>2 DEF NoDuplicates
<1>2. ASSUME NoDuplicates(s \o t), NEW i \in 1 .. Len(s), NEW j \in 1 .. Len(t), s[i] = t[j]
      PROVE  FALSE
  <2>1. /\ i \in 1 .. Len(s \o t) /\ Len(s) + j \in 1 .. Len(s \o t)
        /\ (s \o t)[i] = s[i] /\ (s \o t)[Len(s) + j] = t[j] /\ i # Len(s) + j
    OBVIOUS
  <2> QED
    BY <1>2, <2>1 DEF NoDuplicates
<1>3. ASSUME NoDuplicates(s), NoDuplicates(t), Members(s) \cap Members(t) = {}
      PROVE  NoDuplicates(s \o t)
  <2>1. \A i \in 1 .. Len(s), j \in 1 .. Len(t) : s[i] # t[j]
    BY <1>3 DEF Members
  <2> QED
    BY <1>3, <2>1 DEF NoDuplicates
<1> QED
  BY <1>1, <1>2, <1>3 DEF Members

\* Each stands before the other: not without duplicates.
LEMMA BeforeAsym ==
  ASSUME NEW s, Len(s) \in Nat, NoDuplicates(s), NEW a, NEW b, Before(s, a, b)
  PROVE  ~Before(s, b, a)
BY DEF Before, NoDuplicates

LEMMA BeforeMembers ==
  ASSUME NEW s, NEW a, NEW b, Before(s, a, b)
  PROVE  a \in Members(s) /\ b \in Members(s)
BY DEF Before, Members

\* Deleting keeps the other members and their order.
LEMMA ListDel ==
  ASSUME NEW S, NEW s \in Seq(S), NEW d, NoDuplicates(s)
  PROVE  LET t == list_del(s, d)
         IN  /\ t \in Seq(S)
             /\ NoDuplicates(t)
             /\ Members(t) = Members(s) \ {d}
             /\ \A a, b : a # d /\ b # d => (Before(t, a, b) <=> Before(s, a, b))
             /\ Len(t) <= Len(s)
<1> DEFINE t == list_del(s, d)
<1>1. CASE d \notin Members(s)
  BY <1>1 DEF list_del
<1>2. CASE d \in Members(s)
  <2> DEFINE i == CHOOSE i \in 1 .. Len(s) : s[i] = d
  <2>1. i \in 1 .. Len(s) /\ s[i] = d
    BY <1>2 DEF Members
  <2>2. t = SubSeq(s, 1, i - 1) \o SubSeq(s, i + 1, Len(s))
    BY <1>2 DEF list_del
  <2> HIDE DEF i, t
  <2> DEFINE u == SubSeq(s, 1, i - 1)
             v == SubSeq(s, i + 1, Len(s))
  <2>u. u \in Seq(S) /\ Len(u) = i - 1 /\ \A k \in 1 .. Len(u) : u[k] = s[k]
    BY <2>1
  <2>v. v \in Seq(S) /\ Len(v) = Len(s) - i /\ \A k \in 1 .. Len(v) : v[k] = s[i + k]
    BY <2>1
  <2> HIDE DEF u, v
  <2>t. t = u \o v
    BY <2>2 DEF u, v
  <2>3. t \in Seq(S) /\ Len(t) = Len(s) - 1
    BY <2>1, <2>t, <2>u, <2>v
  <2>4. \A k \in 1 .. Len(t) : t[k] = IF k < i THEN s[k] ELSE s[k + 1]
    <3> SUFFICES ASSUME NEW k \in 1 .. Len(t)
                 PROVE  t[k] = IF k < i THEN s[k] ELSE s[k + 1]
      OBVIOUS
    <3>2. CASE k < i
      BY <2>1, <2>3, <2>t, <2>u, <2>v, <3>2
    <3>3. CASE k >= i
      <4>1. k - Len(u) \in 1 .. Len(v) /\ t[k] = v[k - Len(u)]
        BY <2>1, <2>3, <2>t, <2>u, <2>v, <3>3
      <4>2. v[k - Len(u)] = s[i + (k - Len(u))] /\ i + (k - Len(u)) = k + 1
        BY <2>1, <2>u, <2>v, <4>1
      <4> QED
        BY <2>1, <3>3, <4>1, <4>2
    <3> QED
      BY <2>1, <3>2, <3>3
  <2>5. NoDuplicates(t)
    BY <2>1, <2>3, <2>4 DEF NoDuplicates
  <2>6. Members(t) = Members(s) \ {d}
    <3>1. \A k \in 1 .. Len(t) : t[k] # d /\ \E l \in 1 .. Len(s) : t[k] = s[l]
      BY <2>1, <2>3, <2>4 DEF NoDuplicates
    <3>2. \A l \in 1 .. Len(s) : s[l] # d => \E k \in 1 .. Len(t) : t[k] = s[l]
      <4> SUFFICES ASSUME NEW l \in 1 .. Len(s), s[l] # d
                   PROVE  \E k \in 1 .. Len(t) : t[k] = s[l]
        OBVIOUS
      <4>1. CASE l < i
        <5>1. l \in 1 .. Len(t) /\ t[l] = s[l]
          BY <4>1, <2>1, <2>3, <2>4
        <5> QED
          BY <5>1
      <4>2. CASE l > i
        <5>1. l - 1 \in 1 .. Len(t) /\ t[l - 1] = s[l]
          BY <4>2, <2>1, <2>3, <2>4
        <5> QED
          BY <5>1
      <4> QED
        BY <4>1, <4>2, <2>1
    <3>3. Members(t) \subseteq Members(s) \ {d}
      BY <3>1, Zenon DEF Members
    <3>4. Members(s) \ {d} \subseteq Members(t)
      <4> SUFFICES ASSUME NEW x \in Members(s), x # d PROVE x \in Members(t)
        OBVIOUS
      <4>1. PICK l \in 1 .. Len(s) : s[l] = x
        BY DEF Members
      <4>2. PICK k \in 1 .. Len(t) : t[k] = x
        BY <3>2, <4>1
      <4> QED
        BY <4>2, Zenon DEF Members
    <3> QED
      BY <3>3, <3>4
  <2>7. ASSUME NEW a, NEW b, a # d, b # d, Before(t, a, b)
        PROVE  Before(s, a, b)
    <3>1. PICK k, l \in 1 .. Len(t) : k < l /\ t[k] = a /\ t[l] = b
      BY <2>7 DEF Before
    <3> DEFINE kk == IF k < i THEN k ELSE k + 1
               ll == IF l < i THEN l ELSE l + 1
    <3>2. kk \in 1 .. Len(s) /\ ll \in 1 .. Len(s) /\ kk < ll /\ s[kk] = a /\ s[ll] = b
      BY <2>1, <2>3, <2>4, <3>1
    <3> QED
      BY <3>2 DEF Before
  <2>8. ASSUME NEW a, NEW b, a # d, b # d, Before(s, a, b)
        PROVE  Before(t, a, b)
    <3>1. PICK k, l \in 1 .. Len(s) : k < l /\ s[k] = a /\ s[l] = b
      BY <2>8 DEF Before
    <3> DEFINE kk == IF k < i THEN k ELSE k - 1
               ll == IF l < i THEN l ELSE l - 1
    <3>2. k # i /\ l # i
      BY <2>1, <2>8, <3>1
    <3>3. kk \in 1 .. Len(t) /\ ll \in 1 .. Len(t) /\ kk < ll /\ t[kk] = a /\ t[ll] = b
      BY <2>1, <2>3, <2>4, <3>1, <3>2
    <3> QED
      BY <3>3 DEF Before
  <2>9. Len(t) <= Len(s)
    BY <2>3
  <2> QED
    BY <2>3, <2>5, <2>6, <2>7, <2>8, <2>9 DEF t
<1> QED
  BY <1>1, <1>2

LEMMA Singleton ==
  ASSUME NEW S, NEW d \in S
  PROVE  /\ <<d>> \in Seq(S) /\ NoDuplicates(<<d>>) /\ Members(<<d>>) = {d}
         /\ \A a, b : ~Before(<<d>>, a, b)
BY DEF NoDuplicates, Members, Before

LEMMA AppendConcat ==
  ASSUME NEW S, NEW s \in Seq(S), NEW d \in S
  PROVE  Append(s, d) = s \o <<d>>
OBVIOUS

\* A device behind a list.
LEMMA AppendFacts ==
  ASSUME NEW S, NEW s \in Seq(S), NEW d \in S
  PROVE  LET t == s \o <<d>>
         IN  /\ t \in Seq(S)
             /\ Members(t) = Members(s) \cup {d}
             /\ NoDuplicates(s) /\ d \notin Members(s) => NoDuplicates(t)
             /\ \A a, b : Before(t, a, b) <=> Before(s, a, b) \/ (a \in Members(s) /\ b = d)
<1> DEFINE o == <<d>>
           t == s \o o
<1>1. /\ o \in Seq(S) /\ NoDuplicates(o) /\ Members(o) = {d}
      /\ \A a, b : ~Before(o, a, b)
  BY Singleton
<1> HIDE DEF o
<1>2. t \in Seq(S)
  BY <1>1
<1>3. Members(t) = Members(s) \cup Members(o)
  BY <1>1, MembersConcat
<1>4. NoDuplicates(s) /\ NoDuplicates(o) /\ Members(s) \cap Members(o) = {}
        => NoDuplicates(t)
  BY <1>1, NoDuplicatesConcat
<1>5. \A a, b : Before(t, a, b)
                  <=> \/ Before(s, a, b) \/ Before(o, a, b)
                      \/ a \in Members(s) /\ b \in Members(o)
  BY <1>1, BeforeConcat
<1> HIDE DEF t
<1>6. /\ t \in Seq(S)
      /\ Members(t) = Members(s) \cup {d}
      /\ NoDuplicates(s) /\ d \notin Members(s) => NoDuplicates(t)
      /\ \A a, b : Before(t, a, b) <=> Before(s, a, b) \/ (a \in Members(s) /\ b = d)
  BY <1>1, <1>2, <1>3, <1>4, <1>5
<1> QED
  BY <1>6 DEF t, o

\* A device in front of a list.
LEMMA PrependFacts ==
  ASSUME NEW S, NEW s \in Seq(S), NEW d \in S
  PROVE  LET t == <<d>> \o s
         IN  /\ t \in Seq(S)
             /\ Members(t) = Members(s) \cup {d}
             /\ NoDuplicates(s) /\ d \notin Members(s) => NoDuplicates(t)
             /\ \A a, b : Before(t, a, b) <=> Before(s, a, b) \/ (a = d /\ b \in Members(s))
<1> DEFINE o == <<d>>
           t == o \o s
<1>1. /\ o \in Seq(S) /\ NoDuplicates(o) /\ Members(o) = {d}
      /\ \A a, b : ~Before(o, a, b)
  BY Singleton
<1> HIDE DEF o
<1>2. t \in Seq(S)
  BY <1>1
<1>3. Members(t) = Members(o) \cup Members(s)
  BY <1>1, MembersConcat
<1>4. NoDuplicates(o) /\ NoDuplicates(s) /\ Members(o) \cap Members(s) = {}
        => NoDuplicates(t)
  BY <1>1, NoDuplicatesConcat
<1>5. \A a, b : Before(t, a, b)
                  <=> \/ Before(o, a, b) \/ Before(s, a, b)
                      \/ a \in Members(o) /\ b \in Members(s)
  BY <1>1, BeforeConcat
<1> HIDE DEF t
<1>6. /\ t \in Seq(S)
      /\ Members(t) = Members(s) \cup {d}
      /\ NoDuplicates(s) /\ d \notin Members(s) => NoDuplicates(t)
      /\ \A a, b : Before(t, a, b) <=> Before(s, a, b) \/ (a = d /\ b \in Members(s))
  BY <1>1, <1>2, <1>3, <1>4, <1>5
<1> QED
  BY <1>6 DEF t, o

\* The head stands before all others, the last one behind them.
LEMMA EndsOrdered ==
  ASSUME NEW S, NEW s \in Seq(S), s # <<>>
  PROVE  /\ Head(s) \in Members(s) /\ Last(s) \in Members(s)
         /\ Head(s) \in S /\ Last(s) \in S
         /\ \A a \in Members(s) : /\ a # Head(s) => Before(s, Head(s), a)
                                  /\ a # Last(s) => Before(s, a, Last(s))
<1>1. /\ 1 \in 1 .. Len(s) /\ Len(s) \in 1 .. Len(s) /\ Head(s) = s[1]
      /\ Last(s) = s[Len(s)]
  BY DEF Last
<1>2. Head(s) \in Members(s) /\ Last(s) \in Members(s)
  BY <1>1, Zenon DEF Members
<1>3. ASSUME NEW a \in Members(s)
      PROVE  /\ a # Head(s) => Before(s, Head(s), a)
             /\ a # Last(s) => Before(s, a, Last(s))
  <2>1. PICK i \in 1 .. Len(s) : s[i] = a
    BY DEF Members
  <2>2. a # Head(s) => 1 < i
    BY <1>1, <2>1
  <2>3. a # Last(s) => i < Len(s)
    BY <1>1, <2>1
  <2> QED
    BY <1>1, <2>1, <2>2, <2>3 DEF Before
<1> QED
  BY <1>1, <1>2, <1>3

-----------------------------------------------------------------------------
(* What the steps do to the two lists.                                     *)

\* The lists hold devices, each once.
ListTypes ==
  /\ dpm_list \in Seq(Devices) /\ moved \in Seq(Devices)
  /\ NoDuplicates(dpm_list) /\ NoDuplicates(moved)
  /\ Members(dpm_list) \cap Members(moved) = {}

LEMMA MoveTailEffect ==
  ASSUME ListTypes, NEW d \in Devices, MoveTail(d), d \notin Members(moved)
  PROVE  /\ ListTypes' /\ Listed' = Listed
         /\ Members(dpm_list') = Members(dpm_list) \ {d}
         /\ Members(moved') = IF d \in Listed THEN Members(moved) \cup {d}
                                              ELSE Members(moved)
         /\ (\A x \in Members(dpm_list) \ {d} : Before(dpm_list, d, x)) \/ d \notin Listed =>
              \A a, b : Before(moved \o dpm_list, a, b)
                          => Before(moved' \o dpm_list', a, b)
<1> USE DEF ListTypes
<1>1. /\ dpm_list' \in Seq(Devices) /\ NoDuplicates(dpm_list')
      /\ Members(dpm_list') = Members(dpm_list) \ {d}
      /\ \A a, b : a # d /\ b # d => (Before(dpm_list', a, b) <=> Before(dpm_list, a, b))
  BY ListDel DEF MoveTail
<1>2. CASE d \in Listed
  <2>1. moved' = moved \o <<d>>
    BY <1>2, AppendConcat DEF MoveTail
  <2>2. /\ moved' \in Seq(Devices) /\ Members(moved') = Members(moved) \cup {d}
        /\ NoDuplicates(moved')
    BY <2>1, AppendFacts
  <2>3. \A a, b : Before(moved', a, b)
                    <=> Before(moved, a, b) \/ (a \in Members(moved) /\ b = d)
    BY <2>1, AppendFacts
  <2>4. ListTypes' /\ Listed' = Listed
    BY <1>1, <1>2, <2>2 DEF Listed
  <2>5. ASSUME \A x \in Members(dpm_list) \ {d} : Before(dpm_list, d, x),
               NEW a, NEW b, Before(moved \o dpm_list, a, b)
        PROVE  Before(moved' \o dpm_list', a, b)
    <3>1. \/ Before(moved, a, b) \/ Before(dpm_list, a, b)
          \/ a \in Members(moved) /\ b \in Members(dpm_list)
      BY <2>5, BeforeConcat
    <3>2. Before(dpm_list, a, b) => a # b /\ ~Before(dpm_list, b, a) 
            /\ a \in Members(dpm_list) /\ b \in Members(dpm_list)
      BY BeforeAsym, BeforeMembers
    <3>3. \/ Before(moved', a, b) \/ Before(dpm_list', a, b)
          \/ a \in Members(moved') /\ b \in Members(dpm_list')
      BY <1>1, <2>2, <2>3, <2>5, <3>1, <3>2
    <3> QED
      BY <1>1, <2>2, <3>3, BeforeConcat
  <2> QED
    BY <1>1, <1>2, <2>2, <2>4, <2>5
<1>3. CASE d \notin Listed
  <2>1. moved' = moved /\ d \notin Members(dpm_list)
    BY <1>3 DEF MoveTail, Listed
  <2>2. dpm_list' = dpm_list
    BY <2>1 DEF MoveTail, list_del
  <2> QED
    BY <1>1, <1>3, <2>1, <2>2 DEF Listed
<1> QED
  BY <1>2, <1>3

LEMMA MoveHeadEffect ==
  ASSUME ListTypes, NEW d \in Devices, MoveHead(d), d \notin Members(moved)
  PROVE  /\ ListTypes' /\ Listed' = Listed
         /\ Members(dpm_list') = Members(dpm_list) \ {d}
         /\ Members(moved') = IF d \in Listed THEN Members(moved) \cup {d}
                                              ELSE Members(moved)
         /\ \A a, b : Before(dpm_list \o moved, a, b) /\ ~(a = d /\ Before(dpm_list, d, b))
                        => Before(dpm_list' \o moved', a, b)
<1> USE DEF ListTypes
<1>1. /\ dpm_list' \in Seq(Devices) /\ NoDuplicates(dpm_list')
      /\ Members(dpm_list') = Members(dpm_list) \ {d}
      /\ \A a, b : a # d /\ b # d => (Before(dpm_list', a, b) <=> Before(dpm_list, a, b))
  BY ListDel DEF MoveHead
<1>2. CASE d \in Listed
  <2>1. moved' = <<d>> \o moved
    BY <1>2 DEF MoveHead
  <2>2. /\ moved' \in Seq(Devices) /\ Members(moved') = Members(moved) \cup {d}
        /\ NoDuplicates(moved')
    BY <2>1, PrependFacts
  <2>3. \A a, b : Before(moved', a, b)
                    <=> Before(moved, a, b) \/ (a = d /\ b \in Members(moved))
    BY <2>1, PrependFacts
  <2>4. ListTypes' /\ Listed' = Listed
    BY <1>1, <1>2, <2>2 DEF Listed
  <2>5. ASSUME NEW a, NEW b, Before(dpm_list \o moved, a, b),
               ~(a = d /\ Before(dpm_list, d, b))
        PROVE  Before(dpm_list' \o moved', a, b)
    <3>1. \/ Before(moved, a, b) \/ Before(dpm_list, a, b)
          \/ a \in Members(dpm_list) /\ b \in Members(moved)
      BY <2>5, BeforeConcat
    <3>2. Before(dpm_list, a, b) => a # b /\ ~Before(dpm_list, b, a)
            /\ a \in Members(dpm_list) /\ b \in Members(dpm_list)
      BY BeforeAsym, BeforeMembers
    <3>3. \/ Before(moved', a, b) \/ Before(dpm_list', a, b)
          \/ a \in Members(dpm_list') /\ b \in Members(moved')
      BY <1>1, <2>2, <2>3, <2>5, <3>1, <3>2
    <3> QED
      BY <1>1, <2>2, <3>3, BeforeConcat
  <2> QED
    BY <1>1, <1>2, <2>2, <2>4, <2>5
<1>3. CASE d \notin Listed
  <2>1. moved' = moved /\ d \notin Members(dpm_list)
    BY <1>3 DEF MoveHead, Listed
  <2>2. dpm_list' = dpm_list
    BY <2>1 DEF MoveHead, list_del
  <2> QED
    BY <1>1, <1>3, <2>1, <2>2 DEF Listed
<1> QED
  BY <1>2, <1>3

\* list_splice of everything on either list.
LEMMA SpliceEffect ==
  ASSUME ListTypes, NEW l, Splice(l),
         \/ l = dpm_list \o moved \/ l = moved \o dpm_list
         \/ l = moved /\ dpm_list = <<>>
  PROVE  /\ ListTypes' /\ Listed' = Listed
         /\ dpm_list' = l /\ moved' = <<>> /\ Members(dpm_list') = Listed
         /\ dpm_list' \o moved' = l
<1> USE DEF ListTypes
<1>1. l \in Seq(Devices) /\ NoDuplicates(l) /\ Members(l) = Listed
  <2>1. CASE l = dpm_list \o moved
    BY <2>1, MembersConcat, NoDuplicatesConcat DEF Listed
  <2>2. CASE l = moved \o dpm_list
    BY <2>2, MembersConcat, NoDuplicatesConcat DEF Listed
  <2>3. CASE l = moved /\ dpm_list = <<>>
    BY <2>3, MembersEmpty DEF Listed
  <2> QED
    BY <2>1, <2>2, <2>3
<1>2. dpm_list' = l /\ moved' = <<>> /\ moved' \in Seq(Devices)
  BY DEF Splice
<1>3. NoDuplicates(moved') /\ Members(moved') = {}
  BY <1>2, MembersEmpty
<1>4. l \o <<>> = l
  BY <1>1
<1> QED
  BY <1>1, <1>2, <1>3, <1>4 DEF Listed

LEMMA AddEffect ==
  ASSUME ListTypes, NEW d \in Devices, d \notin Listed,
         dpm_list' = Append(dpm_list, d), moved' = moved
  PROVE  /\ ListTypes' /\ Listed' = Listed \cup {d}
         /\ Members(dpm_list') = Members(dpm_list) \cup {d}
         /\ Len(dpm_list') = Len(dpm_list) + 1
         /\ \A a, b : Before(dpm_list', a, b)
                        <=> Before(dpm_list, a, b) \/ (a \in Members(dpm_list) /\ b = d)
<1> USE DEF ListTypes
<1>1. dpm_list' = dpm_list \o <<d>> /\ dpm_list' \in Seq(Devices)
      /\ Len(dpm_list') = Len(dpm_list) + 1
  BY AppendConcat
<1>2. Members(dpm_list') = Members(dpm_list) \cup {d} /\ NoDuplicates(dpm_list')
  BY <1>1, AppendFacts DEF Listed
<1>3. \A a, b : Before(dpm_list', a, b)
                  <=> Before(dpm_list, a, b) \/ (a \in Members(dpm_list) /\ b = d)
  BY <1>1, AppendFacts
<1> QED
  BY <1>1, <1>2, <1>3 DEF Listed

LEMMA RemoveEffect ==
  ASSUME ListTypes, NEW d \in Devices,
         dpm_list' = list_del(dpm_list, d), moved' = list_del(moved, d)
  PROVE  /\ ListTypes' /\ Listed' = Listed \ {d}
         /\ Members(dpm_list') = Members(dpm_list) \ {d}
         /\ Members(moved') = Members(moved) \ {d}
         /\ \A a, b : a # d /\ b # d =>
              /\ Before(dpm_list', a, b) <=> Before(dpm_list, a, b)
              /\ Before(moved', a, b) <=> Before(moved, a, b)
<1> USE DEF ListTypes
<1>1. /\ dpm_list' \in Seq(Devices) /\ NoDuplicates(dpm_list')
      /\ Members(dpm_list') = Members(dpm_list) \ {d}
      /\ \A a, b : a # d /\ b # d => (Before(dpm_list', a, b) <=> Before(dpm_list, a, b))
  BY ListDel
<1>2. /\ moved' \in Seq(Devices) /\ NoDuplicates(moved')
      /\ Members(moved') = Members(moved) \ {d}
      /\ \A a, b : a # d /\ b # d => (Before(moved', a, b) <=> Before(moved, a, b))
  BY ListDel
<1> QED
  BY <1>1, <1>2 DEF Listed

-----------------------------------------------------------------------------
(* The inductive invariant.                                                *)

\* The types of everything but the lists.
ScalarTypes ==
  /\ status \in [Devices -> DPM_ON .. DPM_OFF_IRQ]
  /\ cur \in Devices \cup {NoDevice}
  /\ phase \in Phases
  /\ again \in BOOLEAN
  /\ pos \in 0 .. (Len(dpm_list) + 1)
  /\ transition_started \in BOOLEAN
  /\ stage \in [Devices -> Stages]
  /\ warned \subseteq Listed
  /\ late \subseteq Listed

\* The status of a device tells how far its callbacks have brought it.
StagesOK ==
  \A d \in Devices :
    /\ stage[d] = "on" <=> status[d] \in {DPM_ON, DPM_PREPARING}
    /\ stage[d] = "prepared" <=> status[d] \in {DPM_RESUMING, DPM_SUSPENDING}
    /\ stage[d] = "off" <=> status[d] = DPM_OFF
    /\ stage[d] = "deep" <=> status[d] = DPM_OFF_IRQ

Looping == {"prepare", "suspend", "resume", "complete"}

LatePhases == {"power_down", "deep", "power_up"}

\* The variables of the loops between and in the loops.
LoopOK ==
  /\ phase \notin Looping => cur = NoDevice /\ moved = <<>>
  /\ phase \notin LatePhases => pos = 0
  /\ phase = "deep" => pos = 0
  /\ phase = "power_down" => pos <= Len(dpm_list)
  /\ phase = "power_up" => pos >= 1
  /\ transition_started
       <=> phase \in {"prepare", "suspend", "failed", "suspended"} \cup LatePhases

\* What each loop has done to the devices behind it and not to those before it.
\* A device that comes while the others go down comes with a warning.
StatusOK ==
  /\ phase = "idle" => \A d \in Listed : status[d] = DPM_ON
  /\ phase = "prepare" =>
       /\ \A d \in Members(moved) : status[d] = DPM_SUSPENDING
       /\ \A d \in Members(dpm_list) \ {cur} : status[d] = DPM_ON
       /\ cur # NoDevice => status[cur] = DPM_PREPARING
  /\ phase = "suspend" =>
       /\ \A d \in Members(moved) : status[d] = DPM_OFF
       /\ \A d \in Listed \ warned : status[d] >= DPM_SUSPENDING
  /\ phase \in {"suspended"} \cup LatePhases =>
       \A d \in Listed \ warned : status[d] >= DPM_OFF
  /\ phase \notin LatePhases => \A d \in Listed : status[d] <= DPM_OFF
  /\ phase = "power_down" =>
       \A i \in 1 .. Len(dpm_list) : i > pos => status[dpm_list[i]] = DPM_OFF_IRQ
  /\ phase = "deep" => \A d \in Listed : status[d] = DPM_OFF_IRQ
  /\ phase = "power_up" =>
       \A i \in 1 .. Len(dpm_list) : i < pos => status[dpm_list[i]] <= DPM_OFF
  /\ phase = "resume" =>
       /\ \A d \in Members(moved) : status[d] < DPM_OFF
       /\ cur # NoDevice => status[cur] < DPM_OFF
  /\ phase = "complete" =>
       /\ \A d \in Listed : status[d] < DPM_OFF
       /\ \A d \in Members(moved) : status[d] = DPM_ON
       /\ cur # NoDevice => status[cur] = DPM_ON

\* The device whose callback runs is still where the loop found it, or gone;
\* what was registered behind it meanwhile is excused.
CurOK ==
  /\ cur \notin Members(moved)
  /\ phase \in {"prepare", "resume"} /\ cur \in Members(dpm_list) =>
       \A x \in Members(dpm_list) \ {cur} : Before(dpm_list, cur, x)
  /\ phase \in {"suspend", "complete"} =>
       \A x : Before(dpm_list, cur, x) => x \in warned \cup late

\* A listed device has its parent on the list, and warnings are inherited.
Closed ==
  \A d \in Listed : Parent[d] # NoDevice =>
    Parent[d] \in Listed /\ (Parent[d] \in warned => d \in warned)

DpmInv ==
  /\ ListTypes /\ ScalarTypes /\ StagesOK /\ LoopOK /\ StatusOK /\ CurOK
  /\ Closed /\ OrderKept /\ ChildrenFirst

USE DevicesAssumption, ParentAssumption
DEF DPM_ON, DPM_PREPARING, DPM_RESUMING, DPM_SUSPENDING, DPM_OFF, DPM_OFF_IRQ

LEMMA TypesJoined == ListTypes /\ ScalarTypes => DpmTypeOK
BY NoDuplicatesConcat DEF ListTypes, ScalarTypes, DpmTypeOK

LEMMA ListedDevices ==
  ListTypes => /\ Members(dpm_list) \subseteq Devices /\ Members(moved) \subseteq Devices
               /\ Listed \subseteq Devices
               /\ NoDevice \notin Members(dpm_list) /\ NoDevice \notin Members(moved)
BY DEF ListTypes, Members, Listed

LEMMA InvInit == DpmInit => DpmInv
<1> SUFFICES ASSUME DpmInit PROVE DpmInv
  OBVIOUS
<1>1. dpm_list = <<>> /\ moved = <<>> /\ dpm_list \in Seq(Devices) /\ Len(dpm_list) = 0
  BY DEF DpmInit
<1>2. ListTypes /\ Listed = {}
  BY <1>1, MembersEmpty DEF ListTypes, Listed
<1>b. again \in BOOLEAN /\ transition_started \in BOOLEAN
  BY Zenon DEF DpmInit
<1>3. ScalarTypes
  BY <1>1, <1>2, <1>b DEF DpmInit, ScalarTypes, Phases, Stages
<1>4. StagesOK
  BY DEF DpmInit, StagesOK
<1>5. LoopOK
  BY DEF DpmInit, LoopOK, Looping, LatePhases
<1>6. StatusOK /\ CurOK
  BY <1>2 DEF DpmInit, StatusOK, CurOK, LatePhases, Listed
<1>7. Closed /\ OrderKept /\ ChildrenFirst
  BY <1>2 DEF Closed, OrderKept, ChildrenFirst
<1> QED
  BY <1>2, <1>3, <1>4, <1>5, <1>6, <1>7 DEF DpmInv

-----------------------------------------------------------------------------
(* The order of the list and the tree.                                     *)

LEMMA OrderPlain ==
  ASSUME ListTypes, moved = <<>>
  PROVE  Order = dpm_list /\ Listed = Members(dpm_list)
<1>1. dpm_list \o <<>> = dpm_list /\ <<>> \o dpm_list = dpm_list
  BY DEF ListTypes
<1> QED
  BY <1>1, MembersEmpty DEF Order, Listed

\* Where no device comes and no order is lost but that of excused devices, the
\* order is kept.
LEMMA OrderStep ==
  ASSUME OrderKept, Listed' \subseteq Listed,
         \A d \in Listed' : d \in warned \cup late => d \in warned' \cup late',
         \A a, b \in Listed' :
           b \notin warned' \cup late' /\ Before(Order, a, b) => Before(Order', a, b),
         Closed'
  PROVE  OrderKept'
BY DEF OrderKept, Closed

LEMMA ClosedStep ==
  ASSUME Closed, Listed' = Listed, warned' = warned
  PROVE  Closed'
BY DEF Closed

\* A loop whose devices do not leave or enter the deeper stages keeps ChildrenFirst.
LEMMA ChildrenStep ==
  ASSUME ChildrenFirst, Closed, Listed' = Listed, UNCHANGED <<warned, late>>,
         \A d \in Listed : stage[d] \in Off <=> stage'[d] \in Off
  PROVE  ChildrenFirst'
BY DEF ChildrenFirst, Closed

-----------------------------------------------------------------------------
(* The loop of dpm_prepare.                                                *)

LEMMA PrepareNextStep ==
  ASSUME DpmInv, dpm_prepare_next
  PROVE  DpmInv'
<1> USE DEF DpmInv, dpm_prepare_next, historyVars, listVars
<1>1. CASE dpm_list = <<>>
  <2>1. Splice(moved) /\ phase' \in {"failed", "suspend"} /\ UNCHANGED <<status, cur>>
    BY <1>1
  <2>2. /\ ListTypes' /\ Listed' = Listed /\ dpm_list' = moved /\ moved' = <<>>
        /\ Members(dpm_list') = Listed
    BY <1>1, <2>1, SpliceEffect
  <2>3. Order' = moved /\ Order = moved
    <3>1. <<>> \in Seq(Devices) /\ moved \in Seq(Devices)
      BY DEF ListTypes
    <3>2. moved \o <<>> = moved
      BY <3>1
    <3> QED
      BY <1>1, <2>1, <2>2, <3>2 DEF Order
  <2>4. Members(dpm_list) = {} /\ Members(moved') = {}
    BY <1>1, <2>2, MembersEmpty
  <2>5. again' \in BOOLEAN
    BY <1>1, Zenon
  <2>6. ScalarTypes'
    BY <2>1, <2>2, <2>5 DEF ScalarTypes, LoopOK, LatePhases, Phases, ListTypes
  <2>7. LoopOK'
    BY <2>1, <2>2 DEF LoopOK, Looping, LatePhases
  <2>8. StagesOK'
    BY <2>1 DEF StagesOK
  <2>9. StatusOK'
    BY <2>1, <2>2, <2>4 DEF StatusOK, LatePhases, ScalarTypes, Listed
  <2>10. CurOK'
    <3>1. cur' = NoDevice /\ NoDevice \notin Members(dpm_list')
      BY <2>1, <2>2 DEF ListTypes, Members
    <3> QED
      BY <2>1, <2>4, <3>1, BeforeMembers DEF CurOK
  <2>11. Closed'
    BY <2>2, ClosedStep
  <2>12. OrderKept'
    BY <2>2, <2>3, <2>11, OrderStep
  <2>13. ChildrenFirst'
    BY <2>2, ChildrenStep
  <2> QED
    BY <2>2, <2>6, <2>7, <2>8, <2>9, <2>10, <2>11, <2>12, <2>13
<1>2. CASE dpm_list # <<>>
  <2>1. /\ cur' = Head(dpm_list) /\ status' = [status EXCEPT ![cur'] = DPM_PREPARING]
        /\ UNCHANGED <<dpm_list, moved, phase, again>>
    BY <1>2
  <2>2. /\ cur' \in Devices /\ cur' \in Members(dpm_list)
        /\ \A x \in Members(dpm_list) \ {cur'} : Before(dpm_list, cur', x)
    BY <1>2, <2>1, EndsOrdered DEF ListTypes
  <2>3. ListTypes' /\ Listed' = Listed /\ Order' = Order
    BY <2>1 DEF ListTypes, Listed, Order
  <2>4. ScalarTypes'
    BY <2>1, <2>2, <2>3 DEF ScalarTypes
  <2>5. LoopOK'
    BY <2>1 DEF LoopOK, Looping, LatePhases
  <2>6. status[cur'] = DPM_ON
    BY <2>2 DEF StatusOK, ListTypes
  <2>7. StagesOK'
    BY <2>1, <2>2, <2>6 DEF StagesOK, ScalarTypes
  <2>8. cur' \notin Members(moved)
    BY <2>2 DEF ListTypes
  <2>9. StatusOK'
    <3>1. \A d \in Listed : status'[d] = IF d = cur' THEN DPM_PREPARING ELSE status[d]
      BY <2>1, <2>2, ListedDevices DEF ScalarTypes
    <3> QED
      BY <2>1, <2>2, <2>3, <2>8, <3>1, ListedDevices DEF StatusOK, LatePhases, Listed
  <2>10. CurOK'
    BY <2>1, <2>2, <2>8 DEF CurOK
  <2>11. Closed'
    BY <2>3, ClosedStep
  <2>12. OrderKept'
    BY <2>3, <2>11, OrderStep
  <2>13. ChildrenFirst'
    BY <2>3, ChildrenStep
  <2> QED
    BY <2>3, <2>4, <2>5, <2>7, <2>9, <2>10, <2>11, <2>12, <2>13
<1> QED
  BY <1>1, <1>2

LEMMA PrepareOkStep ==
  ASSUME DpmInv, prepare_device_ok
  PROVE  DpmInv'
<1> USE DEF DpmInv, prepare_device_ok
<1>1. cur \in Devices /\ MoveTail(cur) /\ cur \notin Members(moved)
  BY DEF ScalarTypes, CurOK
<1>2. /\ ListTypes' /\ Listed' = Listed
      /\ Members(dpm_list') = Members(dpm_list) \ {cur}
      /\ Members(moved') = IF cur \in Listed THEN Members(moved) \cup {cur}
                                             ELSE Members(moved)
      /\ \A a, b : Before(moved \o dpm_list, a, b) => Before(moved' \o dpm_list', a, b)
  <2>1. (\A x \in Members(dpm_list) \ {cur} : Before(dpm_list, cur, x)) \/ cur \notin Listed
    BY <1>1 DEF CurOK, Listed
  <2> QED
    BY <1>1, <2>1, MoveTailEffect
<1>3. again' \in BOOLEAN
  BY Zenon
<1>4. ScalarTypes'
  BY <1>1, <1>2, <1>3 DEF ScalarTypes, LoopOK, LatePhases, Stages, ListTypes
<1>5. LoopOK'
  BY DEF LoopOK, Looping, LatePhases
<1>6. StagesOK'
  BY <1>1 DEF StagesOK, ScalarTypes
<1>7. StatusOK'
  BY <1>1, <1>2 DEF StatusOK, LatePhases, ScalarTypes, ListTypes, Listed
<1>8. CurOK'
  <2>1. NoDevice \notin Members(dpm_list') /\ NoDevice \notin Members(moved')
    BY <1>2 DEF ListTypes, Members
  <2> QED
    BY <2>1 DEF CurOK
<1>9. Closed'
  BY <1>2, ClosedStep
<1>10. OrderKept'
  BY <1>2, <1>9, OrderStep DEF Order
<1>11. ChildrenFirst'
  BY <1>1, <1>2, ChildrenStep DEF Off, StagesOK, StatusOK, ScalarTypes
<1> QED
  BY <1>2, <1>4, <1>5, <1>6, <1>7, <1>8, <1>9, <1>10, <1>11
LEMMA PrepareAgainStep ==
  ASSUME DpmInv, prepare_device_again
  PROVE  DpmInv'
<1> USE DEF DpmInv, prepare_device_again, historyVars, listVars
<1>1. cur \in Devices /\ UNCHANGED <<dpm_list, moved, phase>> /\ cur' = NoDevice
  BY DEF ScalarTypes
<1>2. ListTypes' /\ Listed' = Listed /\ Order' = Order
  BY <1>1 DEF ListTypes, Listed, Order
<1>3. again' \in BOOLEAN
  BY Zenon
<1>4. ScalarTypes'
  BY <1>1, <1>2, <1>3 DEF ScalarTypes
<1>5. LoopOK'
  BY <1>1 DEF LoopOK, Looping, LatePhases
<1>6. StagesOK'
  BY <1>1 DEF StagesOK, ScalarTypes, StatusOK
<1>7. StatusOK'
  <2>1. \A d \in Listed : status'[d] = IF d = cur THEN DPM_ON ELSE status[d]
    BY <1>1, ListedDevices DEF ScalarTypes
  <2> QED
    BY <1>1, <1>2, <2>1, ListedDevices DEF StatusOK, CurOK, LatePhases, Listed
<1>8. CurOK'
  BY <1>1, ListedDevices DEF CurOK
<1>9. Closed'
  BY <1>2, ClosedStep
<1>10. OrderKept'
  BY <1>2, <1>9, OrderStep
<1>11. ChildrenFirst'
  BY <1>2, ChildrenStep
<1> QED
  BY <1>2, <1>4, <1>5, <1>6, <1>7, <1>8, <1>9, <1>10, <1>11

LEMMA PrepareFailsStep ==
  ASSUME DpmInv, prepare_device_fails
  PROVE  DpmInv'
<1> USE DEF DpmInv, prepare_device_fails, historyVars
<1>1. cur \in Devices /\ Splice(moved \o dpm_list) /\ cur' = NoDevice /\ phase' = "failed"
  BY DEF ScalarTypes
<1>2. /\ ListTypes' /\ Listed' = Listed /\ moved' = <<>> /\ dpm_list' = moved \o dpm_list
  BY <1>1, SpliceEffect
<1>3. Order' = Order
  BY <1>2, OrderPlain DEF Order
<1>4. again' \in BOOLEAN
  BY Zenon
<1>5. ScalarTypes'
  BY <1>1, <1>2, <1>4 DEF ScalarTypes, LoopOK, LatePhases, Phases, ListTypes
<1>6. LoopOK'
  BY <1>1, <1>2 DEF LoopOK, Looping, LatePhases
<1>7. StagesOK'
  BY <1>1 DEF StagesOK, ScalarTypes, StatusOK
<1>8. StatusOK'
  <2>1. \A d \in Listed : status'[d] = IF d = cur THEN DPM_ON ELSE status[d]
    BY <1>1, ListedDevices DEF ScalarTypes
  <2> QED
    BY <1>1, <1>2, <2>1, ListedDevices DEF StatusOK, LatePhases
<1>9. CurOK'
  <2>1. NoDevice \notin Members(moved')
    BY <1>2, MembersEmpty
  <2> QED
    BY <1>1, <2>1 DEF CurOK
<1>10. Closed'
  BY <1>2, ClosedStep
<1>11. OrderKept'
  BY <1>2, <1>3, <1>10, OrderStep
<1>12. ChildrenFirst'
  BY <1>2, ChildrenStep
<1> QED
  BY <1>2, <1>5, <1>6, <1>7, <1>8, <1>9, <1>10, <1>11, <1>12

-----------------------------------------------------------------------------
(* The loop of dpm_suspend.                                                *)

LEMMA SuspendNextStep ==
  ASSUME DpmInv, dpm_suspend_next
  PROVE  DpmInv'
<1> USE DEF DpmInv, dpm_suspend_next, historyVars, listVars
<1>1. CASE dpm_list = <<>>
  <2>1. Splice(moved) /\ phase' = "suspended" /\ UNCHANGED cur
    BY <1>1
  <2>2. /\ ListTypes' /\ Listed' = Listed /\ dpm_list' = moved /\ moved' = <<>>
    BY <1>1, <2>1, SpliceEffect
  <2>3. Order' = Order
    <3>1. <<>> \o moved = moved
      BY DEF ListTypes
    <3> QED
      BY <1>1, <2>2, <3>1, OrderPlain DEF Order
  <2>4. Members(dpm_list) = {} /\ Members(moved') = {}
    BY <1>1, <2>2, MembersEmpty
  <2>6. ScalarTypes'
    BY <2>1, <2>2 DEF ScalarTypes, LoopOK, LatePhases, Phases, ListTypes
  <2>7. LoopOK'
    BY <2>1, <2>2 DEF LoopOK, Looping, LatePhases
  <2>8. StagesOK'
    BY DEF StagesOK
  <2>9. StatusOK'
    BY <2>1, <2>2, <2>4, ListedDevices DEF StatusOK, LatePhases, Listed
  <2>10. CurOK'
    BY <2>1, <2>4 DEF CurOK
  <2>11. Closed'
    BY <2>2, ClosedStep
  <2>12. OrderKept'
    BY <2>2, <2>3, <2>11, OrderStep
  <2>13. ChildrenFirst'
    BY <2>2, ChildrenStep
  <2> QED
    BY <2>2, <2>6, <2>7, <2>8, <2>9, <2>10, <2>11, <2>12, <2>13
<1>2. CASE dpm_list # <<>>
  <2>1. cur' = Last(dpm_list) /\ UNCHANGED <<dpm_list, moved, phase>>
    BY <1>2
  <2>2. /\ cur' \in Devices /\ cur' \in Members(dpm_list)
        /\ \A x \in Members(dpm_list) \ {cur'} : Before(dpm_list, x, cur')
    BY <1>2, <2>1, EndsOrdered DEF ListTypes
  <2>3. ListTypes' /\ Listed' = Listed /\ Order' = Order
    BY <2>1 DEF ListTypes, Listed, Order
  <2>4. ScalarTypes'
    BY <2>1, <2>2, <2>3 DEF ScalarTypes
  <2>5. LoopOK'
    BY <2>1 DEF LoopOK, Looping, LatePhases
  <2>7. StagesOK'
    BY DEF StagesOK
  <2>9. StatusOK'
    BY <2>1, <2>3 DEF StatusOK, LatePhases
  <2>10. CurOK'
    <3>1. \A x : ~Before(dpm_list, cur', x)
      BY <2>2, BeforeAsym, BeforeMembers DEF ListTypes
    <3> QED
      BY <2>1, <2>2, <3>1 DEF CurOK, ListTypes
  <2>11. Closed'
    BY <2>3, ClosedStep
  <2>12. OrderKept'
    BY <2>3, <2>11, OrderStep
  <2>13. ChildrenFirst'
    BY <2>3, ChildrenStep
  <2> QED
    BY <2>3, <2>4, <2>5, <2>7, <2>9, <2>10, <2>11, <2>12, <2>13
<1> QED
  BY <1>1, <1>2

LEMMA SuspendOkStep ==
  ASSUME DpmInv, suspend_device_ok
  PROVE  DpmInv'
<1> USE DEF DpmInv, suspend_device_ok
<1>1. cur \in Devices /\ MoveHead(cur) /\ cur \notin Members(moved) /\ cur' = NoDevice
  BY DEF ScalarTypes, CurOK
<1>2. /\ ListTypes' /\ Listed' = Listed
      /\ Members(dpm_list') = Members(dpm_list) \ {cur}
      /\ Members(moved') = IF cur \in Listed THEN Members(moved) \cup {cur}
                                             ELSE Members(moved)
      /\ \A a, b : Before(dpm_list \o moved, a, b) /\ ~(a = cur /\ Before(dpm_list, cur, b))
                     => Before(dpm_list' \o moved', a, b)
  BY <1>1, MoveHeadEffect
<1>4. ScalarTypes'
  BY <1>1, <1>2 DEF ScalarTypes, LoopOK, LatePhases, Stages, ListTypes
<1>5. LoopOK'
  BY DEF LoopOK, Looping, LatePhases
<1>6. StagesOK'
  BY <1>1 DEF StagesOK, ScalarTypes
<1>s. \A d \in Listed : status'[d] = IF d = cur THEN DPM_OFF ELSE status[d]
  BY <1>1, ListedDevices DEF ScalarTypes
<1>7. StatusOK'
  BY <1>1, <1>2, <1>s, ListedDevices DEF StatusOK, LatePhases, Listed
<1>8. CurOK'
  <2>1. NoDevice \notin Members(dpm_list') /\ NoDevice \notin Members(moved')
    BY <1>2, ListedDevices
  <2> QED
    BY <1>1, <2>1, BeforeMembers DEF CurOK
<1>9. Closed'
  BY <1>2, ClosedStep
<1>10. OrderKept'
  <2>1. Order = dpm_list \o moved /\ Order' = dpm_list' \o moved'
    BY DEF Order
  <2> QED
    BY <1>2, <1>9, <2>1, OrderStep DEF CurOK
<1>11. ChildrenFirst'
  <2> SUFFICES ASSUME NEW d \in Listed, d \notin warned \cup late,
                      Parent[d] # NoDevice, stage'[Parent[d]] \in Off
               PROVE  stage'[d] \in Off
    BY <1>2 DEF ChildrenFirst
  <2>1. Parent[d] \in Listed /\ d \in Devices /\ Parent[d] \in Devices /\ d # Parent[d]
    BY ListedDevices DEF Closed
  <2>2. CASE Parent[d] # cur
    BY <1>1, <2>1, <2>2 DEF ChildrenFirst, ScalarTypes, Off
  <2>3. CASE Parent[d] = cur
    <3>1. Before(dpm_list \o moved, cur, d)
      BY <2>3 DEF OrderKept, Order
    <3>2. \/ Before(dpm_list, cur, d) \/ Before(moved, cur, d)
          \/ cur \in Members(dpm_list) /\ d \in Members(moved)
      BY <3>1, BeforeConcat DEF ListTypes
    <3>3. d \in Members(moved)
      BY <1>1, <3>2, BeforeMembers DEF CurOK
    <3>4. stage[d] = "off"
      BY <2>1, <3>3 DEF StatusOK, StagesOK
    <3> QED
      BY <1>1, <2>1, <3>4 DEF Off, ScalarTypes
  <2> QED
    BY <2>2, <2>3
<1> QED
  BY <1>2, <1>4, <1>5, <1>6, <1>7, <1>8, <1>9, <1>10, <1>11

LEMMA SuspendFailsStep ==
  ASSUME DpmInv, suspend_device_fails
  PROVE  DpmInv'
<1> USE DEF DpmInv, suspend_device_fails, historyVars
<1>1. Splice(dpm_list \o moved) /\ cur' = NoDevice /\ phase' = "failed"
  OBVIOUS
<1>2. ListTypes' /\ Listed' = Listed /\ moved' = <<>> /\ dpm_list' = dpm_list \o moved
  BY <1>1, SpliceEffect
<1>3. Order' = Order
  BY <1>2, OrderPlain DEF Order
<1>5. ScalarTypes'
  BY <1>1, <1>2 DEF ScalarTypes, LoopOK, LatePhases, Phases, ListTypes
<1>6. LoopOK'
  BY <1>1, <1>2 DEF LoopOK, Looping, LatePhases
<1>7. StagesOK'
  BY DEF StagesOK
<1>8. StatusOK'
  BY <1>1, <1>2 DEF StatusOK, LatePhases
<1>9. CurOK'
  <2>1. NoDevice \notin Members(moved')
    BY <1>2, MembersEmpty
  <2> QED
    BY <1>1, <2>1 DEF CurOK
<1>10. Closed'
  BY <1>2, ClosedStep
<1>11. OrderKept'
  BY <1>2, <1>3, <1>10, OrderStep
<1>12. ChildrenFirst'
  BY <1>2, ChildrenStep
<1> QED
  BY <1>2, <1>5, <1>6, <1>7, <1>8, <1>9, <1>10, <1>11, <1>12

-----------------------------------------------------------------------------
(* The late loops and the calls: the lists stay as they are.               *)

LEMMA PlainStep ==
  ASSUME DpmInv, moved = <<>>, UNCHANGED <<dpm_list, moved, warned, late>>
  PROVE  /\ ListTypes' /\ Listed' = Listed /\ Members(dpm_list) = Listed
         /\ Members(moved) = {}
         /\ Closed' /\ OrderKept'
<1> USE DEF DpmInv
<1>1. ListTypes' /\ Listed' = Listed
  BY DEF ListTypes, Listed
<1>2. Order = dpm_list /\ Listed = Members(dpm_list)
  BY OrderPlain
<1>3. dpm_list \o <<>> = dpm_list /\ <<>> \o dpm_list = dpm_list
  BY DEF ListTypes
<1>4. Order' = dpm_list
  BY <1>3 DEF Order
<1>5. Closed'
  BY <1>1, ClosedStep
<1> QED
  BY <1>1, <1>2, <1>4, <1>5, OrderStep, MembersEmpty

LEMMA NoirqOkStep ==
  ASSUME DpmInv, suspend_device_noirq_ok
  PROVE  DpmInv'
<1> USE DEF DpmInv, suspend_device_noirq_ok, listVars
<1> DEFINE e == dpm_list[pos]
<1>1. /\ moved = <<>> /\ cur = NoDevice /\ pos \in 1 .. Len(dpm_list)
      /\ UNCHANGED <<dpm_list, moved, warned, late, cur, phase>>
  BY DEF LoopOK, LatePhases, Looping, ScalarTypes, ListTypes
<1>2. /\ ListTypes' /\ Listed' = Listed /\ Members(dpm_list) = Listed
      /\ Members(moved) = {} /\ Closed' /\ OrderKept'
  BY <1>1, PlainStep
<1>3. e \in Listed /\ e \in Devices
  BY <1>1, <1>2, ListedDevices DEF Members
<1> HIDE DEF e
<1>4. /\ status' = [status EXCEPT ![e] = DPM_OFF_IRQ]
      /\ stage' = [stage EXCEPT ![e] = "deep"] /\ pos' = pos - 1
  BY DEF e
<1>5. ScalarTypes'
  BY <1>1, <1>2, <1>4 DEF ScalarTypes, Stages, ListTypes
<1>6. LoopOK'
  BY <1>1, <1>4 DEF LoopOK, Looping, LatePhases, ListTypes
<1>7. StagesOK'
  BY <1>3, <1>4 DEF StagesOK, ScalarTypes
<1>8. StatusOK'
  <2>1. \A d \in Devices : status'[d] = IF d = e THEN DPM_OFF_IRQ ELSE status[d]
    BY <1>3, <1>4 DEF ScalarTypes
  <2>2. \A d \in Listed \ warned : status'[d] >= DPM_OFF
    BY <2>1, ListedDevices DEF StatusOK, LatePhases
  <2>3. \A i \in 1 .. Len(dpm_list) : i > pos' => status'[dpm_list[i]] = DPM_OFF_IRQ
    <3> SUFFICES ASSUME NEW i \in 1 .. Len(dpm_list), i > pos'
                 PROVE  status'[dpm_list[i]] = DPM_OFF_IRQ
      OBVIOUS
    <3>1. dpm_list[i] \in Devices
      BY DEF ListTypes
    <3>2. i = pos => dpm_list[i] = e
      BY DEF e
    <3>3. i # pos => status[dpm_list[i]] = DPM_OFF_IRQ
      BY <1>1, <1>4 DEF StatusOK
    <3> QED
      BY <2>1, <3>1, <3>2, <3>3
  <2> QED
    BY <1>1, <1>2, <2>2, <2>3 DEF StatusOK, LatePhases
<1>9. CurOK'
  BY <1>1 DEF CurOK
<1>10. ChildrenFirst'
  <2> SUFFICES ASSUME NEW d \in Listed, d \notin warned \cup late,
                      Parent[d] # NoDevice, stage'[Parent[d]] \in Off
               PROVE  stage'[d] \in Off
    BY <1>1, <1>2 DEF ChildrenFirst
  <2>1. Parent[d] \in Devices /\ d \in Devices
    BY ListedDevices DEF Closed
  <2>2. stage[d] \in Off
    BY <1>1, <2>1 DEF StatusOK, StagesOK, LatePhases, ScalarTypes, Off
  <2> QED
    BY <1>3, <1>4, <2>1, <2>2 DEF Off, ScalarTypes
<1> QED
  BY <1>2, <1>5, <1>6, <1>7, <1>8, <1>9, <1>10

LEMMA NoirqFailsStep ==
  ASSUME DpmInv, suspend_device_noirq_fails
  PROVE  DpmInv'
<1> USE DEF DpmInv, suspend_device_noirq_fails, listVars, historyVars
<1>1. /\ moved = <<>> /\ cur = NoDevice /\ phase' = "power_up" /\ pos' = 1
      /\ UNCHANGED <<dpm_list, moved, warned, late, cur, status, stage>>
  BY DEF LoopOK, LatePhases, Looping
<1>2. /\ ListTypes' /\ Listed' = Listed /\ Members(dpm_list) = Listed
      /\ Members(moved) = {} /\ Closed' /\ OrderKept'
  BY <1>1, PlainStep
<1>3. ScalarTypes'
  BY <1>1, <1>2 DEF ScalarTypes, Phases, ListTypes
<1>4. LoopOK' /\ StagesOK' /\ CurOK'
  BY <1>1 DEF LoopOK, Looping, LatePhases, StagesOK, CurOK
<1>5. StatusOK'
  BY <1>1, <1>2 DEF StatusOK, LatePhases
<1>6. ChildrenFirst'
  BY <1>1, <1>2, ChildrenStep
<1> QED
  BY <1>2, <1>3, <1>4, <1>5, <1>6

LEMMA PowerDownDoneStep ==
  ASSUME DpmInv, device_power_down_done
  PROVE  DpmInv'
<1> USE DEF DpmInv, device_power_down_done, listVars, historyVars
<1>1. /\ moved = <<>> /\ cur = NoDevice /\ phase' = "deep" /\ pos = 0
      /\ UNCHANGED <<dpm_list, moved, warned, late, cur, status, stage, pos>>
  BY DEF LoopOK, LatePhases, Looping
<1>2. /\ ListTypes' /\ Listed' = Listed /\ Members(dpm_list) = Listed
      /\ Members(moved) = {} /\ Closed' /\ OrderKept'
  BY <1>1, PlainStep
<1>3. ScalarTypes'
  BY <1>1, <1>2 DEF ScalarTypes, Phases, ListTypes
<1>4. LoopOK' /\ StagesOK' /\ CurOK'
  BY <1>1 DEF LoopOK, Looping, LatePhases, StagesOK, CurOK
<1>5. StatusOK'
  <2>1. \A d \in Members(dpm_list) : status[d] = DPM_OFF_IRQ
    BY <1>1 DEF StatusOK, Members
  <2> QED
    BY <1>1, <1>2, <2>1 DEF StatusOK, LatePhases
<1>6. ChildrenFirst'
  BY <1>1, <1>2, ChildrenStep
<1> QED
  BY <1>2, <1>3, <1>4, <1>5, <1>6

LEMMA PowerUpNextStep ==
  ASSUME DpmInv, dpm_power_up_next
  PROVE  DpmInv'
<1> USE DEF DpmInv, dpm_power_up_next, listVars
<1> DEFINE e == dpm_list[pos]
<1>1. /\ moved = <<>> /\ cur = NoDevice /\ pos \in 1 .. Len(dpm_list) /\ pos' = pos + 1
      /\ UNCHANGED <<dpm_list, moved, warned, late, cur, phase>>
  BY DEF LoopOK, LatePhases, Looping, ScalarTypes, ListTypes
<1>2. /\ ListTypes' /\ Listed' = Listed /\ Members(dpm_list) = Listed
      /\ Members(moved) = {} /\ Closed' /\ OrderKept'
  BY <1>1, PlainStep
<1>3. e \in Listed /\ e \in Devices
  BY <1>1, <1>2, ListedDevices DEF Members
<1> HIDE DEF e
<1>4. IF status[e] > DPM_OFF
      THEN /\ status' = [status EXCEPT ![e] = DPM_OFF]
           /\ stage' = [stage EXCEPT ![e] = "off"]
      ELSE UNCHANGED <<status, stage>>
  BY DEF e
<1>5. ScalarTypes'
  <2>1. /\ status' \in [Devices -> DPM_ON .. DPM_OFF_IRQ]
        /\ stage' \in [Devices -> Stages]
    BY <1>3, <1>4 DEF ScalarTypes, Stages
  <2> QED
    BY <1>1, <1>2, <2>1 DEF ScalarTypes, ListTypes
<1>6. LoopOK'
  BY <1>1 DEF LoopOK, Looping, LatePhases, ListTypes
<1>7. StagesOK'
  BY <1>3, <1>4 DEF StagesOK, ScalarTypes
<1>s. /\ \A d \in Devices : d # e => status'[d] = status[d] /\ stage'[d] = stage[d]
      /\ status'[e] <= DPM_OFF /\ (status[e] >= DPM_OFF => status'[e] = DPM_OFF)
      /\ stage[e] \in Off <=> stage'[e] \in Off
  BY <1>3, <1>4 DEF ScalarTypes, StagesOK, Off
<1>8. StatusOK'
  <2>1. \A i \in 1 .. Len(dpm_list) : i < pos' => status'[dpm_list[i]] <= DPM_OFF
    <3> SUFFICES ASSUME NEW i \in 1 .. Len(dpm_list), i < pos'
                 PROVE  status'[dpm_list[i]] <= DPM_OFF
      OBVIOUS
    <3>1. dpm_list[i] \in Devices
      BY DEF ListTypes
    <3>2. i = pos => dpm_list[i] = e
      BY DEF e
    <3>3. i # pos => status[dpm_list[i]] <= DPM_OFF
      BY <1>1 DEF StatusOK
    <3> QED
      BY <1>s, <3>1, <3>2, <3>3
  <2>2. \A d \in Listed \ warned : status'[d] >= DPM_OFF
    BY <1>s, <1>3, ListedDevices DEF StatusOK, LatePhases
  <2> QED
    BY <1>1, <1>2, <2>1, <2>2 DEF StatusOK, LatePhases
<1>9. CurOK'
  BY <1>1 DEF CurOK
<1>10. ChildrenFirst'
  BY <1>1, <1>2, <1>s, ListedDevices, ChildrenStep
<1> QED
  BY <1>2, <1>5, <1>6, <1>7, <1>8, <1>9, <1>10

LEMMA PowerUpDoneStep ==
  ASSUME DpmInv, device_power_up_done
  PROVE  DpmInv'
<1> USE DEF DpmInv, device_power_up_done, listVars, historyVars
<1>1. /\ moved = <<>> /\ cur = NoDevice /\ phase' = "suspended" /\ pos' = 0
      /\ UNCHANGED <<dpm_list, moved, warned, late, cur, status, stage>>
  BY DEF LoopOK, LatePhases, Looping
<1>2. /\ ListTypes' /\ Listed' = Listed /\ Members(dpm_list) = Listed
      /\ Members(moved) = {} /\ Closed' /\ OrderKept'
  BY <1>1, PlainStep
<1>3. ScalarTypes'
  BY <1>1, <1>2 DEF ScalarTypes, Phases, ListTypes
<1>4. LoopOK' /\ StagesOK' /\ CurOK'
  BY <1>1 DEF LoopOK, Looping, LatePhases, StagesOK, CurOK
<1>5. StatusOK'
  <2>1. \A d \in Members(dpm_list) : status[d] <= DPM_OFF
    BY DEF StatusOK, Members, ListTypes, ScalarTypes
  <2> QED
    BY <1>1, <1>2, <2>1 DEF StatusOK, LatePhases
<1>6. ChildrenFirst'
  BY <1>1, <1>2, ChildrenStep
<1> QED
  BY <1>2, <1>3, <1>4, <1>5, <1>6

LEMMA CallStep ==
  ASSUME DpmInv, DpmCall
  PROVE  DpmInv'
<1> USE DEF DpmInv, DpmCall, listVars, historyVars, device_suspend, device_resume,
            device_power_down, device_power_up
<1>1. /\ moved = <<>> /\ cur = NoDevice
      /\ UNCHANGED <<dpm_list, moved, warned, late, cur, status, stage, again>>
  BY DEF LoopOK, LatePhases, Looping
<1>2. /\ ListTypes' /\ Listed' = Listed /\ Members(dpm_list) = Listed
      /\ Members(moved) = {} /\ Closed' /\ OrderKept'
  BY <1>1, PlainStep
<1>3. transition_started' \in BOOLEAN
  <2>1. transition_started \in BOOLEAN
    BY DEF ScalarTypes
  <2> QED
    BY <2>1, Zenon
<1>4. ScalarTypes'
  BY <1>1, <1>2, <1>3 DEF ScalarTypes, Phases, ListTypes
<1>5. LoopOK'
  BY <1>1 DEF LoopOK, Looping, LatePhases, ListTypes
<1>6. StagesOK'
  BY <1>1 DEF StagesOK
<1>7. CurOK'
  BY <1>1, <1>2, ListedDevices DEF CurOK
<1>8. StatusOK'
  BY <1>1, <1>2, ListedDevices DEF StatusOK, LatePhases, ScalarTypes, ListTypes
<1>9. ChildrenFirst'
  BY <1>1, <1>2, ChildrenStep
<1> QED
  BY <1>2, <1>4, <1>5, <1>6, <1>7, <1>8, <1>9

-----------------------------------------------------------------------------
(* The loops of dpm_resume and dpm_complete.                               *)

LEMMA ResumeNextStep ==
  ASSUME DpmInv, dpm_resume_next
  PROVE  DpmInv'
<1> USE DEF DpmInv, dpm_resume_next, listVars
<1> DEFINE e == Head(dpm_list)
<1>0. phase = "resume" /\ cur = NoDevice /\ UNCHANGED <<again, pos, transition_started, warned, late>>
  OBVIOUS
<1>1. CASE dpm_list = <<>>
  <2>1. Splice(moved) /\ phase' = "complete" /\ UNCHANGED <<status, stage, cur>>
    BY <1>1
  <2>2. ListTypes' /\ Listed' = Listed /\ dpm_list' = moved /\ moved' = <<>>
    BY <1>1, <2>1, SpliceEffect
  <2>3. Order' = Order
    <3>1. moved \o <<>> = moved
      BY DEF ListTypes
    <3> QED
      BY <1>0, <1>1, <2>1, <2>2, <3>1, OrderPlain DEF Order
  <2>4. Members(dpm_list) = {} /\ Members(moved') = {}
    BY <1>1, <2>2, MembersEmpty
  <2>5. ScalarTypes'
    BY <1>0, <2>1, <2>2 DEF ScalarTypes, LoopOK, LatePhases, Phases, ListTypes
  <2>6. LoopOK' /\ StagesOK'
    BY <1>0, <2>1, <2>2 DEF LoopOK, Looping, LatePhases, StagesOK
  <2>7. StatusOK'
    BY <1>0, <2>1, <2>2, <2>4 DEF StatusOK, LatePhases, Listed
  <2>8. CurOK'
    <3>1. NoDevice \notin Members(dpm_list')
      BY <2>2, ListedDevices
    <3> QED
      BY <1>0, <2>1, <2>4, <3>1, BeforeMembers DEF CurOK
  <2>9. Closed'
    BY <1>0, <2>2, ClosedStep
  <2>10. OrderKept'
    BY <1>0, <2>2, <2>3, <2>9, OrderStep
  <2>11. ChildrenFirst'
    BY <1>0, <2>1, <2>2, ChildrenStep
  <2> QED
    BY <2>2, <2>5, <2>6, <2>7, <2>8, <2>9, <2>10, <2>11
<1>h. ASSUME dpm_list # <<>>
      PROVE  /\ e \in Devices /\ e \in Members(dpm_list) /\ e \notin Members(moved)
             /\ e \in Listed
             /\ \A x \in Members(dpm_list) \ {e} : Before(dpm_list, e, x)
  BY <1>h, EndsOrdered DEF ListTypes, Listed
<1>2. CASE dpm_list # <<>> /\ status[e] >= DPM_OFF
  <2>1. /\ status' = [status EXCEPT ![e] = DPM_RESUMING]
        /\ cur' = e /\ stage' = [stage EXCEPT ![e] = "prepared"]
        /\ UNCHANGED <<dpm_list, moved, phase>>
    BY <1>2, <1>h DEF ScalarTypes
  <2>e. /\ e \in Devices /\ e \in Members(dpm_list) /\ e \notin Members(moved)
        /\ \A x \in Members(dpm_list) \ {e} : Before(dpm_list, e, x)
    BY <1>2, <1>h
  <2> HIDE DEF e
  <2>2. ListTypes' /\ Listed' = Listed /\ Order' = Order
    BY <2>1 DEF ListTypes, Listed, Order
  <2>3. ScalarTypes'
    BY <1>0, <2>1, <2>2, <2>e DEF ScalarTypes, Stages
  <2>4. LoopOK'
    BY <1>0, <2>1 DEF LoopOK, Looping, LatePhases
  <2>5. StagesOK'
    BY <2>1, <2>e DEF StagesOK, ScalarTypes
  <2>6. StatusOK'
    <3>1. \A d \in Devices : status'[d] = IF d = e THEN DPM_RESUMING ELSE status[d]
      BY <2>1, <2>e DEF ScalarTypes
    <3> QED
      BY <1>0, <2>1, <2>2, <2>e, <3>1, ListedDevices DEF StatusOK, LatePhases
  <2>7. CurOK'
    BY <1>0, <2>1, <2>e DEF CurOK
  <2>8. Closed'
    BY <1>0, <2>2, ClosedStep
  <2>9. OrderKept'
    BY <1>0, <2>2, <2>8, OrderStep
  <2>10. ChildrenFirst'
    <3> SUFFICES ASSUME NEW d \in Listed, d \notin warned \cup late,
                        Parent[d] # NoDevice, stage'[Parent[d]] \in Off
                 PROVE  stage'[d] \in Off
      BY <1>0, <2>2 DEF ChildrenFirst
    <3>1. Parent[d] \in Listed /\ d \in Devices /\ Parent[d] \in Devices
      BY ListedDevices DEF Closed
    <3>2. Parent[d] # e /\ stage[Parent[d]] \in Off
      BY <2>1, <2>e, <3>1 DEF Off, ScalarTypes
    <3>3. stage[d] \in Off
      BY <3>2 DEF ChildrenFirst
    <3>4. d # e
      <4> SUFFICES ASSUME d = e PROVE FALSE
        OBVIOUS
      <4>1. Before(moved \o dpm_list, Parent[e], e)
        BY <1>0 DEF OrderKept, Order
      <4>2. \/ Before(moved, Parent[e], e) \/ Before(dpm_list, Parent[e], e)
            \/ Parent[e] \in Members(moved) /\ e \in Members(dpm_list)
        BY <4>1, BeforeConcat DEF ListTypes
      <4>3. ~Before(moved, Parent[e], e)
        BY <2>e, BeforeMembers
      <4>4. ~Before(dpm_list, Parent[e], e)
        <5>1. Before(dpm_list, Parent[e], e) => Before(dpm_list, e, Parent[e])
          BY <2>e, <3>2, BeforeMembers
        <5>2. Before(dpm_list, Parent[e], e) => ~Before(dpm_list, e, Parent[e])
          BY BeforeAsym DEF ListTypes
        <5> QED
          BY <5>1, <5>2
      <4>5. status[Parent[e]] < DPM_OFF
        BY <1>0, <4>2, <4>3, <4>4 DEF StatusOK
      <4> QED
        BY <3>1, <3>2, <4>5 DEF StagesOK, Off, ScalarTypes
    <3> QED
      BY <2>1, <3>1, <3>3, <3>4 DEF ScalarTypes
  <2> QED
    BY <2>2, <2>3, <2>4, <2>5, <2>6, <2>7, <2>8, <2>9, <2>10
<1>3. CASE dpm_list # <<>> /\ ~(status[e] >= DPM_OFF)
  <2>1. /\ status' = [status EXCEPT ![e] = IF @ >= DPM_SUSPENDING THEN DPM_RESUMING ELSE @]
        /\ MoveTail(e) /\ UNCHANGED <<cur, stage, phase>>
    BY <1>3
  <2>e. /\ e \in Devices /\ e \in Members(dpm_list) /\ e \notin Members(moved)
        /\ e \in Listed
        /\ \A x \in Members(dpm_list) \ {e} : Before(dpm_list, e, x)
    BY <1>3, <1>h
  <2>f. status[e] \in {DPM_ON, DPM_PREPARING, DPM_RESUMING, DPM_SUSPENDING}
    BY <1>3, <2>e DEF ScalarTypes
  <2> HIDE DEF e
  <2>2. /\ ListTypes' /\ Listed' = Listed
        /\ Members(dpm_list') = Members(dpm_list) \ {e}
        /\ Members(moved') = Members(moved) \cup {e}
        /\ \A a, b : Before(moved \o dpm_list, a, b) => Before(moved' \o dpm_list', a, b)
    BY <2>1, <2>e, MoveTailEffect
  <2>s. \A d \in Devices :
          status'[d] = IF d = e /\ status[e] >= DPM_SUSPENDING THEN DPM_RESUMING
                                                               ELSE status[d]
    BY <2>1, <2>e DEF ScalarTypes
  <2>3. ScalarTypes'
    <3>1. status' \in [Devices -> DPM_ON .. DPM_OFF_IRQ]
      BY <2>1, <2>e DEF ScalarTypes
    <3> QED
      BY <1>0, <2>1, <2>2, <3>1 DEF ScalarTypes, LoopOK, LatePhases, ListTypes
  <2>4. LoopOK'
    BY <1>0, <2>1 DEF LoopOK, Looping, LatePhases
  <2>5. StagesOK'
    BY <2>1, <2>e, <2>f, <2>s DEF StagesOK, ScalarTypes
  <2>6. StatusOK'
    BY <1>0, <2>1, <2>2, <2>e, <2>f, <2>s, ListedDevices DEF StatusOK, LatePhases
  <2>7. CurOK'
    <3>1. NoDevice \notin Members(dpm_list') /\ NoDevice \notin Members(moved')
      BY <2>2, <2>e, ListedDevices
    <3> QED
      BY <1>0, <2>1, <3>1 DEF CurOK
  <2>8. Closed'
    BY <1>0, <2>2, ClosedStep
  <2>9. OrderKept'
    BY <1>0, <2>1, <2>2, <2>8, OrderStep DEF Order
  <2>10. ChildrenFirst'
    BY <1>0, <2>1, <2>2, ChildrenStep
  <2> QED
    BY <2>2, <2>3, <2>4, <2>5, <2>6, <2>7, <2>8, <2>9, <2>10
<1> QED
  BY <1>1, <1>2, <1>3

LEMMA ResumeDoneStep ==
  ASSUME DpmInv, resume_device_done
  PROVE  DpmInv'
<1> USE DEF DpmInv, resume_device_done, historyVars
<1>1. cur \in Devices /\ MoveTail(cur) /\ cur \notin Members(moved) /\ cur' = NoDevice
  BY DEF ScalarTypes, CurOK
<1>2. /\ ListTypes' /\ Listed' = Listed
      /\ Members(dpm_list') = Members(dpm_list) \ {cur}
      /\ Members(moved') = IF cur \in Listed THEN Members(moved) \cup {cur}
                                             ELSE Members(moved)
      /\ \A a, b : Before(moved \o dpm_list, a, b) => Before(moved' \o dpm_list', a, b)
  <2>1. (\A x \in Members(dpm_list) \ {cur} : Before(dpm_list, cur, x)) \/ cur \notin Listed
    BY <1>1 DEF CurOK, Listed
  <2> QED
    BY <1>1, <2>1, MoveTailEffect
<1>3. ScalarTypes'
  BY <1>1, <1>2 DEF ScalarTypes, LoopOK, LatePhases, ListTypes
<1>4. LoopOK' /\ StagesOK'
  BY DEF LoopOK, Looping, LatePhases, StagesOK
<1>5. StatusOK'
  BY <1>1, <1>2 DEF StatusOK, LatePhases
<1>6. CurOK'
  <2>1. NoDevice \notin Members(dpm_list') /\ NoDevice \notin Members(moved')
    BY <1>1, <1>2, ListedDevices
  <2> QED
    BY <1>1, <2>1 DEF CurOK
<1>7. Closed'
  BY <1>2, ClosedStep
<1>8. OrderKept'
  BY <1>2, <1>7, OrderStep DEF Order
<1>9. ChildrenFirst'
  BY <1>2, ChildrenStep
<1> QED
  BY <1>2, <1>3, <1>4, <1>5, <1>6, <1>7, <1>8, <1>9

LEMMA CompleteNextStep ==
  ASSUME DpmInv, dpm_complete_next
  PROVE  DpmInv'
<1> USE DEF DpmInv, dpm_complete_next, listVars
<1> DEFINE e == Last(dpm_list)
<1>0. /\ phase = "complete" /\ cur = NoDevice
      /\ UNCHANGED <<again, pos, transition_started, warned, late>>
  OBVIOUS
<1>1. CASE dpm_list = <<>>
  <2>1. Splice(moved) /\ phase' = "idle" /\ UNCHANGED <<status, stage, cur>>
    BY <1>1
  <2>2. ListTypes' /\ Listed' = Listed /\ dpm_list' = moved /\ moved' = <<>>
    BY <1>1, <2>1, SpliceEffect
  <2>3. Order' = Order
    <3>1. <<>> \o moved = moved
      BY DEF ListTypes
    <3> QED
      BY <1>0, <1>1, <2>1, <2>2, <3>1, OrderPlain DEF Order
  <2>4. Members(dpm_list) = {} /\ Members(moved') = {}
    BY <1>1, <2>2, MembersEmpty
  <2>5. ScalarTypes'
    BY <1>0, <2>1, <2>2 DEF ScalarTypes, LoopOK, LatePhases, Phases, ListTypes
  <2>6. LoopOK' /\ StagesOK'
    BY <1>0, <2>1, <2>2 DEF LoopOK, Looping, LatePhases, StagesOK
  <2>7. StatusOK'
    BY <1>0, <2>1, <2>2, <2>4 DEF StatusOK, LatePhases, Listed
  <2>8. CurOK'
    BY <1>0, <2>1, <2>4 DEF CurOK
  <2>9. Closed'
    BY <1>0, <2>2, ClosedStep
  <2>10. OrderKept'
    BY <1>0, <2>2, <2>3, <2>9, OrderStep
  <2>11. ChildrenFirst'
    BY <1>0, <2>1, <2>2, ChildrenStep
  <2> QED
    BY <2>2, <2>5, <2>6, <2>7, <2>8, <2>9, <2>10, <2>11
<1>h. ASSUME dpm_list # <<>>
      PROVE  /\ e \in Devices /\ e \in Members(dpm_list) /\ e \notin Members(moved)
             /\ e \in Listed /\ \A x : ~Before(dpm_list, e, x)
  <2>1. /\ e \in Devices /\ e \in Members(dpm_list) /\ e \notin Members(moved)
        /\ e \in Listed
        /\ \A x \in Members(dpm_list) \ {e} : Before(dpm_list, x, e)
    BY <1>h, EndsOrdered DEF ListTypes, Listed
  <2> QED
    BY <2>1, BeforeAsym, BeforeMembers DEF ListTypes
<1>2. CASE dpm_list # <<>> /\ status[e] > DPM_ON
  <2>1. /\ status' = [status EXCEPT ![e] = DPM_ON]
        /\ cur' = e /\ stage' = [stage EXCEPT ![e] = "on"]
        /\ UNCHANGED <<dpm_list, moved, phase>>
    BY <1>2
  <2>e. /\ e \in Devices /\ e \in Members(dpm_list) /\ e \notin Members(moved)
        /\ e \in Listed /\ \A x : ~Before(dpm_list, e, x)
    BY <1>2, <1>h
  <2> HIDE DEF e
  <2>2. ListTypes' /\ Listed' = Listed /\ Order' = Order
    BY <2>1 DEF ListTypes, Listed, Order
  <2>3. ScalarTypes'
    BY <1>0, <2>1, <2>2, <2>e DEF ScalarTypes, Stages
  <2>4. LoopOK'
    BY <1>0, <2>1 DEF LoopOK, Looping, LatePhases
  <2>5. StagesOK'
    BY <2>1, <2>e DEF StagesOK, ScalarTypes
  <2>6. StatusOK'
    <3>1. \A d \in Devices : status'[d] = IF d = e THEN DPM_ON ELSE status[d]
      BY <2>1, <2>e DEF ScalarTypes
    <3> QED
      BY <1>0, <2>1, <2>2, <2>e, <3>1, ListedDevices DEF StatusOK, LatePhases
  <2>7. CurOK'
    BY <1>0, <2>1, <2>e DEF CurOK
  <2>8. Closed'
    BY <1>0, <2>2, ClosedStep
  <2>9. OrderKept'
    BY <1>0, <2>2, <2>8, OrderStep
  <2>10. ChildrenFirst'
    <3>1. \A d \in Listed : stage[d] \notin Off /\ stage'[d] \notin Off
      BY <1>0, <2>1, <2>e, ListedDevices DEF Off, StagesOK, StatusOK, ScalarTypes
    <3> QED
      BY <1>0, <2>2, <3>1, ChildrenStep
  <2> QED
    BY <2>2, <2>3, <2>4, <2>5, <2>6, <2>7, <2>8, <2>9, <2>10
<1>3. CASE dpm_list # <<>> /\ ~(status[e] > DPM_ON)
  <2>1. MoveHead(e) /\ UNCHANGED <<status, cur, stage, phase>>
    BY <1>3
  <2>e. /\ e \in Devices /\ e \in Members(dpm_list) /\ e \notin Members(moved)
        /\ e \in Listed /\ \A x : ~Before(dpm_list, e, x)
    BY <1>3, <1>h
  <2>f. status[e] = DPM_ON
    BY <1>3, <2>e DEF ScalarTypes
  <2> HIDE DEF e
  <2>2. /\ ListTypes' /\ Listed' = Listed
        /\ Members(dpm_list') = Members(dpm_list) \ {e}
        /\ Members(moved') = Members(moved) \cup {e}
        /\ \A a, b : Before(dpm_list \o moved, a, b) => Before(dpm_list' \o moved', a, b)
    BY <2>1, <2>e, MoveHeadEffect
  <2>3. ScalarTypes'
    BY <1>0, <2>1, <2>2 DEF ScalarTypes, LoopOK, LatePhases, ListTypes
  <2>4. LoopOK' /\ StagesOK'
    BY <1>0, <2>1 DEF LoopOK, Looping, LatePhases, StagesOK
  <2>6. StatusOK'
    BY <1>0, <2>1, <2>2, <2>f DEF StatusOK, LatePhases
  <2>7. CurOK'
    <3>1. NoDevice \notin Members(dpm_list') /\ NoDevice \notin Members(moved')
      BY <2>2, <2>e, ListedDevices
    <3> QED
      BY <1>0, <2>1, <3>1, BeforeMembers DEF CurOK
  <2>8. Closed'
    BY <1>0, <2>2, ClosedStep
  <2>9. OrderKept'
    BY <1>0, <2>1, <2>2, <2>8, OrderStep DEF Order
  <2>10. ChildrenFirst'
    BY <1>0, <2>1, <2>2, ChildrenStep
  <2> QED
    BY <2>2, <2>3, <2>4, <2>6, <2>7, <2>8, <2>9, <2>10
<1> QED
  BY <1>1, <1>2, <1>3

LEMMA CompleteDoneStep ==
  ASSUME DpmInv, complete_device_done
  PROVE  DpmInv'
<1> USE DEF DpmInv, complete_device_done, historyVars
<1>1. cur \in Devices /\ MoveHead(cur) /\ cur \notin Members(moved) /\ cur' = NoDevice
  BY DEF ScalarTypes, CurOK
<1>2. /\ ListTypes' /\ Listed' = Listed
      /\ Members(dpm_list') = Members(dpm_list) \ {cur}
      /\ Members(moved') = IF cur \in Listed THEN Members(moved) \cup {cur}
                                             ELSE Members(moved)
      /\ \A a, b : Before(dpm_list \o moved, a, b) /\ ~(a = cur /\ Before(dpm_list, cur, b))
                     => Before(dpm_list' \o moved', a, b)
  BY <1>1, MoveHeadEffect
<1>3. ScalarTypes'
  BY <1>1, <1>2 DEF ScalarTypes, LoopOK, LatePhases, ListTypes
<1>4. LoopOK' /\ StagesOK'
  BY DEF LoopOK, Looping, LatePhases, StagesOK
<1>5. StatusOK'
  BY <1>1, <1>2 DEF StatusOK, LatePhases
<1>6. CurOK'
  <2>1. NoDevice \notin Members(dpm_list') /\ NoDevice \notin Members(moved')
    BY <1>1, <1>2, ListedDevices
  <2> QED
    BY <1>1, <2>1, BeforeMembers DEF CurOK
<1>7. Closed'
  BY <1>2, ClosedStep
<1>8. OrderKept'
  <2>1. Order = dpm_list \o moved /\ Order' = dpm_list' \o moved'
    BY DEF Order
  <2> QED
    BY <1>2, <1>7, <2>1, OrderStep DEF CurOK
<1>9. ChildrenFirst'
  BY <1>2, ChildrenStep
<1> QED
  BY <1>2, <1>3, <1>4, <1>5, <1>6, <1>7, <1>8, <1>9

-----------------------------------------------------------------------------
(* Devices come and go.                                                    *)

\* dpm_list_mtx is free only in the loops that give it up and between the calls.
LEMMA UnlockedPhases ==
  ASSUME DpmInv, Unlocked
  PROVE  /\ phase \in Looping \cup {"idle", "failed", "suspended"}
         /\ phase \notin LatePhases /\ pos = 0
BY DEF DpmInv, LoopOK, Unlocked, Looping, LatePhases

\* While the others go down, a new device comes with a warning.
LEMMA AddWarned ==
  ASSUME DpmInv, NEW d \in Devices, device_pm_add(d),
         phase \in {"suspend", "suspended"}
  PROVE  d \in warned'
<1> USE DEF DpmInv, device_pm_add
<1>1. CASE Parent[d] = NoDevice
  BY <1>1 DEF Warns, LoopOK
<1>2. CASE Parent[d] # NoDevice
  <2>1. Parent[d] \in Listed /\ Parent[d] \in Devices
    BY <1>2, ListedDevices
  <2>2. Parent[d] \notin warned => status[Parent[d]] >= DPM_SUSPENDING
    BY <2>1 DEF StatusOK, ScalarTypes
  <2> QED
    BY <1>2, <2>2 DEF Warns
<1> QED
  BY <1>1, <1>2

LEMMA AddStep ==
  ASSUME DpmInv, NEW d \in Devices, device_pm_add(d)
  PROVE  DpmInv'
<1> USE DEF DpmInv, device_pm_add
<1>0. /\ phase \in Looping \cup {"idle", "failed", "suspended"}
      /\ phase \notin LatePhases /\ pos = 0
      /\ d \notin Listed /\ d # cur
      /\ UNCHANGED <<moved, cur, phase, again, pos, transition_started>>
  BY UnlockedPhases
<1>1. /\ ListTypes' /\ Listed' = Listed \cup {d}
      /\ Members(dpm_list') = Members(dpm_list) \cup {d}
      /\ Len(dpm_list') = Len(dpm_list) + 1
      /\ \A a, b : Before(dpm_list', a, b)
                     <=> Before(dpm_list, a, b) \/ (a \in Members(dpm_list) /\ b = d)
  BY <1>0, AddEffect
<1>2. Members(moved') = Members(moved)
  BY <1>0
<1>3. /\ warned \subseteq warned' /\ late \subseteq late'
      /\ warned' \subseteq warned \cup {d} /\ late' \subseteq late \cup {d}
      /\ d \notin warned /\ d \notin late
      /\ phase = "complete" => d \in late'
      /\ phase \in {"suspend", "suspended"} => d \in warned'
  BY <1>0, AddWarned DEF ScalarTypes
<1>s. /\ \A x \in Devices : x # d => status'[x] = status[x] /\ stage'[x] = stage[x]
      /\ status'[d] = DPM_ON /\ stage'[d] = "on"
  BY DEF ScalarTypes
<1>4. ScalarTypes'
  <2>1. status' \in [Devices -> DPM_ON .. DPM_OFF_IRQ] /\ stage' \in [Devices -> Stages]
    BY DEF ScalarTypes, Stages
  <2>2. pos' \in 0 .. (Len(dpm_list') + 1)
    BY <1>0, <1>1 DEF ListTypes
  <2> QED
    BY <1>0, <1>1, <1>3, <2>1, <2>2 DEF ScalarTypes
<1>5. StagesOK'
  BY <1>s DEF StagesOK
<1>6. LoopOK'
  BY <1>0 DEF LoopOK, LatePhases
<1>7. StatusOK'
  BY <1>0, <1>1, <1>2, <1>3, <1>s, ListedDevices DEF StatusOK, LatePhases, Listed, ScalarTypes
<1>8. CurOK'
  <2>1. \A x : Before(dpm_list, cur, x) => x # d
    BY <1>0, BeforeMembers DEF Listed
  <2> QED
    BY <1>0, <1>1, <1>2, <1>3, <2>1 DEF CurOK, Listed
<1>9. Closed'
  BY <1>0, <1>1, <1>3 DEF Closed
<1>10. OrderKept'
  <2> SUFFICES ASSUME NEW x \in Listed', x \notin warned' \cup late', Parent[x] # NoDevice
               PROVE  Before(Order', Parent[x], x)
    BY DEF OrderKept
  <2>m. /\ Before(moved' \o dpm_list', Parent[x], x)
             <=> \/ Before(moved, Parent[x], x) \/ Before(dpm_list', Parent[x], x)
                 \/ Parent[x] \in Members(moved) /\ x \in Members(dpm_list')
        /\ Before(dpm_list' \o moved', Parent[x], x)
             <=> \/ Before(moved, Parent[x], x) \/ Before(dpm_list', Parent[x], x)
                 \/ Parent[x] \in Members(dpm_list') /\ x \in Members(moved)
    BY <1>0, <1>1, BeforeConcat DEF ListTypes
  <2>1. CASE x # d
    <3>1. Before(Order, Parent[x], x)
      BY <1>1, <1>3, <2>1 DEF OrderKept
    <3>2. CASE phase \in {"prepare", "resume"}
      <4>1. \/ Before(moved, Parent[x], x) \/ Before(dpm_list, Parent[x], x)
            \/ Parent[x] \in Members(moved) /\ x \in Members(dpm_list)
        BY <3>1, <3>2, BeforeConcat DEF Order, ListTypes
      <4> QED
        BY <1>0, <1>1, <2>m, <3>2, <4>1 DEF Order
    <3>3. CASE phase \notin {"prepare", "resume"}
      <4>1. \/ Before(moved, Parent[x], x) \/ Before(dpm_list, Parent[x], x)
            \/ Parent[x] \in Members(dpm_list) /\ x \in Members(moved)
        BY <3>1, <3>3, BeforeConcat DEF Order, ListTypes
      <4> QED
        BY <1>0, <1>1, <2>m, <3>3, <4>1 DEF Order
    <3> QED
      BY <3>2, <3>3
  <2>2. CASE x = d
    <3>1. Parent[d] \in Members(dpm_list) \cup Members(moved)
      BY <2>2 DEF Listed
    <3>2. CASE phase \in {"prepare", "resume"}
      BY <1>0, <1>1, <2>2, <2>m, <3>1, <3>2 DEF Order
    <3>3. CASE phase \notin {"prepare", "resume"}
      <4>1. moved = <<>>
        BY <1>0, <1>3, <2>2, <3>3 DEF LoopOK, Looping
      <4>2. Parent[d] \in Members(dpm_list)
        BY <3>1, <4>1, MembersEmpty
      <4> QED
        BY <1>0, <1>1, <2>2, <2>m, <3>3, <4>2 DEF Order
    <3> QED
      BY <3>2, <3>3
  <2> QED
    BY <2>1, <2>2
<1>11. ChildrenFirst'
  <2> SUFFICES ASSUME NEW x \in Listed', x \notin warned' \cup late',
                      Parent[x] # NoDevice, stage'[Parent[x]] \in Off
               PROVE  stage'[x] \in Off
    BY DEF ChildrenFirst
  <2>1. CASE x # d
    <3>1. x \in Listed /\ Parent[x] \in Listed /\ x \notin warned \cup late
      BY <1>1, <1>3, <2>1 DEF Closed
    <3> QED
      BY <1>0, <1>s, <2>1, <3>1, ListedDevices DEF ChildrenFirst
  <2>2. CASE x = d
    <3>1. Parent[d] \in Devices /\ Parent[d] # d /\ ~(status[Parent[d]] >= DPM_SUSPENDING)
      BY <2>2, ListedDevices DEF Warns
    <3> QED
      BY <1>s, <2>2, <3>1 DEF StagesOK, Off, ScalarTypes
  <2> QED
    BY <2>1, <2>2
<1> QED
  BY <1>1, <1>4, <1>5, <1>6, <1>7, <1>8, <1>9, <1>10, <1>11

LEMMA RemoveStep ==
  ASSUME DpmInv, NEW d \in Devices, device_pm_remove(d)
  PROVE  DpmInv'
<1> USE DEF DpmInv, device_pm_remove
<1>0. /\ phase \in Looping \cup {"idle", "failed", "suspended"}
      /\ phase \notin LatePhases /\ pos = 0
      /\ warned' = warned \ {d} /\ late' = late \ {d}
      /\ UNCHANGED <<status, cur, phase, again, pos, transition_started, stage>>
  BY UnlockedPhases
<1>1. /\ ListTypes' /\ Listed' = Listed \ {d}
      /\ Members(dpm_list') = Members(dpm_list) \ {d}
      /\ Members(moved') = Members(moved) \ {d}
      /\ \A a, b : a # d /\ b # d =>
           /\ Before(dpm_list', a, b) <=> Before(dpm_list, a, b)
           /\ Before(moved', a, b) <=> Before(moved, a, b)
  BY RemoveEffect
<1>2. \A x \in Listed : Parent[x] # d
  BY DEF Children
<1>3. ScalarTypes'
  <2>1. pos' \in 0 .. (Len(dpm_list') + 1)
    BY <1>0, <1>1 DEF ListTypes
  <2> QED
    BY <1>0, <1>1, <2>1 DEF ScalarTypes
<1>4. StagesOK'
  BY <1>0 DEF StagesOK
<1>5. LoopOK'
  <2>1. moved = <<>> => moved' = <<>>
    BY MembersEmpty DEF list_del
  <2> QED
    BY <1>0, <2>1 DEF LoopOK, LatePhases
<1>6. StatusOK'
  BY <1>0, <1>1 DEF StatusOK, LatePhases
<1>7. CurOK'
  <2>1. \A x : Before(dpm_list', cur, x) => cur # d /\ x # d
    BY <1>1, BeforeMembers
  <2> QED
    BY <1>0, <1>1, <2>1 DEF CurOK
<1>8. Closed'
  BY <1>0, <1>1, <1>2 DEF Closed
<1>9. OrderKept'
  <2> SUFFICES ASSUME NEW x \in Listed', x \notin warned' \cup late', Parent[x] # NoDevice
               PROVE  Before(Order', Parent[x], x)
    BY DEF OrderKept
  <2>1. /\ x \in Listed /\ x # d /\ Parent[x] # d /\ x \notin warned \cup late
        /\ Before(Order, Parent[x], x)
    BY <1>0, <1>1, <1>2 DEF OrderKept
  <2>2. CASE phase \in {"prepare", "resume"}
    <3>1. \/ Before(moved, Parent[x], x) \/ Before(dpm_list, Parent[x], x)
          \/ Parent[x] \in Members(moved) /\ x \in Members(dpm_list)
      BY <2>1, <2>2, BeforeConcat DEF Order, ListTypes
    <3>2. \/ Before(moved', Parent[x], x) \/ Before(dpm_list', Parent[x], x)
          \/ Parent[x] \in Members(moved') /\ x \in Members(dpm_list')
      BY <1>1, <2>1, <3>1
    <3>3. Before(moved' \o dpm_list', Parent[x], x)
      BY <1>1, <3>2, BeforeConcat DEF ListTypes
    <3> QED
      BY <1>0, <2>2, <3>3 DEF Order
  <2>3. CASE phase \notin {"prepare", "resume"}
    <3>1. \/ Before(dpm_list, Parent[x], x) \/ Before(moved, Parent[x], x)
          \/ Parent[x] \in Members(dpm_list) /\ x \in Members(moved)
      BY <2>1, <2>3, BeforeConcat DEF Order, ListTypes
    <3>2. \/ Before(dpm_list', Parent[x], x) \/ Before(moved', Parent[x], x)
          \/ Parent[x] \in Members(dpm_list') /\ x \in Members(moved')
      BY <1>1, <2>1, <3>1
    <3>3. Before(dpm_list' \o moved', Parent[x], x)
      BY <1>1, <3>2, BeforeConcat DEF ListTypes
    <3> QED
      BY <1>0, <2>3, <3>3 DEF Order
  <2> QED
    BY <2>2, <2>3
<1>10. ChildrenFirst'
  BY <1>0, <1>1 DEF ChildrenFirst
<1> QED
  BY <1>1, <1>3, <1>4, <1>5, <1>6, <1>7, <1>8, <1>9, <1>10

-----------------------------------------------------------------------------
(* The theorems.                                                           *)

LEMMA InvStutter ==
  ASSUME DpmInv, UNCHANGED dpmVars
  PROVE  DpmInv'
<1>1. /\ UNCHANGED <<dpm_list, moved, status, cur, phase, again, pos,
                     transition_started, stage, warned, late>>
  BY DEF dpmVars, listVars, historyVars
<1>2. Listed' = Listed /\ Order' = Order
  BY <1>1 DEF Listed, Order
<1>3. ListTypes' /\ ScalarTypes' /\ StagesOK' /\ LoopOK'
  BY <1>1, <1>2 DEF DpmInv, ListTypes, ScalarTypes, StagesOK, LoopOK
<1>4. StatusOK' /\ CurOK'
  BY <1>1, <1>2 DEF DpmInv, StatusOK, CurOK
<1>5. Closed' /\ OrderKept' /\ ChildrenFirst'
  BY <1>1, <1>2 DEF DpmInv, Closed, OrderKept, ChildrenFirst
<1> QED
  BY <1>3, <1>4, <1>5 DEF DpmInv

LEMMA InvNext ==
  ASSUME DpmInv, [DpmNext]_dpmVars
  PROVE  DpmInv'
<1>1. CASE Hotplug
  BY <1>1, AddStep, RemoveStep DEF Hotplug
<1>2. CASE DpmLoop
  BY <1>2, PrepareNextStep, PrepareOkStep, PrepareAgainStep, PrepareFailsStep,
     SuspendNextStep, SuspendOkStep, SuspendFailsStep, NoirqOkStep,
     NoirqFailsStep, PowerDownDoneStep, PowerUpNextStep, PowerUpDoneStep,
     ResumeNextStep, ResumeDoneStep, CompleteNextStep, CompleteDoneStep
     DEF DpmLoop
<1>3. CASE DpmCall
  BY <1>3, CallStep
<1>4. CASE UNCHANGED dpmVars
  BY <1>4, InvStutter
<1> QED
  BY <1>1, <1>2, <1>3, <1>4 DEF DpmNext

LEMMA InvHolds == DpmSpec => []DpmInv
<1>1. DpmInit => DpmInv
  BY InvInit
<1>2. DpmInv /\ [DpmNext]_dpmVars => DpmInv'
  BY InvNext
<1> QED
  BY <1>1, <1>2, PTL DEF DpmSpec

\* dpm_list and the loops' lists hold each device at most once, whatever is
\* moved, spliced, registered or unregistered (main.c).
THEOREM DpmTypeCorrect == DpmSpec => []DpmTypeOK
<1>1. DpmInv => DpmTypeOK
  BY TypesJoined DEF DpmInv
<1> QED
  BY <1>1, InvHolds, PTL

\* The order of the device tree survives every loop of main.c with devices
\* coming and going in its callbacks: a device stays behind its parent, and is
\* not up below a parent that is off.
THEOREM FamiliesKept == DpmSpec => []FamiliesInOrder
<1>1. DpmInv => FamiliesInOrder
  BY DEF DpmInv, FamiliesInOrder
<1> QED
  BY <1>1, InvHolds, PTL

LEMMA InvAllOrNothing == DpmInv => AllOrNothing
<1> SUFFICES ASSUME DpmInv PROVE AllOrNothing
  OBVIOUS
<1> USE DEF DpmInv
<1>1. ASSUME phase = "idle"
      PROVE  /\ \A d \in Listed : status[d] = DPM_ON /\ stage[d] = "on"
             /\ moved = <<>> /\ ~transition_started
  BY <1>1, ListedDevices DEF StatusOK, StagesOK, LoopOK, Looping, LatePhases
<1>2. ASSUME phase = "deep"
      PROVE  \A d \in Listed : status[d] = DPM_OFF_IRQ /\ stage[d] = "deep"
  BY <1>2, ListedDevices DEF StatusOK, StagesOK
<1> QED
  BY <1>1, <1>2 DEF AllOrNothing

\* After device_resume every registered device works again, and after a
\* device_power_down that succeeded every one is in deep sleep (main.c).
THEOREM AllOrNothingHolds == DpmSpec => []AllOrNothing
BY InvAllOrNothing, InvHolds, PTL

\* A step of one loop moves the device it handles by one callback.
LEMMA CallbackStep ==
  ASSUME DpmInv, DpmNext, NEW d \in (Listed \cap Listed') \ warned,
         stage[d] # stage'[d]
  PROVE  <<stage[d], stage'[d]>> \in Legal
<1> USE DEF DpmInv, Legal
<1>d. d \in Devices /\ d \in Listed /\ d \notin warned
  BY ListedDevices
<1>1. CASE Hotplug
  BY <1>1, <1>d DEF Hotplug, device_pm_add, device_pm_remove, ScalarTypes
<1>2. CASE prepare_device_ok
  BY <1>2, <1>d DEF prepare_device_ok, StatusOK, StagesOK, ScalarTypes, Listed
<1>3. CASE suspend_device_ok
  BY <1>3, <1>d DEF suspend_device_ok, StatusOK, StagesOK, ScalarTypes, LatePhases, Stages
<1>4. CASE suspend_device_noirq_ok
  BY <1>4, <1>d DEF suspend_device_noirq_ok, StatusOK, StagesOK, ScalarTypes,
                    LatePhases, Stages
<1>5. CASE dpm_power_up_next
  BY <1>5, <1>d DEF dpm_power_up_next, StagesOK, ScalarTypes, Stages
<1>6. CASE dpm_resume_next
  BY <1>6, <1>d DEF dpm_resume_next, StatusOK, StagesOK, ScalarTypes, LatePhases, Stages
<1>7. CASE dpm_complete_next
  BY <1>7, <1>d DEF dpm_complete_next, StatusOK, StagesOK, ScalarTypes, Stages
<1>8. CASE DpmCall
  BY <1>8 DEF DpmCall, device_suspend, device_resume, device_power_down,
              device_power_up, historyVars
<1>9. CASE UNCHANGED stage
  BY <1>9
<1> QED
  BY <1>1, <1>2, <1>3, <1>4, <1>5, <1>6, <1>7, <1>8, <1>9
     DEF DpmNext, DpmLoop, historyVars, dpm_prepare_next, prepare_device_again,
         prepare_device_fails, dpm_suspend_next, suspend_device_fails,
         suspend_device_noirq_fails, device_power_down_done,
         device_power_up_done, resume_device_done, complete_device_done

\* The callbacks of a device that was registered without a warning come in the
\* order prepare, suspend, suspend_noirq and back, on every path through the
\* loops of main.c.
THEOREM CallbacksOrdered == DpmSpec => CallbacksInOrder
<1>1. DpmInv /\ [DpmNext]_dpmVars
        => [\A d \in (Listed \cap Listed') \ warned :
              stage[d] # stage'[d] => <<stage[d], stage'[d]>> \in Legal]_dpmVars
  BY CallbackStep
<1> QED
  BY <1>1, InvHolds, PTL DEF DpmSpec, CallbacksInOrder


-----------------------------------------------------------------------------
(* Where enter_state is tells what the loops over the devices are doing.    *)

PhaseOK ==
  /\ pc \in {"idle", "prepare", "helpers", "freeze", "memory", "begin",
             "suspend_console", "close", "thaw", "post"} => phase = "idle"
  /\ pc = "device_suspend" => phase \in {"prepare", "suspend", "suspended", "failed"}
  /\ pc \in {"platform", "suspend_enter", "finish"} => phase = "suspended"
  /\ pc = "device_power_down" => phase \in {"power_down", "deep", "power_up", "suspended"}
  /\ pc \in {"sysdev_suspend", "enter", "asleep"} => phase = "deep"
  /\ pc = "device_power_up" => phase \in {"power_up", "suspended"}
  /\ pc = "resume_devices" => phase \in {"suspended", "failed"}
  /\ pc = "device_resume" => phase \in {"resume", "complete", "idle"}

\* What a step inside a call does to phase.
LEMMA LoopPhases ==
  ASSUME DpmLoop
  PROVE  \/ phase = "prepare" /\ phase' \in {"prepare", "failed", "suspend"}
         \/ phase = "suspend" /\ phase' \in {"suspend", "failed", "suspended"}
         \/ phase = "power_down" /\ phase' \in {"power_down", "power_up", "deep"}
         \/ phase = "power_up" /\ phase' \in {"power_up", "suspended"}
         \/ phase = "resume" /\ phase' \in {"resume", "complete"}
         \/ phase = "complete" /\ phase' \in {"complete", "idle"}
BY DEF DpmLoop, dpm_prepare_next, prepare_device_ok, prepare_device_again,
       prepare_device_fails, dpm_suspend_next, suspend_device_ok,
       suspend_device_fails, suspend_device_noirq_ok,
       suspend_device_noirq_fails, device_power_down_done, dpm_power_up_next,
       device_power_up_done, dpm_resume_next, resume_device_done,
       dpm_complete_next, complete_device_done

LEMMA HotplugPhase == Hotplug => phase' = phase
BY DEF Hotplug, device_pm_add, device_pm_remove

LEMMA DpmUnchanged == UNCHANGED dpmVars => phase' = phase
BY DEF dpmVars

\* The steps of enter_state keep to the order of the calls.
LEMMA AttemptPhase ==
  ASSUME PhaseOK, Attempt
  PROVE  PhaseOK' /\ (DpmCall \/ UNCHANGED dpmVars)
<1>1. CASE enter_state \/ enter_state_refused \/ suspend_prepare
             \/ usermodehelper_disable \/ suspend_freeze_processes \/ shrink_memory
             \/ begin
  BY <1>1, DpmUnchanged
     DEF PhaseOK, Step, enter_state, enter_state_refused, suspend_prepare,
         usermodehelper_disable, suspend_freeze_processes, shrink_memory, begin
<1>2. CASE suspend_console \/ suspend_enter \/ sysdev_suspend \/ enter_fails
             \/ wake \/ resume_devices
  BY <1>2, DpmUnchanged
     DEF PhaseOK, Step, suspend_console, suspend_enter, sysdev_suspend,
         enter_fails, wake, resume_devices, DpmCall, device_suspend,
         device_power_down, device_power_up, device_resume
<1>3. CASE device_suspend_returns \/ platform_prepare \/ device_power_down_returns
             \/ enter \/ device_power_up_returns
  BY <1>3, DpmUnchanged
     DEF PhaseOK, Step, device_suspend_returns, platform_prepare, SuspendEnterDone,
         device_power_down_returns, enter, device_power_up_returns
<1>4. CASE finish \/ device_resume_returns \/ close \/ thaw \/ post
  BY <1>4, DpmUnchanged
     DEF PhaseOK, Step, finish, device_resume_returns, close, thaw, post
<1> QED
  BY <1>1, <1>2, <1>3, <1>4 DEF Attempt

LEMMA PhaseStep ==
  ASSUME PhaseOK, [Next]_vars
  PROVE  PhaseOK' /\ [DpmNext]_dpmVars
<1>1. CASE Attempt
  BY <1>1, AttemptPhase DEF DpmNext
<1>2. CASE DpmLoop /\ UNCHANGED coreVars
  BY <1>2, LoopPhases DEF PhaseOK, coreVars, DpmNext
<1>3. CASE Hotplug /\ UNCHANGED coreVars
  BY <1>3, HotplugPhase DEF PhaseOK, coreVars, DpmNext
<1>4. CASE suspend_set_ops \/ choose_governor \/ UNCHANGED vars
  BY <1>4, DpmUnchanged DEF PhaseOK, suspend_set_ops, choose_governor, vars, coreVars
<1> QED
  BY <1>1, <1>2, <1>3, <1>4 DEF Next

LEMMA PhaseHolds == Spec => []PhaseOK
<1>1. Init => PhaseOK
  BY DEF Init, DpmInit, PhaseOK
<1>2. PhaseOK /\ [Next]_vars => PhaseOK'
  BY PhaseStep
<1> QED
  BY <1>1, <1>2, PTL DEF Spec

\* enter_state calls the loops over the devices only in the order they are
\* written for, on every path: the suspend core implements the specification of
\* the device power management.
THEOREM CoreCallsInOrder == Spec => CallsDevicesInOrder
<1>1. Init => DpmInit
  BY DEF Init
<1>2. PhaseOK /\ [Next]_vars => [DpmNext]_dpmVars
  BY PhaseStep
<1> QED
  BY <1>1, <1>2, PhaseHolds, PTL DEF Spec, CallsDevicesInOrder, DpmSpec

\* No device overtakes its parent and none is up below a parent that is off, on
\* any path through enter_state.
THEOREM FamiliesCorrect == Spec => []FamiliesInOrder
BY CoreCallsInOrder, FamiliesKept, PTL DEF CallsDevicesInOrder

-----------------------------------------------------------------------------
(* What is done grows and shrinks like a stack: each place of enter_state   *)
(* has its stack, or one of two.                                            *)

Stack1 == Append(<<>>, "vt")
Stack2 == Append(Stack1, "helpers")
Stack3 == Append(Stack2, "frozen")
Stack3p == Append(Stack2, "partly_frozen")
Stack4 == Append(Stack3, "begun")
Stack5 == Append(Stack4, "console")
Stack6 == Append(Stack5, "prepared")
Stack7 == Append(Stack6, "irqs_off")
Stack8 == Append(Stack7, "sysdev")

DoneOK ==
  /\ pc \in {"idle", "prepare"} => done = <<>>
  /\ pc \in {"helpers", "post"} => done = Stack1
  /\ pc = "freeze" => done = Stack2
  /\ pc \in {"memory", "begin"} => done = Stack3
  /\ pc = "suspend_console" => done = Stack4
  /\ pc \in {"device_suspend", "platform", "resume_devices", "device_resume"}
       => done = Stack5
  /\ pc \in {"suspend_enter", "finish"} => done = Stack6
  /\ pc \in {"device_power_down", "sysdev_suspend", "device_power_up"} => done = Stack7
  /\ pc \in {"enter", "asleep"} => done = Stack8
  /\ pc = "close" => done \in {Stack3, Stack4}
  /\ pc = "thaw" => done \in {Stack3, Stack3p}

\* Pushing x, and popping it again.
LEMMA Push ==
  ASSUME NEW s \in Seq(Undoables), NEW x \in Undoables,
         NoDuplicates(s), x \notin Members(s)
  PROVE  /\ Append(s, x) \in Seq(Undoables)
         /\ NoDuplicates(Append(s, x))
         /\ Members(Append(s, x)) = Members(s) \cup {x}
         /\ list_del(Append(s, x), x) = s
<1> DEFINE t == Append(s, x)
<1>1. /\ t \in Seq(Undoables) /\ NoDuplicates(t) /\ Members(t) = Members(s) \cup {x}
  <2>1. t = s \o <<x>>
    BY AppendConcat
  <2> HIDE DEF t
  <2> QED
    BY <2>1, AppendFacts
<1>2. /\ Len(t) = Len(s) + 1 /\ t[Len(t)] = x
      /\ \A i \in 1 .. Len(s) : t[i] = s[i]
  OBVIOUS
<1> DEFINE i == CHOOSE i \in 1 .. Len(t) : t[i] = x
<1> HIDE DEF t
<1>3. i \in 1 .. Len(t) /\ t[i] = x
  BY <1>1, <1>2
<1>4. i = Len(t)
  BY <1>1, <1>2, <1>3 DEF NoDuplicates
<1>5. list_del(t, x) = SubSeq(t, 1, i - 1) \o SubSeq(t, i + 1, Len(t))
  BY <1>1 DEF list_del
<1> HIDE DEF i
<1>6. SubSeq(t, 1, i - 1) = s
  BY <1>1, <1>2, <1>4
<1>7. SubSeq(t, i + 1, Len(t)) = <<>>
  BY <1>1, <1>4
<1>8. s \o <<>> = s
  OBVIOUS
<1>9. list_del(t, x) = s
  BY <1>5, <1>6, <1>7, <1>8
<1> QED
  BY <1>1, <1>9 DEF t

LEMMA Stacks ==
  /\ {Stack1, Stack2, Stack3, Stack3p, Stack4, Stack5, Stack6, Stack7, Stack8}
       \subseteq Seq(Undoables)
  /\ NoDuplicates(Stack1) /\ NoDuplicates(Stack2) /\ NoDuplicates(Stack3)
  /\ NoDuplicates(Stack3p) /\ NoDuplicates(Stack4) /\ NoDuplicates(Stack5)
  /\ NoDuplicates(Stack6) /\ NoDuplicates(Stack7) /\ NoDuplicates(Stack8)
  /\ Members(Stack1) = {"vt"} /\ Members(Stack2) = {"vt", "helpers"}
  /\ Members(Stack3) = {"vt", "helpers", "frozen"}
  /\ Members(Stack3p) = {"vt", "helpers", "partly_frozen"}
  /\ Members(Stack4) = {"vt", "helpers", "frozen", "begun"}
  /\ Members(Stack5) = {"vt", "helpers", "frozen", "begun", "console"}
  /\ Members(Stack6) = {"vt", "helpers", "frozen", "begun", "console", "prepared"}
  /\ Members(Stack7) = {"vt", "helpers", "frozen", "begun", "console", "prepared",
                        "irqs_off"}
  /\ Members(Stack8) = Undoables \ {"partly_frozen"}
  /\ list_del(Stack1, "vt") = <<>>
  /\ list_del(Stack2, "helpers") = Stack1 /\ list_del(Stack2, "partly_frozen") = Stack2
  /\ list_del(Stack3, "frozen") = Stack2 /\ list_del(Stack3, "begun") = Stack3
  /\ list_del(Stack3p, "frozen") = Stack3p
  /\ list_del(Stack3p, "partly_frozen") = Stack2
  /\ list_del(Stack4, "begun") = Stack3 /\ list_del(Stack5, "console") = Stack4
  /\ list_del(Stack6, "prepared") = Stack5 /\ list_del(Stack7, "irqs_off") = Stack6
  /\ list_del(Stack8, "sysdev") = Stack7
<1> DEFINE Good(s, S) == s \in Seq(Undoables) /\ NoDuplicates(s) /\ Members(s) = S
           S0 == {}
           S1 == S0 \cup {"vt"}
           S2 == S1 \cup {"helpers"}
           S3 == S2 \cup {"frozen"}
           S3p == S2 \cup {"partly_frozen"}
           S4 == S3 \cup {"begun"}
           S5 == S4 \cup {"console"}
           S6 == S5 \cup {"prepared"}
           S7 == S6 \cup {"irqs_off"}
           S8 == S7 \cup {"sysdev"}
<1>p. ASSUME NEW s, NEW S, NEW x \in Undoables, Good(s, S), x \notin S
      PROVE  Good(Append(s, x), S \cup {x}) /\ list_del(Append(s, x), x) = s
  BY <1>p, Push
<1>n. ASSUME NEW s, NEW S, NEW x, Good(s, S), x \notin S
      PROVE  list_del(s, x) = s
  BY <1>n DEF list_del
<1> HIDE DEF Good
<1>0. Good(<<>>, S0)
  BY MembersEmpty DEF Good
<1>1. Good(Stack1, S1) /\ list_del(Stack1, "vt") = <<>>
  <2>1. "vt" \in Undoables /\ "vt" \notin S0
    BY DEF Undoables
  <2> QED
    BY <1>0, <1>p, <2>1, Zenon DEF Stack1
<1>2. Good(Stack2, S2) /\ list_del(Stack2, "helpers") = Stack1
  <2>1. "helpers" \in Undoables /\ "helpers" \notin S1
    BY DEF Undoables
  <2> QED
    BY <1>1, <1>p, <2>1, Zenon DEF Stack2
<1>3. Good(Stack3, S3) /\ list_del(Stack3, "frozen") = Stack2
  <2>1. "frozen" \in Undoables /\ "frozen" \notin S2
    BY DEF Undoables
  <2> QED
    BY <1>2, <1>p, <2>1, Zenon DEF Stack3
<1>4. Good(Stack3p, S3p) /\ list_del(Stack3p, "partly_frozen") = Stack2
  <2>1. "partly_frozen" \in Undoables /\ "partly_frozen" \notin S2
    BY DEF Undoables
  <2> QED
    BY <1>2, <1>p, <2>1, Zenon DEF Stack3p
<1>5. Good(Stack4, S4) /\ list_del(Stack4, "begun") = Stack3
  <2>1. "begun" \in Undoables /\ "begun" \notin S3
    BY DEF Undoables
  <2> QED
    BY <1>3, <1>p, <2>1, Zenon DEF Stack4
<1>6. Good(Stack5, S5) /\ list_del(Stack5, "console") = Stack4
  <2>1. "console" \in Undoables /\ "console" \notin S4
    BY DEF Undoables
  <2> QED
    BY <1>5, <1>p, <2>1, Zenon DEF Stack5
<1>7. Good(Stack6, S6) /\ list_del(Stack6, "prepared") = Stack5
  <2>1. "prepared" \in Undoables /\ "prepared" \notin S5
    BY DEF Undoables
  <2> QED
    BY <1>6, <1>p, <2>1, Zenon DEF Stack6
<1>8. Good(Stack7, S7) /\ list_del(Stack7, "irqs_off") = Stack6
  <2>1. "irqs_off" \in Undoables /\ "irqs_off" \notin S6
    BY DEF Undoables
  <2> QED
    BY <1>7, <1>p, <2>1, Zenon DEF Stack7
<1>9. Good(Stack8, S8) /\ list_del(Stack8, "sysdev") = Stack7
  <2>1. "sysdev" \in Undoables /\ "sysdev" \notin S7
    BY DEF Undoables
  <2> QED
    BY <1>8, <1>p, <2>1, Zenon DEF Stack8
<1>10. /\ list_del(Stack2, "partly_frozen") = Stack2 /\ list_del(Stack3, "begun") = Stack3
       /\ list_del(Stack3p, "frozen") = Stack3p
  BY <1>2, <1>3, <1>4, <1>n
<1>11. S8 = Undoables \ {"partly_frozen"}
  BY DEF Undoables
<1> QED
  BY <1>1, <1>2, <1>3, <1>4, <1>5, <1>6, <1>7, <1>8, <1>9, <1>10, <1>11 DEF Good

LEMMA DoneTyped ==
  ASSUME DoneOK, pc \in Places
  PROVE  done \in Seq(Undoables) /\ NoDuplicates(done)
<1>1. \/ done = <<>> \/ done = Stack1 \/ done = Stack2 \/ done = Stack3
      \/ done = Stack3p \/ done = Stack4 \/ done = Stack5 \/ done = Stack6
      \/ done = Stack7 \/ done = Stack8
  BY DEF DoneOK, Places
<1>2. <<>> \in Seq(Undoables) /\ NoDuplicates(<<>>)
  BY MembersEmpty
<1> QED
  BY <1>1, <1>2, Stacks

LEMMA AttemptDone ==
  ASSUME DoneOK, Attempt
  PROVE  DoneOK'
<1> USE DEF DoneOK, Step, Do, Undo
<1>1. CASE enter_state \/ enter_state_refused \/ suspend_prepare
             \/ usermodehelper_disable \/ suspend_freeze_processes \/ shrink_memory
             \/ begin
  BY <1>1 DEF enter_state, enter_state_refused, suspend_prepare,
         usermodehelper_disable, suspend_freeze_processes, shrink_memory, begin,
         Stack1, Stack2, Stack3, Stack3p, Stack4
<1>2. CASE suspend_console \/ suspend_enter \/ resume_devices
             \/ device_suspend_returns \/ platform_prepare
  BY <1>2 DEF suspend_console, suspend_enter, resume_devices,
         device_suspend_returns, platform_prepare, Stack5, Stack6, Stack7
<1>3. CASE sysdev_suspend \/ enter
  BY <1>3 DEF sysdev_suspend, enter, Stack8
<1>4. CASE device_power_down_returns \/ device_power_up_returns \/ enter_fails \/ wake
  BY <1>4, Stacks DEF device_power_down_returns, device_power_up_returns,
         enter_fails, wake, SuspendEnterDone
<1>5. CASE finish \/ device_resume_returns \/ close \/ post
  BY <1>5, Stacks DEF finish, device_resume_returns, close, post
<1>6. CASE thaw
  BY <1>6, Stacks DEF thaw
<1> QED
  BY <1>1, <1>2, <1>3, <1>4, <1>5, <1>6 DEF Attempt

LEMMA DoneHolds == Spec => []DoneOK
<1>1. Init => DoneOK
  BY DEF Init, DoneOK
<1>2. DoneOK /\ [Next]_vars => DoneOK'
  <2> SUFFICES ASSUME DoneOK, [Next]_vars PROVE DoneOK'
    OBVIOUS
  <2>1. CASE Attempt
    BY <2>1, AttemptDone
  <2>2. CASE UNCHANGED <<pc, done>>
    BY <2>2 DEF DoneOK
  <2> QED
    BY <2>1, <2>2 DEF Next, suspend_set_ops, choose_governor, vars, coreVars
<1> QED
  BY <1>1, <1>2, PTL DEF Spec

-----------------------------------------------------------------------------
(* The other variables of enter_state.                                      *)

MutexOK ==
  /\ pc \in Places
  /\ pc = "idle" => pm_mutex \in {"free", "other"}
  /\ pc # "idle" => pm_mutex = "core"

NotifiedOK ==
  /\ pc \in {"idle", "prepare"} => notified = {}
  /\ pc \notin {"idle", "prepare", "post"} => notified = 1 .. NotifierCount
  /\ notified \subseteq 1 .. NotifierCount

\* The places inside suspend_enter.
Inside == {"device_power_down", "sysdev_suspend", "enter", "asleep",
           "device_power_up"}

\* The governor is the user's, except in suspend_enter, which has put one aside
\* that would change the frequency.
GovernorOK ==
  /\ {governor, governor_name, chosen} \subseteq Governors
  /\ pc \notin Inside => governor = chosen
  /\ pc \in Inside =>
       /\ governor_name = chosen
       /\ governor = IF chosen = "userspace" THEN chosen ELSE "performance"

\* The places at which the fate of the attempt is settled.
Settled == {"device_power_up", "finish", "resume_devices", "device_resume",
            "close", "thaw", "post"}

ResultTypes == error \in BOOLEAN /\ slept \in BOOLEAN /\ refused \in BOOLEAN

ResultOK ==
  /\ pc \notin Settled \cup {"idle"} => ~error
  /\ pc \notin Settled \cup {"idle", "asleep"} => ~slept
  /\ pc = "asleep" => slept
  /\ pc \in {"device_power_up", "finish"} => ~error
  /\ pc \in Settled => /\ error => ~slept
                       /\ ~error => slept \/ refused

LEMMA MutexStep ==
  ASSUME MutexOK, [Next]_vars
  PROVE  MutexOK'
<1>1. CASE Attempt
  BY <1>1 DEF MutexOK, Places, Attempt, Step, enter_state, enter_state_refused,
         suspend_prepare, usermodehelper_disable, suspend_freeze_processes,
         shrink_memory, begin, suspend_console, device_suspend_returns,
         platform_prepare, suspend_enter, device_power_down_returns,
         sysdev_suspend, enter, enter_fails, wake, device_power_up_returns,
         SuspendEnterDone, finish, resume_devices, device_resume_returns,
         close, thaw, post
<1>2. CASE suspend_set_ops
  BY <1>2 DEF MutexOK, suspend_set_ops
<1>3. CASE UNCHANGED <<pc, pm_mutex>>
  BY <1>3 DEF MutexOK
<1> QED
  BY <1>1, <1>2, <1>3 DEF Next, choose_governor, vars, coreVars

LEMMA NotifiedStep ==
  ASSUME NotifiedOK, MutexOK, [Next]_vars
  PROVE  NotifiedOK'
<1>1. CASE suspend_prepare
  BY <1>1, NotifierAssumption DEF NotifiedOK, suspend_prepare, Step
<1>2. CASE Attempt /\ ~suspend_prepare
  BY <1>2 DEF NotifiedOK, Attempt, Step, enter_state, enter_state_refused,
         usermodehelper_disable, suspend_freeze_processes,
         shrink_memory, begin, suspend_console, device_suspend_returns,
         platform_prepare, suspend_enter, device_power_down_returns,
         sysdev_suspend, enter, enter_fails, wake, device_power_up_returns,
         SuspendEnterDone, finish, resume_devices, device_resume_returns,
         close, thaw, post
<1>3. CASE UNCHANGED <<pc, notified>>
  BY <1>3 DEF NotifiedOK
<1> QED
  BY <1>1, <1>2, <1>3 DEF Next, suspend_set_ops, choose_governor, vars, coreVars

\* The user cannot choose a governor while suspend_enter has put his aside.
LEMMA GovernorStep ==
  ASSUME GovernorOK, DoneOK, [Next]_vars
  PROVE  GovernorOK'
<1>1. CASE suspend_enter
  BY <1>1, GovernorAssumption DEF GovernorOK, suspend_enter, Inside
<1>2. CASE device_power_down_returns \/ device_power_up_returns
  BY <1>2 DEF GovernorOK, Inside, device_power_down_returns, Step,
              device_power_up_returns, SuspendEnterDone
<1>3. CASE Attempt /\ ~suspend_enter /\ ~device_power_down_returns
             /\ ~device_power_up_returns
  BY <1>3 DEF GovernorOK, Inside, Attempt, Step, enter_state, enter_state_refused,
         suspend_prepare, usermodehelper_disable, suspend_freeze_processes,
         shrink_memory, begin, suspend_console, device_suspend_returns,
         platform_prepare, sysdev_suspend, enter, enter_fails, wake,
         finish, resume_devices, device_resume_returns, close, thaw, post
<1>4. CASE choose_governor
  <2>1. pc \notin Inside
    BY <1>4, Stacks DEF choose_governor, Done, DoneOK, Inside, Undoables
  <2> QED
    BY <1>4, <2>1 DEF choose_governor, GovernorOK
<1>5. CASE UNCHANGED <<pc, governor, governor_name, chosen>>
  BY <1>5 DEF GovernorOK
<1> QED
  BY <1>1, <1>2, <1>3, <1>4, <1>5 DEF Next, suspend_set_ops, vars, coreVars

LEMMA ResultTypesStep ==
  ASSUME ResultTypes, [Next]_vars
  PROVE  ResultTypes'
<1> USE DEF ResultTypes
<1>1. CASE suspend_prepare
  <2>1. PICK n \in 0 .. NotifierCount : error' = (n < NotifierCount)
    BY <1>1 DEF suspend_prepare
  <2>2. error' \in BOOLEAN
    <3>1. (n < NotifierCount) \in BOOLEAN
      OBVIOUS
    <3> QED
      BY <2>1, <3>1, Zenon
  <2> QED
    BY <1>1, <2>2, Zenon DEF suspend_prepare
<1>2. CASE Attempt /\ ~suspend_prepare
  <2>1. /\ error' \in {error, TRUE, FALSE} /\ slept' \in {slept, TRUE, FALSE}
        /\ refused' \in {refused, TRUE, FALSE}
    BY <1>2, Zenon DEF Attempt, enter_state, enter_state_refused,
         usermodehelper_disable, suspend_freeze_processes,
         shrink_memory, begin, suspend_console, device_suspend_returns,
         platform_prepare, suspend_enter, device_power_down_returns,
         sysdev_suspend, enter, enter_fails, wake, device_power_up_returns,
         finish, resume_devices, device_resume_returns, close, thaw, post
  <2> QED
    BY <2>1, Zenon
<1>3. CASE UNCHANGED <<error, slept, refused>>
  BY <1>3
<1> QED
  BY <1>1, <1>2, <1>3 DEF Next, suspend_set_ops, choose_governor, vars, coreVars

LEMMA ResultStep ==
  ASSUME ResultOK, [Next]_vars
  PROVE  ResultOK'
<1> USE DEF Step, Settled
<1>1. CASE enter_state \/ enter_state_refused
  BY <1>1 DEF ResultOK, enter_state, enter_state_refused
<1>2. CASE suspend_prepare
  BY <1>2 DEF ResultOK, suspend_prepare
<1>3. CASE usermodehelper_disable
  BY <1>3 DEF ResultOK, usermodehelper_disable
<1>4. CASE suspend_freeze_processes
  BY <1>4 DEF ResultOK, suspend_freeze_processes
<1>5. CASE shrink_memory
  BY <1>5 DEF ResultOK, shrink_memory
<1>6. CASE begin
  BY <1>6 DEF ResultOK, begin
<1>7. CASE suspend_console
  BY <1>7 DEF ResultOK, suspend_console
<1>8. CASE device_suspend_returns
  BY <1>8 DEF ResultOK, device_suspend_returns
<1>9. CASE platform_prepare
  BY <1>9 DEF ResultOK, platform_prepare
<1>10. CASE suspend_enter
  BY <1>10 DEF ResultOK, suspend_enter
<1>11. CASE device_power_down_returns
  BY <1>11 DEF ResultOK, device_power_down_returns, SuspendEnterDone
<1>12. CASE sysdev_suspend
  BY <1>12 DEF ResultOK, sysdev_suspend
<1>13. CASE enter \/ enter_fails \/ wake \/ device_power_up_returns
  BY <1>13 DEF ResultOK, enter, enter_fails, wake, device_power_up_returns, SuspendEnterDone
<1>14. CASE finish \/ resume_devices \/ device_resume_returns \/ close \/ thaw \/ post
  BY <1>14 DEF ResultOK, finish, resume_devices, device_resume_returns, close, thaw, post
<1>15. CASE UNCHANGED <<pc, error, slept, refused>>
  BY <1>15 DEF ResultOK
<1> QED
  BY <1>1, <1>2, <1>3, <1>4, <1>5, <1>6, <1>7, <1>8, <1>9, <1>10, <1>11, <1>12,
     <1>13, <1>14, <1>15
     DEF Next, Attempt, suspend_set_ops, choose_governor, vars, coreVars

-----------------------------------------------------------------------------
(* The theorems.                                                           *)

CoreInv ==
  /\ DpmInv /\ PhaseOK /\ DoneOK
  /\ MutexOK /\ NotifiedOK /\ GovernorOK /\ ResultTypes /\ ResultOK

LEMMA CoreInvHolds == Spec => []CoreInv
<1>1. Init => MutexOK /\ NotifiedOK /\ GovernorOK /\ ResultOK
  BY DEF Init, MutexOK, Places, NotifiedOK, GovernorOK, Inside, ResultOK, Settled
<1>2. Init => ResultTypes
  BY Zenon DEF Init, ResultTypes
<1>3. MutexOK /\ NotifiedOK /\ GovernorOK /\ ResultTypes /\ ResultOK /\ DoneOK
        /\ [Next]_vars
        => MutexOK' /\ NotifiedOK' /\ GovernorOK' /\ ResultTypes' /\ ResultOK'
  <2> SUFFICES ASSUME MutexOK, NotifiedOK, GovernorOK, ResultTypes, ResultOK,
                      DoneOK, [Next]_vars
               PROVE  MutexOK' /\ NotifiedOK' /\ GovernorOK' /\ ResultTypes' /\ ResultOK'
    OBVIOUS
  <2>1. MutexOK' /\ NotifiedOK'
    BY MutexStep, NotifiedStep
  <2>2. GovernorOK'
    BY GovernorStep
  <2>3. ResultTypes' /\ ResultOK'
    BY ResultTypesStep, ResultStep
  <2> QED
    BY <2>1, <2>2, <2>3
<1>4. Spec => []DpmInv
  BY CoreCallsInOrder, InvHolds, PTL DEF CallsDevicesInOrder
<1> QED
  BY <1>1, <1>2, <1>3, <1>4, PhaseHolds, DoneHolds, PTL DEF Spec, CoreInv

\* Every variable of the suspend core and of the devices keeps its type, and
\* nothing is done twice before it is undone.
THEOREM TypeCorrect == Spec => []TypeOK
<1>1. CoreInv => TypeOK
  <2> SUFFICES ASSUME CoreInv PROVE TypeOK
    OBVIOUS
  <2> USE DEF CoreInv
  <2>1. DpmTypeOK
    BY TypesJoined DEF DpmInv
  <2>2. done \in Seq(Undoables) /\ NoDuplicates(done)
    BY DoneTyped DEF MutexOK
  <2>3. pm_mutex \in {"free", "core", "other"} /\ pc \in Places
    BY DEF MutexOK
  <2> QED
    BY <2>1, <2>2, <2>3 DEF TypeOK, NotifiedOK, GovernorOK, ResultTypes
<1> QED
  BY <1>1, CoreInvHolds, PTL

\* Whichever step of the way down fails, when enter_state has returned nothing
\* it did is left: the unwinding of main.c is complete on every path.
THEOREM UndoComplete == Spec => []AllUndone
<1>1. CoreInv => AllUndone
  BY InvAllOrNothing DEF CoreInv, AllUndone, PhaseOK, DoneOK, MutexOK, NotifiedOK,
                         GovernorOK, Inside
<1> QED
  BY <1>1, CoreInvHolds, PTL

\* The system sleeps only with every preparation in force, and a device is off
\* only behind the freezer and the gate for helpers, in deep sleep only with
\* interrupts off, on the way down and on the way up.
THEOREM SafeDescent == Spec => []DownInSafety
<1>1. CoreInv => DownInSafety
  <2> SUFFICES ASSUME CoreInv PROVE DownInSafety
    OBVIOUS
  <2> USE DEF CoreInv, DpmInv
  <2>1. SleepPrepared
    <3> SUFFICES ASSUME pc = "asleep"
                 PROVE  /\ Members(done) = Undoables \ {"partly_frozen"}
                        /\ notified = 1 .. NotifierCount
                        /\ \A d \in Listed : stage[d] = "deep"
                        /\ governor \in {"userspace", "performance"}
      BY DEF SleepPrepared
    <3>1. Members(done) = Undoables \ {"partly_frozen"}
      BY Stacks DEF DoneOK
    <3>2. \A d \in Listed : stage[d] = "deep"
      BY ListedDevices DEF PhaseOK, StatusOK, StagesOK
    <3> QED
      BY <3>1, <3>2 DEF NotifiedOK, GovernorOK, Inside
  <2>2. NobodySeesItOff
    <3> SUFFICES ASSUME NEW d \in Listed
                 PROVE  /\ stage[d] \in Off => Done("frozen") /\ Done("helpers")
                        /\ stage[d] = "deep" => IrqsOff
      BY DEF NobodySeesItOff
    <3>1. stage[d] \in Off => phase # "idle"
      BY ListedDevices DEF StatusOK, StagesOK, Off
    <3>2. stage[d] = "deep" => phase \in LatePhases
      <4>1. phase \notin LatePhases => status[d] <= DPM_OFF
        BY DEF StatusOK
      <4>2. d \in Devices /\ (stage[d] = "deep" => status[d] = DPM_OFF_IRQ)
        BY ListedDevices DEF StagesOK
      <4> QED
        BY <4>1, <4>2 DEF DPM_OFF, DPM_OFF_IRQ
    <3>3. phase # "idle" => done \in {Stack5, Stack6, Stack7, Stack8}
      BY DEF PhaseOK, DoneOK, MutexOK, Places
    <3>4. phase \in LatePhases => done \in {Stack7, Stack8}
      BY DEF PhaseOK, DoneOK, MutexOK, Places, LatePhases
    <3>5. \A s \in {Stack5, Stack6, Stack7, Stack8} :
            "frozen" \in Members(s) /\ "helpers" \in Members(s)
      BY Stacks DEF Undoables
    <3>6. "irqs_off" \in Members(Stack7) /\ "irqs_off" \in Members(Stack8)
      BY Stacks DEF Undoables
    <3> QED
      BY <3>1, <3>2, <3>3, <3>4, <3>5, <3>6 DEF Done, IrqsOff
  <2> QED
    BY <2>1, <2>2 DEF DownInSafety
<1> QED
  BY <1>1, CoreInvHolds, PTL

\* An error that enter_state is about to return means that the system has not
\* slept; success means a sleep, or a refusal inside suspend_enter.
THEOREM ResultCorrect == Spec => []ResultTells
<1>1. CoreInv => ResultTells
  BY DEF CoreInv, ResultOK, ResultTells, Settled
<1> QED
  BY <1>1, CoreInvHolds, PTL

-----------------------------------------------------------------------------
(* Undoing in the opposite order.                                           *)

LEMMA Prefixes ==
  /\ Prefix(<<>>, Stack1) /\ Prefix(Stack1, Stack2) /\ Prefix(Stack2, Stack3)
  /\ Prefix(Stack2, Stack3p) /\ Prefix(Stack1, Stack3) /\ Prefix(Stack1, Stack3p)
  /\ Prefix(Stack3, Stack4) /\ Prefix(Stack4, Stack5) /\ Prefix(Stack5, Stack6)
  /\ Prefix(Stack6, Stack7) /\ Prefix(Stack7, Stack8)
<1>1. ASSUME NEW s \in Seq(Undoables), NEW x \in Undoables
      PROVE  Prefix(s, Append(s, x))
  BY DEF Prefix
<1>2. ASSUME NEW s \in Seq(Undoables), NEW x \in Undoables, NEW y \in Undoables
      PROVE  Prefix(s, Append(Append(s, x), y))
  <2>1. /\ Append(s, x) \in Seq(Undoables) /\ Append(Append(s, x), y) \in Seq(Undoables)
        /\ Len(Append(Append(s, x), y)) = Len(s) + 2
        /\ \A i \in 1 .. Len(s) : Append(Append(s, x), y)[i] = s[i]
    OBVIOUS
  <2> QED
    BY <2>1 DEF Prefix
<1>3. /\ <<>> \in Seq(Undoables) /\ Stack1 \in Seq(Undoables) /\ Stack2 \in Seq(Undoables)
      /\ Stack3 \in Seq(Undoables) /\ Stack4 \in Seq(Undoables)
      /\ Stack5 \in Seq(Undoables) /\ Stack6 \in Seq(Undoables)
      /\ Stack7 \in Seq(Undoables)
  BY Stacks
<1>4. Undoables = {"vt", "helpers", "partly_frozen", "frozen", "begun", "console",
                   "prepared", "irqs_off", "sysdev"}
  BY DEF Undoables
<1>5. /\ Prefix(<<>>, Stack1) /\ Prefix(Stack1, Stack2) /\ Prefix(Stack2, Stack3)
      /\ Prefix(Stack2, Stack3p)
  BY <1>1, <1>3, <1>4, Zenon DEF Stack1, Stack2, Stack3, Stack3p
<1>6. Prefix(Stack1, Stack3) /\ Prefix(Stack1, Stack3p)
  BY <1>2, <1>3, <1>4, Zenon DEF Stack2, Stack3, Stack3p
<1>7. /\ Prefix(Stack3, Stack4) /\ Prefix(Stack4, Stack5) /\ Prefix(Stack5, Stack6)
      /\ Prefix(Stack6, Stack7) /\ Prefix(Stack7, Stack8)
  BY <1>1, <1>3, <1>4, Zenon DEF Stack4, Stack5, Stack6, Stack7, Stack8
<1> QED
  BY <1>5, <1>6, <1>7

LEMMA DoneStep ==
  ASSUME CoreInv, CoreInv', [Next]_vars
  PROVE  \/ done' = done \/ Prefix(done, done') \/ Prefix(done', done)
<1> USE DEF CoreInv, DoneOK, Step
<1>1. CASE enter_state \/ enter_state_refused \/ suspend_prepare
             \/ usermodehelper_disable \/ suspend_freeze_processes \/ shrink_memory
             \/ begin
  BY <1>1, Prefixes
     DEF enter_state, enter_state_refused, suspend_prepare,
         usermodehelper_disable, suspend_freeze_processes, shrink_memory, begin
<1>2. CASE suspend_console \/ suspend_enter \/ resume_devices
             \/ device_suspend_returns \/ platform_prepare \/ sysdev_suspend \/ enter
  BY <1>2, Prefixes
     DEF suspend_console, suspend_enter, resume_devices, device_suspend_returns,
         platform_prepare, sysdev_suspend, enter
<1>3. CASE device_power_down_returns \/ device_power_up_returns \/ enter_fails \/ wake
  BY <1>3, Prefixes DEF device_power_down_returns, device_power_up_returns,
         enter_fails, wake, SuspendEnterDone
<1>4. CASE finish \/ post
  BY <1>4, Prefixes DEF finish, post
<1>5. CASE device_resume_returns \/ close
  BY <1>5, Prefixes, Stacks DEF device_resume_returns, close, Undo
<1>6. CASE thaw
  BY <1>6, Prefixes DEF thaw
<1>7. CASE UNCHANGED done
  BY <1>7
<1> QED
  BY <1>1, <1>2, <1>3, <1>4, <1>5, <1>6, <1>7
     DEF Next, Attempt, suspend_set_ops, choose_governor, vars, coreVars

\* enter_state undoes what it did in the opposite order, on every path, and the
\* callbacks of each device come back the way they went.
THEOREM UndoNested == Spec => NestedUndo
<1>1. CoreInv /\ CoreInv' /\ [Next]_vars
        => [Prefix(done, done') \/ Prefix(done', done)]_vars
  <2> SUFFICES ASSUME CoreInv, CoreInv', [Next]_vars
               PROVE  Prefix(done, done') \/ Prefix(done', done)
    OBVIOUS
  <2>1. CASE done' = done
    <3>1. done \in Seq(Undoables)
      BY DoneTyped DEF CoreInv, MutexOK
    <3>2. SubSeq(done, 1, Len(done)) = done
      BY <3>1
    <3> QED
      BY <2>1, <3>1, <3>2 DEF Prefix
  <2> QED
    BY <2>1, DoneStep
<1>2. Spec => CallbacksInOrder
  BY CoreCallsInOrder, CallbacksOrdered, PTL DEF CallsDevicesInOrder
<1>3. Spec => [][Prefix(done, done') \/ Prefix(done', done)]_vars
  BY <1>1, CoreInvHolds, PTL DEF Spec
<1> QED
  BY <1>2, <1>3, PTL DEF NestedUndo
=============================================================================
