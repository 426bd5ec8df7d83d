---------------------------- MODULE LoggerProofs ----------------------------
(***************************************************************************)
(* Proofs about the log, for every size of the ring, the header and the     *)
(* payloads, all writers, readers and numbers of writes.  The types are     *)
(* kept however copies fault; what the readers read is right as long as no  *)
(* copy faults when `orig' is out of date (~StaleFaults), which is where    *)
(* the code goes wrong.                                                    *)
(***************************************************************************)
EXTENDS Logger, WellFoundedInduction, TLAPS

-----------------------------------------------------------------------------
(* Offsets.                                                                *)

LEMMA SizeFact ==
  /\ Size \in Nat /\ Size > 0
  /\ Header \in Nat /\ Header >= 2
  /\ \A n \in Payloads : n \in Nat /\ n > 0 /\ 2 * (Header + n) <= Size
BY LoggerAssumption

LEMMA OffsetType ==
  ASSUME NEW n \in Int
  PROVE  logger_offset(n) \in Offsets
BY SizeFact DEF logger_offset, Offsets

LEMMA OffsetNear ==
  ASSUME NEW o \in Offsets, NEW k \in Int
  PROVE  logger_offset(o - k) \in Offsets /\ logger_offset(o + k) \in Offsets
BY OffsetType, SizeFact DEF Offsets

\* The remainder for the numbers that come up: at most one turn either way.
LEMMA OffsetIs ==
  ASSUME NEW n \in Int, -Size <= n, n < 2 * Size
  PROVE  logger_offset(n) = IF n < 0 THEN n + Size
                            ELSE IF n < Size THEN n ELSE n - Size
BY SizeFact DEF logger_offset

-----------------------------------------------------------------------------
(* The walk of get_next_entry.                                             *)

\* Induction, as the principle that a set of numbers has a least one.
LEMMA LeastOf ==
  ASSUME NEW S \in SUBSET Nat, S # {}
  PROVE  \E i \in S : \A j \in S : i <= j
<1>1. PICK i \in S : \A j \in S : ~(<<j, i>> \in OpToRel(<, Nat))
  BY NatLessThanWellFounded, WFMin
<1>2. \A j \in S : ~(j < i)
  BY <1>1 DEF OpToRel
<1> QED
  BY <1>2

\* An entry is at least its header.
LEMMA LengthPositive ==
  ASSUME buffer \in [Offsets -> Byte], NEW o \in Offsets
  PROVE  get_entry_len(o) \in Nat /\ get_entry_len(o) > 0
<1>1. \A b \in Byte : Value(b) \in Nat
  <2> SUFFICES ASSUME NEW b \in Byte PROVE Value(b) \in Nat
    OBVIOUS
  <2>1. b.len \in Nat /\ b.pos \in Nat
    BY SizeFact DEF Byte
  <2>2. b.len % 256 \in Nat /\ b.len \div 256 \in Nat
    BY <2>1
  <2> QED
    BY <2>1, <2>2 DEF Value
<1>2. (IF Size - o = 1 THEN 0 ELSE o + 1) \in Offsets
  BY SizeFact DEF Offsets
<1>3. Value(buffer[o]) \in Nat
  BY <1>1
<1>4. Value(buffer[IF Size - o = 1 THEN 0 ELSE o + 1]) \in Nat
  BY <1>1, <1>2
<1> QED
  BY <1>3, <1>4, SizeFact DEF get_entry_len

\* The walk is well-defined: each step of it depends on later ones only.
LEMMA WalkExists ==
  ASSUME buffer \in [Offsets -> Byte], NEW off \in Offsets, NEW len \in Nat
  PROVE  \E f : f = [count \in 0 .. len |->
                      LET nr == get_entry_len(logger_offset(off + count))
                      IN  IF count + nr < len THEN f[count + nr] ELSE count + nr]
<1> DEFINE nr(count) == get_entry_len(logger_offset(off + count))
           From(f, m) == \A count \in m .. len :
                           f[count] = IF count + nr(count) < len
                                      THEN f[count + nr(count)]
                                      ELSE count + nr(count)
           S == {m \in 0 .. len : ~ \E f : From(f, len - m)}
<1>1. \A count \in 0 .. len : nr(count) \in Nat /\ nr(count) > 0
  <2> SUFFICES ASSUME NEW count \in 0 .. len
               PROVE  nr(count) \in Nat /\ nr(count) > 0
    OBVIOUS
  <2>1. logger_offset(off + count) \in Offsets
    BY OffsetType, SizeFact DEF Offsets
  <2> QED
    BY <2>1, LengthPositive
<1> HIDE DEF nr
<1>2. S = {}
  <2> SUFFICES ASSUME S # {} PROVE FALSE
    OBVIOUS
  <2>1. PICK m \in S : \A j \in S : m <= j
    <3>1. S \in SUBSET Nat
      OBVIOUS
    <3> QED
      BY <3>1, LeastOf
  <2>2. CASE m = 0
    <3> DEFINE f == [count \in len .. len |-> count + nr(count)]
    <3>1. From(f, len - 0)
      BY <1>1
    <3> QED
      BY <2>1, <2>2, <3>1
  <2>3. CASE m > 0
    <3>1. m - 1 \in 0 .. len /\ m - 1 \notin S
      BY <2>1, <2>3
    <3>2. PICK f : From(f, len - (m - 1))
      BY <3>1
    <3> DEFINE k == len - m
               g == [count \in k .. len |->
                       IF count = k
                       THEN IF k + nr(k) < len THEN f[k + nr(k)] ELSE k + nr(k)
                       ELSE f[count]]
    <3>3. k \in 0 .. len /\ len - (m - 1) = k + 1
      BY <2>1, <2>3
    <3>4. ASSUME NEW count \in k .. len
          PROVE  g[count] = IF count + nr(count) < len
                            THEN g[count + nr(count)]
                            ELSE count + nr(count)
      <4>1. nr(count) \in Nat /\ nr(count) > 0 /\ count \in 0 .. len
        BY <1>1, <3>3
      <4>2. count + nr(count) < len => g[count + nr(count)] = f[count + nr(count)]
        BY <4>1, <3>3
      <4>3. count # k => f[count] = IF count + nr(count) < len
                                    THEN f[count + nr(count)]
                                    ELSE count + nr(count)
        BY <3>2, <3>3, <4>1
      <4> QED
        BY <4>1, <4>2, <4>3
    <3>5. From(g, len - m)
      BY <3>4
    <3> QED
      BY <2>1, <3>5
  <2> QED
    BY <2>1, <2>2, <2>3
<1>3. PICK f : From(f, 0)
  BY <1>2
<1> DEFINE g == [count \in 0 .. len |-> f[count]]
<1>4. ASSUME NEW count \in 0 .. len
      PROVE  g[count] = IF count + nr(count) < len
                        THEN g[count + nr(count)]
                        ELSE count + nr(count)
  <2>1. nr(count) \in Nat /\ nr(count) > 0
    BY <1>1
  <2>2. count + nr(count) < len => g[count + nr(count)] = f[count + nr(count)]
    BY <2>1
  <2> QED
    BY <1>3, <2>1, <2>2
<1>5. g = [count \in 0 .. len |-> IF count + nr(count) < len
                                 THEN g[count + nr(count)]
                                 ELSE count + nr(count)]
  BY <1>4
<1> QED
  BY <1>5 DEF nr

\* So get_next_entry goes as the loop does.
LEMMA WalkIs ==
  ASSUME buffer \in [Offsets -> Byte], NEW off \in Offsets, NEW len \in Nat
  PROVE  \E f : /\ \A count \in 0 .. len :
                     LET nr == get_entry_len(logger_offset(off + count))
                     IN  f[count] = IF count + nr < len
                                    THEN f[count + nr] ELSE count + nr
               /\ get_next_entry(off, len) = logger_offset(off + f[0])
<1> DEFINE Skip[count \in 0 .. len] ==
             LET nr == get_entry_len(logger_offset(off + count))
             IN  IF count + nr < len THEN Skip[count + nr] ELSE count + nr
<1>1. Skip = [count \in 0 .. len |->
                LET nr == get_entry_len(logger_offset(off + count))
                IN  IF count + nr < len THEN Skip[count + nr] ELSE count + nr]
  BY WalkExists, Zenon
<1>2. get_next_entry(off, len) = logger_offset(off + Skip[0])
  BY DEF get_next_entry
<1> HIDE DEF Skip
<1>3. ASSUME NEW count \in 0 .. len
      PROVE  LET nr == get_entry_len(logger_offset(off + count))
             IN  Skip[count] = IF count + nr < len
                               THEN Skip[count + nr] ELSE count + nr
  BY <1>1, Zenon
<1> QED
  BY <1>2, <1>3, Zenon

\* Wherever it walks, it comes to an offset.
LEMMA NextType ==
  ASSUME buffer \in [Offsets -> Byte], NEW off \in Offsets, NEW len \in Nat
  PROVE  get_next_entry(off, len) \in Offsets
<1> DEFINE nr(count) == get_entry_len(logger_offset(off + count))
<1>1. PICK f : /\ \A count \in 0 .. len :
                     f[count] = IF count + nr(count) < len
                                THEN f[count + nr(count)] ELSE count + nr(count)
               /\ get_next_entry(off, len) = logger_offset(off + f[0])
  BY WalkIs
<1>2. \A count \in 0 .. len : nr(count) \in Nat /\ nr(count) > 0
  <2> SUFFICES ASSUME NEW count \in 0 .. len
               PROVE  nr(count) \in Nat /\ nr(count) > 0
    OBVIOUS
  <2>1. logger_offset(off + count) \in Offsets
    BY OffsetType, SizeFact DEF Offsets
  <2> QED
    BY <2>1, LengthPositive
<1> HIDE DEF nr
<1> DEFINE S == {m \in 0 .. len : f[len - m] \notin Nat}
<1>3. S = {}
  <2> SUFFICES ASSUME S # {} PROVE FALSE
    OBVIOUS
  <2>1. S \in SUBSET Nat
    OBVIOUS
  <2>2. PICK m \in S : \A j \in S : m <= j
    BY <2>1, LeastOf
  <2> DEFINE k == len - m
  <2>3. k \in 0 .. len /\ nr(k) \in Nat /\ nr(k) > 0 /\ f[k] \notin Nat
    BY <2>2, <1>2
  <2>4. k + nr(k) < len /\ f[k] = f[k + nr(k)]
    BY <2>3, <1>1
  <2>5. /\ m - nr(k) \in 0 .. len /\ m - nr(k) < m
        /\ len - (m - nr(k)) = k + nr(k)
    BY <2>2, <2>3, <2>4
  <2>6. m - nr(k) \in S
    BY <2>3, <2>4, <2>5
  <2> QED
    BY <2>2, <2>5, <2>6
<1>4. f[0] \in Nat
  <2>1. len \notin S
    BY <1>3
  <2> QED
    BY <2>1
<1>5. off + f[0] \in Int
  BY <1>4, SizeFact DEF Offsets
<1> QED
  BY <1>1, <1>5, OffsetType

-----------------------------------------------------------------------------
(* Runs of entries.                                                        *)

LEMMA BehindType ==
  ASSUME buffer \in [Offsets -> Byte], NEW end \in Offsets, NEW k \in 0 .. Size
  PROVE  /\ logger_offset(end - k) \in Offsets
         /\ Behind(end, k) \in Byte
         /\ Behind(end, k).id \in Nat /\ Behind(end, k).len \in Nat
         /\ EntryLen(end, k) \in Nat /\ EntryLen(end, k) >= 2
<1>1. logger_offset(end - k) \in Offsets
  BY OffsetType, SizeFact DEF Offsets
<1>2. Behind(end, k) \in Byte
  BY <1>1 DEF Behind
<1>3. Behind(end, k).id \in Nat /\ Behind(end, k).len \in Nat
  BY <1>2, SizeFact, LoggerAssumption DEF Byte
<1> QED
  BY <1>1, <1>2, <1>3, SizeFact DEF EntryLen

LEMMA TwoBytes ==
  ASSUME NEW n \in Nat
  PROVE  Header + (n % 256) + 256 * (n \div 256) = Header + n
<1>1. n % 256 \in Int
  OBVIOUS
<1>2. n \div 256 \in Int
  OBVIOUS
<1>3. n = 256 * (n \div 256) + (n % 256)
  OBVIOUS
<1> QED
  BY <1>1, <1>2, <1>3, SizeFact

\* get_entry_len puts the two bytes of the length together again, on both ends
\* of the ring too.
LEMMA EntryLength ==
  ASSUME buffer \in [Offsets -> Byte], NEW end \in Offsets,
         NEW k \in 1 .. (Size - 1), EntryAt(end, k)
  PROVE  get_entry_len(logger_offset(end - k)) = EntryLen(end, k)
<1> DEFINE o == logger_offset(end - k)
           b == Behind(end, k)
<1>1. /\ b \in Byte /\ b.len \in Nat /\ EntryLen(end, k) >= 2
      /\ EntryLen(end, k) \in Nat
  BY BehindType, SizeFact
<1>2. /\ Behind(end, k - 0) = [id |-> b.id, pos |-> 0, len |-> b.len]
      /\ Behind(end, k - 1) = [id |-> b.id, pos |-> 1, len |-> b.len]
  <2>1. /\ 0 \in 0 .. (EntryLen(end, k) - 1)
        /\ 1 \in 0 .. (EntryLen(end, k) - 1)
    BY <1>1
  <2> QED
    BY <2>1 DEF EntryAt
<1>3. buffer[o] = [id |-> b.id, pos |-> 0, len |-> b.len]
  BY <1>2 DEF Behind
<1>4. (IF Size - o = 1 THEN 0 ELSE o + 1) = logger_offset(end - (k - 1))
  BY SizeFact, OffsetIs DEF Offsets
<1>5. buffer[IF Size - o = 1 THEN 0 ELSE o + 1]
        = [id |-> b.id, pos |-> 1, len |-> b.len]
  BY <1>2, <1>4 DEF Behind
<1>6. Value(buffer[o]) = b.len % 256
  BY <1>3 DEF Value
<1>7. Value(buffer[IF Size - o = 1 THEN 0 ELSE o + 1]) = b.len \div 256
  BY <1>5 DEF Value
<1> HIDE DEF o, b
<1>8. get_entry_len(o) = Header + (b.len % 256) + 256 * (b.len \div 256)
  BY <1>6, <1>7, Zenon DEF get_entry_len
<1>9. get_entry_len(o) = Header + b.len
  BY <1>1, <1>8, TwoBytes
<1> QED
  BY <1>9 DEF EntryLen, o, b

\* get_next_entry stays on the boundaries of the run it starts on, goes at least
\* len bytes, not past the end, and comes to newer entries.
LEMMA WalkInRun ==
  ASSUME buffer \in [Offsets -> Byte], NEW end \in Offsets,
         NEW d \in 0 .. (Size - 1), NEW S \in SUBSET (0 .. d), d \in S,
         Boundaries(S, end), NEW len \in 1 .. d
  PROVE  \E k \in S :
           /\ k <= d - len
           /\ get_next_entry(logger_offset(end - d), len) = logger_offset(end - k)
           /\ k > 0 => Behind(end, k).id > Behind(end, d).id
<1> DEFINE off == logger_offset(end - d)
           nr(count) == get_entry_len(logger_offset(off + count))
<1>0. off \in Offsets
  BY OffsetType, SizeFact DEF Offsets
<1>1. PICK f : /\ \A count \in 0 .. len :
                     f[count] = IF count + nr(count) < len
                                THEN f[count + nr(count)] ELSE count + nr(count)
               /\ get_next_entry(off, len) = logger_offset(off + f[0])
  <2>1. len \in Nat
    OBVIOUS
  <2> QED
    BY <1>0, <2>1, WalkIs
<1>2. \A c \in 0 .. d : logger_offset(off + c) = logger_offset(end - (d - c))
  BY SizeFact, OffsetIs DEF Offsets
<1>3. ASSUME NEW c \in 0 .. (len - 1), d - c \in S
      PROVE  /\ nr(c) \in Nat /\ nr(c) > 0 /\ c + nr(c) <= d
             /\ d - (c + nr(c)) \in S
             /\ d - (c + nr(c)) > 0 =>
                  Behind(end, d - (c + nr(c))).id > Behind(end, d - c).id
  <2>1. d - c \in S \ {0} /\ d - c \in 1 .. (Size - 1) /\ d - c \in 0 .. Size
    BY <1>3, SizeFact
  <2>2. /\ EntryAt(end, d - c)
        /\ d - c - EntryLen(end, d - c) \in S
        /\ d - c - EntryLen(end, d - c) > 0 =>
             Behind(end, d - c - EntryLen(end, d - c)).id > Behind(end, d - c).id
    BY <2>1 DEF Boundaries
  <2>3. nr(c) = EntryLen(end, d - c)
    BY <1>2, <2>1, <2>2, EntryLength
  <2>4. EntryLen(end, d - c) \in Nat /\ EntryLen(end, d - c) >= 2
    BY <2>1, BehindType
  <2>5. d - (c + nr(c)) = d - c - EntryLen(end, d - c)
    BY <2>3, <2>4
  <2>6. d - c - EntryLen(end, d - c) \in 0 .. d
    BY <2>2, Zenon
  <2> QED
    BY <2>2, <2>3, <2>4, <2>5, <2>6
<1> HIDE DEF nr, off
<1> DEFINE Good(c) == /\ f[c] \in len .. d /\ d - f[c] \in S
                      /\ d - f[c] > 0 =>
                           Behind(end, d - f[c]).id > Behind(end, d - c).id
           T == {m \in 1 .. len : d - (len - m) \in S /\ ~Good(len - m)}
<1>4. T = {}
  <2> SUFFICES ASSUME T # {} PROVE FALSE
    OBVIOUS
  <2>1. T \in SUBSET Nat
    OBVIOUS
  <2>2. PICK m \in T : \A j \in T : m <= j
    <3> HIDE DEF T
    <3> QED
      BY <2>1, LeastOf
  <2> DEFINE c == len - m
             e == c + nr(c)
  <2>3. c \in 0 .. (len - 1) /\ d - c \in S /\ ~Good(c)
    BY <2>2
  <2>4. /\ nr(c) \in Nat /\ nr(c) > 0 /\ e <= d /\ d - e \in S
        /\ d - e > 0 => Behind(end, d - e).id > Behind(end, d - c).id
    BY <2>3, <1>3
  <2>5. CASE e < len
    <3>1. f[c] = f[e]
      BY <1>1, <2>3, <2>5
    <3>2. len - e \in 1 .. len /\ len - (len - e) = e /\ len - e < m
      BY <2>2, <2>3, <2>4, <2>5
    <3>3. len - e \notin T
      BY <2>2, <3>2
    <3>4. Good(e)
      BY <2>4, <3>2, <3>3
    <3>5. d - f[e] \in 0 .. Size /\ d - e \in 0 .. Size /\ d - c \in 0 .. Size
      BY <2>3, <2>4, <3>4, SizeFact
    <3>6. /\ Behind(end, d - f[e]).id \in Nat /\ Behind(end, d - e).id \in Nat
          /\ Behind(end, d - c).id \in Nat
      BY <3>5, BehindType
    <3>7. d - e > 0
      BY <2>3, <2>4, <2>5
    <3>8. d - f[e] > 0 => Behind(end, d - f[e]).id > Behind(end, d - c).id
      BY <2>4, <3>4, <3>6, <3>7
    <3> QED
      BY <2>3, <3>1, <3>4, <3>8
  <2>6. CASE ~(e < len)
    <3>1. f[c] = e
      BY <1>1, <2>3, <2>6
    <3> QED
      BY <2>3, <2>4, <2>6, <3>1
  <2> QED
    BY <2>5, <2>6
<1>5. Good(0)
  <2>1. len \in 1 .. len /\ len - len = 0 /\ d - 0 = d
    OBVIOUS
  <2>2. len \notin T
    BY <1>4
  <2> QED
    BY <2>1, <2>2
<1>6. logger_offset(off + f[0]) = logger_offset(end - (d - f[0]))
  BY <1>2, <1>5
<1> QED
  BY <1>1, <1>5, <1>6 DEF off

\* From a boundary on, the rest of a run is a run.
LEMMA Suffix ==
  ASSUME buffer \in [Offsets -> Byte], NEW end \in Offsets,
         NEW d \in 0 .. (Size - 1), NEW S \in SUBSET (0 .. d),
         Boundaries(S, end), NEW k \in S
  PROVE  Whole(end, k)
<1> DEFINE T == S \cap (0 .. k)
<1>1. ASSUME NEW j \in T \ {0}
      PROVE  /\ EntryAt(end, j)
             /\ LET next == j - EntryLen(end, j)
                IN  /\ next \in T
                    /\ next > 0 => Behind(end, next).id > Behind(end, j).id
  <2>1. /\ EntryAt(end, j)
        /\ j - EntryLen(end, j) \in S
        /\ j - EntryLen(end, j) > 0 =>
             Behind(end, j - EntryLen(end, j)).id > Behind(end, j).id
    BY DEF Boundaries
  <2>2. EntryLen(end, j) \in Nat
    BY BehindType, SizeFact
  <2>3. j - EntryLen(end, j) \in 0 .. d
    BY <2>1, Zenon
  <2>4. j - EntryLen(end, j) \in 0 .. k
    BY <2>2, <2>3
  <2> QED
    BY <2>1, <2>4
<1>2. Boundaries(T, end)
  BY <1>1 DEF Boundaries
<1>3. T \in SUBSET (0 .. k) /\ k \in T
  OBVIOUS
<1> QED
  BY <1>2, <1>3 DEF Whole

\* What does not touch the bytes of a run leaves it as it is.
LEMMA RunKept ==
  ASSUME buffer \in [Offsets -> Byte], NEW end \in Offsets,
         NEW d \in 0 .. (Size - 1), Whole(end, d),
         \A k \in 1 .. d :
           buffer'[logger_offset(end - k)] = buffer[logger_offset(end - k)]
  PROVE  Whole(end, d)'
<1>1. PICK S \in SUBSET (0 .. d) : d \in S /\ Boundaries(S, end)
  BY DEF Whole
<1>2. ASSUME NEW k \in 1 .. d
      PROVE  Behind(end, k)' = Behind(end, k)
  BY DEF Behind
<1>3. ASSUME NEW k \in S \ {0}
      PROVE  (/\ EntryAt(end, k)
              /\ k - EntryLen(end, k) \in S
              /\ k - EntryLen(end, k) > 0 =>
                   Behind(end, k - EntryLen(end, k)).id > Behind(end, k).id)'
  <2>1. /\ EntryAt(end, k)
        /\ k - EntryLen(end, k) \in S
        /\ k - EntryLen(end, k) > 0 =>
             Behind(end, k - EntryLen(end, k)).id > Behind(end, k).id
    BY <1>1 DEF Boundaries
  <2>2. k \in 1 .. d /\ k \in 0 .. Size
    BY SizeFact
  <2>3. Behind(end, k)' = Behind(end, k)
    BY <1>2, <2>2
  <2>4. EntryLen(end, k)' = EntryLen(end, k)
    BY <2>3 DEF EntryLen
  <2>5. PICK n \in Nat : n = EntryLen(end, k)
    BY <2>2, BehindType
  <2>6. n <= k /\ EntryLen(end, k)' = n
    BY <2>1, <2>4, <2>5 DEF EntryAt
  <2>7. ASSUME NEW i \in 0 .. (n - 1)
        PROVE  Behind(end, k - i)' = Behind(end, k - i)
    <3>1. k - i \in 1 .. d
      BY <2>2, <2>6
    <3> QED
      BY <1>2, <3>1
  <2>8. EntryAt(end, k)'
    BY <2>1, <2>3, <2>5, <2>6, <2>7 DEF EntryAt
  <2>9. k - n > 0 => Behind(end, k - n)' = Behind(end, k - n)
    <3>1. k - n > 0 => k - n \in 1 .. d
      BY <2>2, <2>6
    <3> QED
      BY <1>2, <3>1
  <2> QED
    BY <2>1, <2>3, <2>5, <2>6, <2>8, <2>9
<1>4. Boundaries(S, end)'
  BY <1>3 DEF Boundaries
<1> QED
  BY <1>1, <1>4 DEF Whole

\* Two steps of at most a turn are one.
LEMMA OffsetTwice ==
  ASSUME NEW o \in Offsets, NEW a \in Int, NEW b \in Int,
         -Size <= a, a <= Size, -Size <= b, b <= Size,
         -Size <= a + b, a + b <= Size
  PROVE  logger_offset(logger_offset(o + a) + b) = logger_offset(o + (a + b))
<1>1. Size \in Nat /\ o \in 0 .. (Size - 1)
  BY SizeFact DEF Offsets
<1>2. PICK x \in Offsets : x = logger_offset(o + a)
  BY OffsetNear
<1>3. /\ x \in 0 .. (Size - 1)
      /\ x = IF o + a < 0 THEN o + a + Size
             ELSE IF o + a < Size THEN o + a ELSE o + a - Size
  BY <1>1, <1>2, OffsetIs DEF Offsets
<1>4. logger_offset(x + b) = IF x + b < 0 THEN x + b + Size
                             ELSE IF x + b < Size THEN x + b ELSE x + b - Size
  BY <1>1, <1>3, OffsetIs
<1>5. logger_offset(o + (a + b))
        = IF o + (a + b) < 0 THEN o + (a + b) + Size
          ELSE IF o + (a + b) < Size THEN o + (a + b) ELSE o + (a + b) - Size
  BY <1>1, OffsetIs
<1> QED
  BY <1>1, <1>2, <1>3, <1>4, <1>5

\* A whole entry at the end of a run of older ones makes a longer run.
LEMMA RunGrows ==
  ASSUME (buffer \in [Offsets -> Byte])', NEW start \in Offsets,
         NEW d \in 0 .. (Size - 1), Whole(start, d)',
         NEW len \in Payloads, d + Header + len < Size,
         NEW id \in Nat, id > 0,
         \A i \in 0 .. (Header + len - 1) :
           buffer'[logger_offset(start + i)] = [id |-> id, pos |-> i, len |-> len],
         \A k \in 1 .. d : buffer'[logger_offset(start - k)].id < id
  PROVE  Whole(logger_offset(start + Header + len), d + Header + len)'
<1>1. PICK L \in Nat : L = Header + len /\ L >= 2 /\ d + L < Size
  BY SizeFact
<1>2. PICK end \in Offsets :
        /\ end = logger_offset(start + Header + len)
        /\ end = logger_offset(start + L)
  <2>1. start + Header + len = start + L
    BY <1>1, SizeFact DEF Offsets
  <2>2. logger_offset(start + L) \in Offsets
    BY <1>1, OffsetNear
  <2> QED
    BY <2>1, <2>2
<1>3. PICK S \in SUBSET (0 .. d) : d \in S /\ Boundaries(S, start)'
  BY DEF Whole
<1>4. ASSUME NEW t \in (L + 1) .. (d + L)
      PROVE  Behind(end, t)' = Behind(start, t - L)'
  <2>1. logger_offset(end + (-t)) = logger_offset(start + (L + (-t)))
    BY <1>1, <1>2, SizeFact, OffsetTwice
  <2>2. end + (-t) = end - t /\ start + (L + (-t)) = start - (t - L)
    BY <1>1, SizeFact DEF Offsets
  <2> QED
    BY <2>1, <2>2 DEF Behind
<1>5. ASSUME NEW i \in 0 .. (L - 1)
      PROVE  Behind(end, L - i)' = [id |-> id, pos |-> i, len |-> len]
  <2>1. logger_offset(end + (i - L)) = logger_offset(start + (L + (i - L)))
    BY <1>1, <1>2, SizeFact, OffsetTwice
  <2>2. end + (i - L) = end - (L - i) /\ start + (L + (i - L)) = start + i
    <3>1. start \in Int /\ end \in Int /\ i \in Int
      BY SizeFact DEF Offsets
    <3> QED
      BY <3>1
  <2>3. buffer'[logger_offset(start + i)] = [id |-> id, pos |-> i, len |-> len]
    <3>1. i \in 0 .. (Header + len - 1)
      BY <1>1, SizeFact
    <3> QED
      BY <3>1
  <2> QED
    BY <2>1, <2>2, <2>3 DEF Behind
<1> DEFINE T == {t \in 0 .. (d + L) : t = 0 \/ t = L \/ t - L \in S}
           Fine(t) == (/\ EntryAt(end, t)
                       /\ t - EntryLen(end, t) \in T
                       /\ t - EntryLen(end, t) > 0 =>
                            Behind(end, t - EntryLen(end, t)).id > Behind(end, t).id)'
\* The new entry.
<1>6. /\ Behind(end, L)'.id = id /\ EntryLen(end, L)' = L
      /\ EntryAt(end, L)'
  <2>1. Behind(end, L)' = [id |-> id, pos |-> 0, len |-> len]
    <3>1. 0 \in 0 .. (L - 1) /\ L - 0 = L
      BY <1>1
    <3> QED
      BY <1>5, <3>1
  <2>2. Behind(end, L)'.id = id /\ Behind(end, L)'.len = len
    BY <2>1
  <2>3. EntryLen(end, L)' = L
    BY <1>1, <2>2 DEF EntryLen
  <2> QED
    BY <1>1, <1>5, <2>2, <2>3 DEF EntryAt
<1>7. Fine(L)
  <2>1. L - L = 0 /\ 0 \in T
    BY <1>1
  <2> QED
    BY <1>6, <2>1
\* The ones before it.
<1>8. ASSUME NEW t \in T, t # 0, t # L
      PROVE  Fine(t)
  <2>1. PICK k \in S : k = t - L /\ k \in 1 .. d /\ t = k + L /\ k \in 0 .. Size
    BY <1>1, <1>8, SizeFact
  <2>2. (/\ EntryAt(start, k)
         /\ k - EntryLen(start, k) \in S
         /\ k - EntryLen(start, k) > 0 =>
              Behind(start, k - EntryLen(start, k)).id > Behind(start, k).id)'
    BY <1>3, <2>1 DEF Boundaries
  <2>3. PICK n \in Nat : n = EntryLen(start, k)' /\ n >= 2
    <3>1. Behind(start, k)'.len \in Nat
      <4>1. logger_offset(start - k) \in Offsets
        BY <2>1, OffsetNear
      <4>2. Behind(start, k)' \in Byte
        BY <4>1 DEF Behind
      <4> QED
        BY <4>2, SizeFact DEF Byte
    <3> QED
      BY <3>1, SizeFact DEF EntryLen
  <2>4. Behind(end, t)' = Behind(start, k)'
    BY <1>1, <1>4, <2>1
  <2>5. EntryLen(end, t)' = n
    BY <2>3, <2>4 DEF EntryLen
  <2>6. n <= k
    BY <2>2, <2>3 DEF EntryAt
  <2>7. ASSUME NEW i \in 0 .. (n - 1)
        PROVE  Behind(end, t - i)' = Behind(start, k - i)'
    <3>1. t - i \in (L + 1) .. (d + L) /\ t - i - L = k - i
      BY <1>1, <2>1, <2>6
    <3> QED
      BY <1>4, <3>1
  <2>8. EntryAt(end, t)'
    <3>1. n <= t
      BY <2>1, <2>6, <1>1
    <3> QED
      BY <2>2, <2>3, <2>4, <2>5, <2>7, <3>1 DEF EntryAt
  <2>9. t - n \in T /\ t - n = (k - n) + L
    BY <1>1, <2>1, <2>2, <2>3, <2>6
  <2>10. CASE k - n > 0
    <3>1. t - n \in (L + 1) .. (d + L) /\ t - n - L = k - n
      BY <1>1, <2>1, <2>6, <2>9, <2>10
    <3>2. Behind(end, t - n)' = Behind(start, k - n)'
      BY <1>4, <3>1
    <3>3. Behind(end, t - n)'.id > Behind(end, t)'.id
      BY <2>2, <2>3, <2>4, <2>10, <3>2
    <3> QED
      BY <2>5, <2>8, <2>9, <3>3
  <2>11. CASE k - n = 0
    <3>1. t - n = L
      BY <1>1, <2>9, <2>11
    <3>2. Behind(start, k)'.id < id
      BY <2>1 DEF Behind
    <3>3. Behind(start, k)'.id \in Nat
      <4>1. logger_offset(start - k) \in Offsets
        BY <2>1, OffsetNear
      <4>2. Behind(start, k)' \in Byte
        BY <4>1 DEF Behind
      <4> QED
        BY <4>2, LoggerAssumption DEF Byte
    <3>4. Behind(end, t - n)'.id > Behind(end, t)'.id
      BY <1>6, <2>4, <3>1, <3>2, <3>3
    <3> QED
      BY <2>5, <2>8, <2>9, <3>4
  <2> QED
    BY <2>6, <2>10, <2>11
<1>9. Boundaries(T, end)'
  BY <1>7, <1>8 DEF Boundaries
<1>10. T \in SUBSET (0 .. (d + Header + len)) /\ d + Header + len \in T
  <2>1. d + Header + len = d + L /\ (d + L) - L \in S /\ d + L \in 0 .. (d + L)
    BY <1>1, <1>3, SizeFact
  <2> QED
    BY <2>1
<1> QED
  BY <1>2, <1>9, <1>10 DEF Whole

-----------------------------------------------------------------------------
(* Places on the ring.                                                     *)

\* There and back.
LEMMA WayBack ==
  ASSUME NEW end \in Offsets, NEW k \in 0 .. (Size - 1)
  PROVE  /\ logger_offset(end - k) \in Offsets
         /\ logger_offset(end - logger_offset(end - k)) = k
         /\ logger_offset(end - k) = end <=> k = 0
         /\ k > 0 => logger_offset(logger_offset(end - k) - end) = Size - k
<1>1. Size \in Nat /\ end \in 0 .. (Size - 1)
  BY SizeFact DEF Offsets
<1>2. PICK x \in Offsets : x = logger_offset(end - k)
  BY OffsetNear
<1>3. x \in 0 .. (Size - 1) /\ x = IF end - k < 0 THEN end - k + Size ELSE end - k
  BY <1>1, <1>2, OffsetIs DEF Offsets
<1>4. logger_offset(end - x) = IF end - x < 0 THEN end - x + Size ELSE end - x
  BY <1>1, <1>3, OffsetIs
<1>5. logger_offset(x - end) = IF x - end < 0 THEN x - end + Size ELSE x - end
  BY <1>1, <1>3, OffsetIs
<1> QED
  BY <1>1, <1>2, <1>3, <1>4, <1>5

\* Each offset is some way behind another.
LEMMA WayIs ==
  ASSUME NEW end \in Offsets, NEW off \in Offsets
  PROVE  /\ logger_offset(end - off) \in 0 .. (Size - 1)
         /\ off = logger_offset(end - logger_offset(end - off))
<1>1. Size \in Nat /\ end \in 0 .. (Size - 1) /\ off \in 0 .. (Size - 1)
  BY SizeFact DEF Offsets
<1>2. PICK k \in Offsets : k = logger_offset(end - off)
  <2>1. off \in Int
    BY <1>1
  <2> QED
    BY <2>1, OffsetNear
<1>3. k \in 0 .. (Size - 1) /\ k = IF end - off < 0 THEN end - off + Size ELSE end - off
  BY <1>1, <1>2, OffsetIs DEF Offsets
<1>4. logger_offset(end - k) = IF end - k < 0 THEN end - k + Size ELSE end - k
  BY <1>1, <1>3, OffsetIs
<1> QED
  BY <1>1, <1>2, <1>3, <1>4

\* A write came to the bytes c .. c + n - 1 of the entry that begins at start.
Written(start, c, n, e) ==
  \A o \in Offsets :
    LET place == logger_offset(o - start)
    IN  buffer'[o] = IF c <= place /\ place < c + n
                     THEN [id |-> e.id, pos |-> place, len |-> e.len]
                     ELSE buffer[o]

LEMMA PutWrites ==
  ASSUME NEW start \in Offsets, NEW c \in Nat, NEW n \in Nat, c + n <= Size,
         w_off = logger_offset(start + c), NEW e, buffer' = Put(e, c, n)
  PROVE  Written(start, c, n, e)
<1> SUFFICES ASSUME NEW o \in Offsets
             PROVE  LET place == logger_offset(o - start)
                    IN  buffer'[o] = IF c <= place /\ place < c + n
                                     THEN [id |-> e.id, pos |-> place, len |-> e.len]
                                     ELSE buffer[o]
  BY DEF Written
<1>1. Size \in Nat /\ start \in 0 .. (Size - 1) /\ o \in 0 .. (Size - 1)
  BY SizeFact DEF Offsets
<1>2. PICK w \in Offsets : w = w_off
  BY OffsetNear
<1>3. /\ w \in 0 .. (Size - 1)
      /\ w = IF start + c < Size THEN start + c ELSE start + c - Size
  BY <1>1, <1>2, OffsetIs DEF Offsets
<1>4. PICK p \in Offsets : p = logger_offset(o - start)
  <2>1. start \in Int
    BY <1>1
  <2> QED
    BY <2>1, OffsetNear
<1>5. /\ p \in 0 .. (Size - 1)
      /\ p = IF o - start < 0 THEN o - start + Size ELSE o - start
  BY <1>1, <1>4, OffsetIs DEF Offsets
<1>6. PICK d \in Offsets : d = logger_offset(o - w_off)
  <2>1. w_off \in Int
    BY <1>2, <1>3
  <2> QED
    BY <2>1, OffsetNear
<1>7. /\ d \in 0 .. (Size - 1)
      /\ d = IF o - w < 0 THEN o - w + Size ELSE o - w
  BY <1>1, <1>2, <1>3, <1>6, OffsetIs DEF Offsets
<1>8. /\ d < n <=> c <= p /\ p < c + n
      /\ d < n => c + d = p
  BY <1>1, <1>3, <1>5, <1>7
<1>9. buffer'[o] = IF d < n THEN [id |-> e.id, pos |-> c + d, len |-> e.len]
                   ELSE buffer[o]
  BY <1>6 DEF Put
<1> QED
  BY <1>4, <1>8, <1>9

\* A write that does not come to a run leaves it as it is.
LEMMA WriteKeepsRun ==
  ASSUME buffer \in [Offsets -> Byte], NEW start \in Offsets,
         NEW d \in 0 .. (Size - 1), Whole(start, d),
         NEW c \in Nat, NEW n \in Nat, d + c + n < Size,
         NEW e, Written(start, c, n, e)
  PROVE  /\ Whole(start, d)'
         /\ \A k \in 1 .. d :
              buffer'[logger_offset(start - k)] = buffer[logger_offset(start - k)]
<1>1. ASSUME NEW k \in 1 .. d
      PROVE  buffer'[logger_offset(start - k)] = buffer[logger_offset(start - k)]
  <2>1. k \in 0 .. (Size - 1) /\ k > 0 /\ Size \in Nat
    BY SizeFact
  <2>2. PICK o \in Offsets : o = logger_offset(start - k)
    BY <2>1, WayBack
  <2>3. logger_offset(o - start) = Size - k
    BY <2>1, <2>2, WayBack
  <2>4. ~(Size - k < c + n)
    BY <2>1
  <2> QED
    BY <2>2, <2>3, <2>4 DEF Written
<1> QED
  BY <1>1, RunKept

-----------------------------------------------------------------------------
(* What every step keeps, also when a copy faults with an old `orig'.      *)

\* A write has a length from the time it waits for the mutex, and under the
\* mutex its number is the last one.
WritersOK ==
  \A w \in Writers :
    /\ write[w].pc \in {"mutex_lock", "copy"} => write[w].len \in Payloads
    /\ write[w].pc = "copy" =>
         write[w].ret < write[w].len /\ write[w].id = writes /\ writes > 0

\* Only an open file is read, and only a reader that looks or sleeps is queued.
ReadersOK ==
  \A r \in Readers : /\ at[r] # "idle" => r \in Open
                     /\ r \in wq => at[r] \in {"test", "schedule"}

TypeInv == TypeOK /\ WritersOK /\ ReadersOK

WriteType == [pc : WritePCs, orig : Offsets, len : {0} \cup Payloads,
              ret : 0 .. (Size - 1), id : 0 .. MaxWrites]

LEMMA TypeFacts ==
  ASSUME TypeOK
  PROVE  /\ write \in [Writers -> WriteType]
         /\ Nobody \notin Writers /\ MaxWrites \in Nat
         /\ w_off \in Offsets /\ head \in Offsets
         /\ \A r \in Open : r_off[r] \in Offsets
         /\ \A o \in Offsets : buffer[o].id \in Nat
         /\ writes \in Nat
<1>1. /\ Nobody \notin Writers /\ MaxWrites \in Nat
  BY LoggerAssumption
<1>2. \A b \in Byte : b.id \in Nat
  BY <1>1 DEF Byte
<1> QED
  BY <1>1, <1>2 DEF TypeOK, WriteType, Open

LEMMA TypeInit == Init => TypeInv
<1> SUFFICES ASSUME Init PROVE TypeInv
  OBVIOUS
<1>1. 0 \in Offsets /\ 0 \in 0 .. MaxWrites /\ 0 \in 0 .. (Size - 1)
  BY SizeFact, LoggerAssumption DEF Offsets
<1>2. [id |-> 0, pos |-> 0, len |-> 0] \in Byte
  BY <1>1 DEF Byte
<1>3. NoWrite \in WriteType
  BY <1>1 DEF NoWrite, WriteType, WritePCs
<1>4. Open = {}
  BY DEF Init, Open
<1>5. TypeOK
  <2>1. buffer \in [Offsets -> Byte]
    BY <1>2 DEF Init
  <2>2. write \in [Writers -> WriteType]
    BY <1>3 DEF Init
  <2>3. \A w \in Writers : write[w].pc = "copy" <=> mutex = w
    BY LoggerAssumption DEF Init, NoWrite
  <2> QED
    BY <1>1, <1>4, <2>1, <2>2, <2>3 DEF Init, TypeOK, WriteType
<1> QED
  BY <1>4, <1>5 DEF Init, TypeInv, WritersOK, ReadersOK, NoWrite

LEMMA PutType ==
  ASSUME TypeOK, NEW e \in WriteType, NEW c \in Nat, NEW n \in Nat, c + n <= Size,
         buffer' = Put(e, c, n)
  PROVE  buffer' \in [Offsets -> Byte]
<1>1. ASSUME NEW o \in Offsets, NEW d \in Offsets, d < n
      PROVE  [id |-> e.id, pos |-> c + d, len |-> e.len] \in Byte
  <2>1. c + d \in 0 .. (Size - 1)
    BY <1>1, SizeFact DEF Offsets
  <2> QED
    BY <2>1 DEF Byte, WriteType
<1>2. ASSUME NEW o \in Offsets
      PROVE  logger_offset(o - w_off) \in Offsets
  <2>1. w_off \in Int
    BY SizeFact DEF TypeOK, Offsets
  <2> QED
    BY <2>1, OffsetNear
<1>3. buffer \in [Offsets -> Byte]
  BY DEF TypeOK
<1> QED
  BY <1>1, <1>2, <1>3 DEF Put

LEMMA PulledType ==
  ASSUME TypeOK, NEW off \in Offsets, NEW len \in Nat
  PROVE  Pulled(off, len) \in Offsets
BY NextType DEF TypeOK, Pulled

\* An open file stays open, a closed one closed, and the others are untouched.
LEMMA PulledReaders ==
  ASSUME TypeOK, NEW len \in Nat, fix_up_readers(len)
  PROVE  /\ head' \in Offsets /\ r_off' \in [Readers -> Offsets \cup {Closed}]
         /\ Open' = Open
<1>1. head' \in Offsets
  BY PulledType DEF fix_up_readers, TypeOK
<1>2. \A r \in Open : r_off[r] \in Offsets /\ Pulled(r_off[r], len) \in Offsets
  BY PulledType, TypeFacts
<1>3. Closed \notin Offsets
  BY SizeFact DEF Closed, Offsets
<1>4. r_off' \in [Readers -> Offsets \cup {Closed}]
  BY <1>2 DEF fix_up_readers
<1>5. \A r \in Readers : r_off'[r] # Closed <=> r \in Open
  BY <1>2, <1>3 DEF fix_up_readers
<1> QED
  BY <1>1, <1>4, <1>5 DEF Open

LEMMA TypeBegin ==
  ASSUME TypeInv, NEW w \in Writers, NEW orig \in Offsets, NEW len \in Payloads,
         write[w].pc \in {"idle", "mutex_lock"}, Begin(w, orig, len)
  PROVE  TypeInv'
<1> DEFINE e == [pc |-> "copy", orig |-> orig, len |-> len, ret |-> 0,
                 id |-> writes + 1]
<1>1. TypeOK /\ WritersOK /\ ReadersOK
  BY DEF TypeInv
<1>2. /\ writes \in Nat /\ MaxWrites \in Nat /\ writes < MaxWrites
      /\ write \in [Writers -> WriteType] /\ mutex = Nobody
      /\ Header \in Nat /\ len \in Nat /\ len > 0 /\ 2 * (Header + len) <= Size
      /\ Size \in Nat /\ Size > 0
  BY <1>1, TypeFacts, SizeFact DEF Begin
<1>3. e \in WriteType
  <2>1. 0 \in 0 .. (Size - 1) /\ writes + 1 \in 0 .. MaxWrites
    BY <1>2
  <2> QED
    BY <2>1 DEF WriteType, WritePCs
<1>4. /\ write' = [write EXCEPT ![w] = e] /\ buffer' = Put(e, 0, Header)
      /\ fix_up_readers(Header + len) /\ mutex' = w /\ writes' = writes + 1
      /\ w_off' = logger_offset(w_off + Header) /\ UNCHANGED readerVars
  BY DEF Begin
<1>5. buffer' \in [Offsets -> Byte]
  <2>1. 0 + Header <= Size
    BY <1>2
  <2> HIDE DEF e
  <2> QED
    BY <1>1, <1>2, <1>3, <1>4, <2>1, PutType
<1>6. /\ head' \in Offsets /\ r_off' \in [Readers -> Offsets \cup {Closed}]
      /\ Open' = Open
  <2>1. Header + len \in Nat
    BY <1>2
  <2> QED
    BY <1>1, <1>4, <2>1, PulledReaders
<1>7. w_off' \in Offsets
  BY <1>1, <1>2, <1>4, OffsetNear DEF TypeOK
<1>8. write' \in [Writers -> WriteType]
  BY <1>2, <1>3, <1>4
<1>9. \A v \in Writers : write'[v].pc = "copy" <=> mutex' = v
  BY <1>1, <1>2, <1>4, TypeFacts DEF TypeOK
<1>10. writes' \in 0 .. MaxWrites /\ flushed' \in 0 .. writes'
  BY <1>1, <1>2, <1>4 DEF TypeOK, readerVars
<1>11. TypeOK'
  BY <1>1, <1>4, <1>5, <1>6, <1>7, <1>8, <1>9, <1>10
     DEF TypeOK, WriteType, readerVars
<1>12. WritersOK'
  <2> SUFFICES ASSUME NEW v \in Writers
               PROVE  (/\ write[v].pc \in {"mutex_lock", "copy"} =>
                            write[v].len \in Payloads
                       /\ write[v].pc = "copy" =>
                            write[v].ret < write[v].len /\ write[v].id = writes
                              /\ writes > 0)'
    BY DEF WritersOK
  <2>1. CASE v = w
    BY <1>2, <1>4, <2>1
  <2>2. CASE v # w
    <3>1. write'[v] = write[v] /\ write[v].pc # "copy"
      BY <1>1, <1>2, <1>4, <2>2, TypeFacts DEF TypeOK
    <3> QED
      BY <1>1, <3>1 DEF WritersOK
  <2> QED
    BY <2>1, <2>2
<1>13. ReadersOK'
  BY <1>1, <1>4, <1>6 DEF ReadersOK, readerVars
<1> QED
  BY <1>11, <1>12, <1>13 DEF TypeInv

\* What is known of the writer that has the mutex.
LEMMA CopierFacts ==
  ASSUME TypeInv, NEW w \in Writers, write[w].pc = "copy"
  PROVE  /\ mutex = w /\ mutex # Nobody
         /\ write[w] \in WriteType
         /\ write[w].len \in Payloads /\ write[w].len \in Nat
         /\ write[w].ret \in Nat /\ write[w].ret < write[w].len
         /\ write[w].id = writes /\ writes \in Nat /\ writes > 0
         /\ Header \in Nat /\ Header >= 2 /\ Size \in Nat
         /\ 2 * (Header + write[w].len) <= Size
<1>1. TypeOK /\ WritersOK /\ write \in [Writers -> WriteType]
  BY TypeFacts DEF TypeInv
<1>2. write[w] \in WriteType /\ write[w].len \in Payloads /\ write[w].ret \in Nat
  BY <1>1, SizeFact DEF WritersOK, WriteType
<1> QED
  BY <1>1, <1>2, SizeFact, TypeFacts DEF WritersOK, TypeOK

\* A segment is copied, or a copy faults.
LEMMA TypeCopy ==
  ASSUME TypeInv, NEW w \in Writers, NEW n \in Nat,
         do_write_log_from_user(w, n) \/ copy_fault(w, n)
  PROVE  TypeInv'
<1>1. TypeOK /\ WritersOK /\ ReadersOK
  BY DEF TypeInv
<1>2. PICK e \in WriteType : e = write[w]
  BY <1>1, TypeFacts
<1>3. /\ e.pc = "copy" /\ n \in 0 .. (e.len - e.ret)
      /\ buffer' = Put(e, Header + e.ret, n)
      /\ UNCHANGED <<head, r_off, writes, readerVars>>
  <2>1. CASE do_write_log_from_user(w, n)
    BY <1>2, <2>1 DEF do_write_log_from_user
  <2>2. CASE copy_fault(w, n)
    BY <1>2, <2>2 DEF copy_fault
  <2> QED
    BY <2>1, <2>2
<1>4. /\ mutex = w /\ e.len \in Payloads /\ e.len \in Nat /\ e.ret \in Nat
      /\ e.ret < e.len /\ e.id = writes /\ writes \in Nat /\ writes > 0
      /\ Header \in Nat /\ Size \in Nat /\ 2 * (Header + e.len) <= Size
  BY <1>2, <1>3, CopierFacts
<1>5. buffer' \in [Offsets -> Byte]
  <2>1. Header + e.ret \in Nat /\ Header + e.ret + n <= Size
    BY <1>3, <1>4
  <2> QED
    BY <1>1, <1>3, <2>1, PutType
<1>6. Open' = Open
  BY <1>3 DEF Open
<1>7. /\ write \in [Writers -> WriteType] /\ mutex' \in {w, Nobody} /\ Nobody \notin Writers
      /\ \A v \in Writers : v # w => write[v].pc # "copy"
  <2>1. mutex' \in {w, Nobody}
    BY <1>4 DEF do_write_log_from_user, copy_fault
  <2> QED
    BY <1>1, <1>4, <2>1, TypeFacts DEF TypeOK
<1>8. /\ w_off' \in Offsets
      /\ write'[w] \in WriteType
      /\ write' = [write EXCEPT ![w] = write'[w]]
      /\ write'[w].pc \in {"copy", "wake_up", "idle"}
      /\ write'[w].pc = "copy" <=> mutex' = w
      /\ write'[w].pc = "copy" =>
           /\ write'[w].len = e.len /\ write'[w].id = e.id
           /\ write'[w].ret < e.len
  <2>1. CASE do_write_log_from_user(w, n)
    <3> DEFINE f == [e EXCEPT !.ret = e.ret + n,
                              !.pc = IF e.ret + n = e.len THEN "wake_up" ELSE "copy"]
    <3>1. w_off' \in Offsets
      BY <1>1, <2>1, OffsetNear DEF do_write_log_from_user, TypeOK
    <3>2. write' = [write EXCEPT ![w] = f]
      BY <1>2, <1>3, <1>7, <2>1 DEF do_write_log_from_user, WriteType
    <3>3. f \in WriteType
      <4>1. e.ret + n \in 0 .. (Size - 1)
        BY <1>3, <1>4
      <4> QED
        BY <4>1 DEF WriteType, WritePCs
    <3>4. /\ f.pc = IF e.ret + n = e.len THEN "wake_up" ELSE "copy"
          /\ f.len = e.len /\ f.id = e.id /\ f.ret = e.ret + n
      BY DEF WriteType
    <3>5. mutex' = IF e.ret + n = e.len THEN Nobody ELSE mutex
      BY <1>2, <2>1 DEF do_write_log_from_user
    <3> HIDE DEF f
    <3>6. write'[w] = f
      BY <1>7, <3>2
    <3> QED
      BY <1>3, <1>4, <1>7, <3>1, <3>2, <3>3, <3>4, <3>5, <3>6
  <2>2. CASE copy_fault(w, n)
    <3>1. NoWrite \in WriteType /\ NoWrite.pc = "idle"
      BY SizeFact, LoggerAssumption DEF NoWrite, WriteType, WritePCs, Offsets
    <3> QED
      BY <1>2, <1>7, <2>2, <3>1 DEF copy_fault, WriteType
  <2> QED
    BY <2>1, <2>2
<1>9. write' \in [Writers -> WriteType]
  BY <1>7, <1>8
<1>10. \A v \in Writers : v # w => write'[v] = write[v]
  BY <1>7, <1>8
<1>11. \A v \in Writers : write'[v].pc = "copy" <=> mutex' = v
  BY <1>7, <1>8, <1>10
<1>12. TypeOK'
  BY <1>1, <1>3, <1>5, <1>6, <1>7, <1>8, <1>9, <1>11
     DEF TypeOK, WriteType, readerVars
<1>13. WritersOK'
  <2> SUFFICES ASSUME NEW v \in Writers
               PROVE  (/\ write[v].pc \in {"mutex_lock", "copy"} =>
                            write[v].len \in Payloads
                       /\ write[v].pc = "copy" =>
                            write[v].ret < write[v].len /\ write[v].id = writes
                              /\ writes > 0)'
    BY DEF WritersOK
  <2>1. CASE v = w
    BY <1>3, <1>4, <1>8, <2>1
  <2>2. CASE v # w
    BY <1>1, <1>7, <1>10, <2>2 DEF WritersOK
  <2> QED
    BY <2>1, <2>2
<1>14. ReadersOK'
  BY <1>1, <1>3, <1>6 DEF ReadersOK, readerVars
<1> QED
  BY <1>12, <1>13, <1>14 DEF TypeInv

\* A writer waits for the mutex, or is done and wakes the readers.
LEMMA TypeAround ==
  ASSUME TypeInv, NEW w \in Writers,
         \/ \E len \in Payloads : logger_aio_write(w, len) /\ mutex # Nobody
         \/ wake_up_interruptible(w)
  PROVE  TypeInv'
<1>1. /\ TypeOK /\ WritersOK /\ ReadersOK
      /\ write \in [Writers -> WriteType] /\ w_off \in Offsets
  BY TypeFacts DEF TypeInv
<1> DEFINE Aside ==
             /\ UNCHANGED <<buffer, w_off, head, r_off, mutex, writes, at, last, flushed>>
             /\ wq' \in {wq, {}}
             /\ write[w].pc \in {"idle", "wake_up"}
             /\ write' = [write EXCEPT ![w] = write'[w]]
             /\ write'[w] \in WriteType
             /\ write'[w].pc \in {"mutex_lock", "idle"}
             /\ write'[w].pc = "mutex_lock" => write'[w].len \in Payloads
<1>2. Aside
  <2>1. ASSUME NEW len \in Payloads, logger_aio_write(w, len), mutex # Nobody
        PROVE  Aside
    <3>1. /\ write[w].pc = "idle"
          /\ write' = [write EXCEPT ![w].pc = "mutex_lock", ![w].orig = w_off,
                                    ![w].len = len]
          /\ UNCHANGED <<buffer, w_off, head, r_off, mutex, writes, readerVars>>
      BY <2>1 DEF logger_aio_write, Begin
    <3>2. write'[w] = [write[w] EXCEPT !.pc = "mutex_lock", !.orig = w_off, !.len = len]
      BY <1>1, <3>1 DEF WriteType
    <3>3. write'[w] \in WriteType /\ write'[w].pc = "mutex_lock" /\ write'[w].len = len
      BY <1>1, <3>2 DEF WriteType, WritePCs
    <3> QED
      BY <1>1, <3>1, <3>3 DEF readerVars
  <2>2. CASE wake_up_interruptible(w)
    <3>1. NoWrite \in WriteType /\ NoWrite.pc = "idle"
      BY SizeFact, LoggerAssumption DEF NoWrite, WriteType, WritePCs, Offsets
    <3> QED
      BY <1>1, <2>2, <3>1 DEF wake_up_interruptible
  <2> QED
    BY <2>1, <2>2
<1>3. /\ write' \in [Writers -> WriteType]
      /\ \A v \in Writers : v # w => write'[v] = write[v]
  BY <1>1, <1>2
<1>4. \A v \in Writers : write'[v].pc = "copy" <=> mutex' = v
  BY <1>1, <1>2, <1>3 DEF TypeOK
<1>5. Open' = Open
  BY <1>2 DEF Open
<1>6. TypeOK'
  BY <1>1, <1>2, <1>3, <1>4, <1>5 DEF TypeOK, WriteType
<1>7. WritersOK'
  BY <1>1, <1>2, <1>3 DEF WritersOK
<1>8. ReadersOK'
  BY <1>1, <1>2, <1>5 DEF ReadersOK
<1> QED
  BY <1>6, <1>7, <1>8 DEF TypeInv

LEMMA TypeReader ==
  ASSUME TypeInv, NEW r \in Readers, ReaderStep(r)
  PROVE  TypeInv'
<1>1. /\ TypeOK /\ WritersOK /\ ReadersOK /\ MaxWrites \in Nat
      /\ w_off \in Offsets /\ head \in Offsets
      /\ r \in Open => r_off[r] \in Offsets
      /\ Closed \notin Offsets
  BY TypeFacts, SizeFact DEF TypeInv, Closed, Offsets
<1>2. UNCHANGED logVars
  BY DEF ReaderStep, logger_open, logger_release, prepare_to_wait,
         logger_read_test, signal, do_read_log_to_user
<1>3. ASSUME (/\ r_off \in [Readers -> Offsets \cup {Closed}]
              /\ wq \subseteq Open
              /\ at \in [Readers -> {"idle", "test", "schedule", "read"}]
              /\ last \in [Readers -> 0 .. MaxWrites]
              /\ ReadersOK)'
      PROVE  TypeInv'
  BY <1>1, <1>2, <1>3 DEF TypeInv, TypeOK, WritersOK, logVars
<1> USE <1>1, <1>2, <1>3 DEF TypeOK, ReadersOK, Open
<1>4. CASE logger_open(r)
  BY <1>4 DEF logger_open
<1>5. CASE logger_release(r)
  BY <1>5 DEF logger_release
<1>6. CASE prepare_to_wait(r)
  BY <1>6 DEF prepare_to_wait
<1>7. CASE logger_read_test(r)
  BY <1>7 DEF logger_read_test
<1>8. CASE signal(r)
  BY <1>8 DEF signal
<1>9. CASE do_read_log_to_user(r)
  <2>1. r \in Open
    BY <1>9 DEF do_read_log_to_user
  <2>2. logger_offset(r_off[r] + get_entry_len(r_off[r])) \in Offsets
    <3>1. r_off[r] \in Offsets
      BY <2>1
    <3>2. get_entry_len(r_off[r]) \in Int
      BY <3>1, LengthPositive
    <3> QED
      BY <3>1, <3>2, OffsetNear
  <2>3. buffer[r_off[r]].id \in 0 .. MaxWrites
    BY <2>1 DEF Byte
  <2> QED
    BY <1>9, <2>1, <2>2, <2>3 DEF do_read_log_to_user
<1> QED
  BY <1>4, <1>5, <1>6, <1>7, <1>8, <1>9 DEF ReaderStep

LEMMA TypeStep ==
  ASSUME TypeInv, [Next]_vars
  PROVE  TypeInv'
<1>0. TypeOK /\ write \in [Writers -> WriteType] /\ w_off \in Offsets
  BY TypeFacts DEF TypeInv
<1>1. ASSUME NEW w \in Writers, WriterStep(w)
      PROVE  TypeInv'
  <2>1. ASSUME NEW len \in Payloads, logger_aio_write(w, len)
        PROVE  TypeInv'
    <3>1. CASE mutex # Nobody
      BY <2>1, <3>1, TypeAround
    <3>2. CASE mutex = Nobody
      BY <1>0, <2>1, <3>2, TypeBegin DEF logger_aio_write
    <3> QED
      BY <3>1, <3>2
  <2>2. ASSUME mutex_lock(w)
        PROVE  TypeInv'
    <3>1. write[w].orig \in Offsets /\ write[w].len \in Payloads
      BY <1>0, <2>2 DEF mutex_lock, WriteType, TypeInv, WritersOK
    <3> QED
      BY <2>2, <3>1, TypeBegin DEF mutex_lock
  <2>3. ASSUME NEW n \in 0 .. write[w].len,
               do_write_log_from_user(w, n) \/ copy_fault(w, n)
        PROVE  TypeInv'
    <3>1. n \in Nat
      BY <1>0, SizeFact DEF WriteType
    <3> QED
      BY <2>3, <3>1, TypeCopy
  <2>4. \A n \in 1 .. write[w].len : n \in 0 .. write[w].len
    BY <1>0, SizeFact DEF WriteType
  <2> QED
    BY <1>1, <2>1, <2>2, <2>3, <2>4, TypeAround DEF WriterStep
<1>2. CASE flush_log
  <2>1. Open' = Open
    BY <1>0, <1>2, SizeFact DEF flush_log, Open, Closed, Offsets
  <2>2. TypeOK'
    BY <1>0, <1>2, <2>1 DEF flush_log, TypeOK
  <2> QED
    BY <1>2, <2>1, <2>2 DEF flush_log, TypeInv, WritersOK, ReadersOK
<1>3. CASE UNCHANGED vars
  BY <1>3 DEF vars, TypeInv, TypeOK, WritersOK, ReadersOK, Open
<1> QED
  BY <1>1, <1>2, <1>3, TypeReader DEF Next

LEMMA TypeInvariant == Spec => []TypeInv
BY TypeInit, TypeStep, PTL DEF Spec

\* The types, however copies fault (logger.c:291-457).
THEOREM TypeCorrect == Spec => []TypeOK
BY TypeInvariant, PTL DEF TypeInv

-----------------------------------------------------------------------------
(* The inductive invariant.                                                *)

\* Where the log ends for its readers: at the write offset or, while a write is
\* under way, where that began.
End ==
  IF mutex = Nobody THEN w_off
  ELSE logger_offset(w_off - Header - write[mutex].ret)

\* The offsets somebody reads from.
Starts == {head} \cup {r_off[r] : r \in Open}

\* From each of them the log parses up to the end.
RunsOK == \A off \in Starts : Whole(End, logger_offset(End - off))

\* A write that is under way will not come to a reader.
RoomOK ==
  mutex # Nobody =>
    \A off \in Starts : logger_offset(End - off) + Header + write[mutex].len < Size

\* Its entry is there as far as it was copied, and the rest of the ring is older.
CopyOK ==
  mutex # Nobody =>
    \A o \in Offsets :
      LET place == logger_offset(o - End)
      IN  IF place < Header + write[mutex].ret
          THEN buffer[o] = [id |-> write[mutex].id, pos |-> place,
                            len |-> write[mutex].len]
          ELSE buffer[o].id < writes

\* Entries are numbered in the order of their writes, and so are those read.
NumbersOK ==
  /\ \A o \in Offsets : buffer[o].id <= writes
  /\ \A r \in Readers : last[r] <= writes
  /\ mutex # Nobody => \A r \in Readers : last[r] < writes

\* What a reader comes to next is newer than what it has read.
ForwardOK ==
  \A r \in Open : r_off[r] # End => buffer[r_off[r]].id > last[r]

\* Who sleeps on an entry will be woken.
WakeOK ==
  \A r \in Open :
    at[r] = "schedule" /\ r \in wq /\ r_off[r] # End =>
      \E w \in Writers : write[w].pc = "wake_up"

LogInv ==
  /\ RunsOK /\ RoomOK /\ CopyOK /\ NumbersOK /\ ForwardOK /\ WakeOK /\ NewestKept

\* The end itself is an empty run.
LEMMA EmptyRun ==
  ASSUME NEW end \in Offsets
  PROVE  logger_offset(end - end) = 0 /\ Whole(end, 0)
<1>1. logger_offset(end - end) = 0
  <2>1. end - end = 0 /\ Size \in Nat /\ Size > 0
    BY SizeFact DEF Offsets
  <2> QED
    BY <2>1, OffsetIs
<1>2. {0} \in SUBSET (0 .. 0) /\ Boundaries({0}, end)
  BY DEF Boundaries
<1> QED
  BY <1>1, <1>2 DEF Whole

LEMMA InvInit == Init => LogInv
<1> SUFFICES ASSUME Init PROVE LogInv
  OBVIOUS
<1>1. 0 \in Offsets /\ Open = {} /\ End = 0 /\ Starts = {0} /\ mutex = Nobody
  BY SizeFact DEF Init, Offsets, Open, End, Starts
<1>2. RunsOK
  BY <1>1, EmptyRun DEF RunsOK
<1>3. NumbersOK
  BY <1>1 DEF Init, NumbersOK
<1>4. NewestKept
  BY <1>1 DEF Init, NewestKept
<1> QED
  BY <1>1, <1>2, <1>3, <1>4 DEF LogInv, RoomOK, CopyOK, ForwardOK, WakeOK

\* Where the end is.
LEMMA EndIs ==
  ASSUME TypeInv
  PROVE  /\ End \in Offsets
         /\ mutex = Nobody => End = w_off
         /\ \A w \in Writers : mutex = w =>
              w_off = logger_offset(End + (Header + write[w].ret))
<1>1. TypeOK /\ w_off \in Offsets
  BY TypeFacts DEF TypeInv
<1>2. mutex = Nobody => End = w_off
  BY DEF End
<1>3. ASSUME NEW w \in Writers, mutex = w
      PROVE  End \in Offsets /\ w_off = logger_offset(End + (Header + write[w].ret))
  <2>1. write[w].pc = "copy"
    BY <1>1, <1>3 DEF TypeOK
  <2>2. PICK c \in Nat : c = Header + write[w].ret /\ c <= Size
    BY <2>1, CopierFacts
  <2>3. /\ w_off - Header - write[w].ret = w_off + (-c)
        /\ Size \in Nat /\ w_off \in Int
    BY <1>1, <2>1, <2>2, CopierFacts DEF Offsets
  <2>4. End = logger_offset(w_off + (-c))
    <3>1. mutex # Nobody
      BY <1>3, LoggerAssumption
    <3> QED
      BY <1>3, <2>3, <3>1 DEF End
  <2>5. End \in Offsets
    BY <1>1, <2>2, <2>4, OffsetNear
  <2>6. logger_offset(logger_offset(w_off + (-c)) + c) = logger_offset(w_off + ((-c) + c))
    <3>1. /\ -c \in Int /\ c \in Int /\ -Size <= -c /\ -c <= Size
          /\ -Size <= c /\ c <= Size /\ -Size <= (-c) + c /\ (-c) + c <= Size
      BY <2>2, <2>3
    <3> QED
      BY <1>1, <3>1, OffsetTwice
  <2>7. logger_offset(w_off + ((-c) + c)) = w_off
    <3>1. w_off + ((-c) + c) = w_off /\ w_off \in 0 .. (Size - 1)
      BY <1>1, <2>2, <2>3 DEF Offsets
    <3> QED
      BY <2>3, <3>1, OffsetIs
  <2> QED
    BY <2>2, <2>4, <2>5, <2>6, <2>7
<1> QED
  BY <1>1, <1>2, <1>3 DEF TypeOK

\* Each offset that is read from, by its way to the end.
LEMMA StartIs ==
  ASSUME TypeInv, LogInv, NEW off \in Starts
  PROVE  \E d \in 0 .. (Size - 1) :
           /\ d = logger_offset(End - off)
           /\ off = logger_offset(End - d) /\ off \in Offsets
           /\ Whole(End, d)
           /\ \A w \in Writers : mutex = w => d + Header + write[w].len < Size
<1>1. off \in Offsets /\ End \in Offsets
  BY TypeFacts, EndIs DEF TypeInv, Starts
<1>2. PICK d \in 0 .. (Size - 1) : d = logger_offset(End - off) /\ off = logger_offset(End - d)
  BY <1>1, WayIs
<1>3. Whole(End, d)
  BY <1>2 DEF LogInv, RunsOK
<1>4. ASSUME NEW w \in Writers, mutex = w
      PROVE  d + Header + write[w].len < Size
  <2>1. mutex # Nobody
    BY <1>4, LoggerAssumption
  <2> QED
    BY <1>2, <1>4, <2>1 DEF LogInv, RoomOK
<1> QED
  BY <1>1, <1>2, <1>3, <1>4

-----------------------------------------------------------------------------
(* Copies.                                                                 *)

\* What a copy does to the ring, whether it faults or not: its bytes join the
\* entry that begins at the end, and no run is touched.
LEMMA CopyEffect ==
  ASSUME TypeInv, LogInv, NEW w \in Writers, NEW n \in Nat,
         do_write_log_from_user(w, n) \/ copy_fault(w, n),
         NEW start \in Offsets, start = End, NEW e \in WriteType, e = write[w]
  PROVE  /\ mutex = w /\ mutex # Nobody /\ e.pc = "copy"
         /\ e.len \in Payloads /\ e.len \in Nat /\ e.ret \in Nat
         /\ Header \in Nat /\ Header >= 2 /\ Size \in Nat
         /\ 2 * (Header + e.len) <= Size
         /\ e.id = writes /\ writes \in Nat /\ writes > 0
         /\ e.ret + n <= e.len
         /\ w_off = logger_offset(start + (Header + e.ret))
         /\ \A o \in Offsets :
              LET place == logger_offset(o - start)
              IN  IF place < Header + e.ret + n
                  THEN buffer'[o] = [id |-> e.id, pos |-> place, len |-> e.len]
                  ELSE buffer'[o].id < writes
         /\ \A off \in Starts : \E d \in 0 .. (Size - 1) :
              /\ d = logger_offset(start - off) /\ off = logger_offset(start - d)
              /\ off \in Offsets
              /\ d + Header + e.len < Size
              /\ Whole(start, d)'
              /\ \A k \in 1 .. d : buffer'[logger_offset(start - k)]
                                    = buffer[logger_offset(start - k)]
         /\ UNCHANGED <<head, r_off, writes, wq, at, last, flushed, Open, Starts>>
<1>1. /\ e.pc = "copy" /\ n \in 0 .. (e.len - e.ret)
      /\ buffer' = Put(e, Header + e.ret, n)
      /\ UNCHANGED <<head, r_off, writes, wq, at, last, flushed>>
  <2>1. CASE do_write_log_from_user(w, n)
    BY <2>1 DEF do_write_log_from_user, readerVars
  <2>2. CASE copy_fault(w, n)
    BY <2>2 DEF copy_fault, readerVars
  <2> QED
    BY <2>1, <2>2
<1>2. /\ mutex = w /\ mutex # Nobody
      /\ e.len \in Payloads /\ e.len \in Nat /\ e.ret \in Nat /\ e.ret < e.len
      /\ e.id = writes /\ writes \in Nat /\ writes > 0
      /\ Header \in Nat /\ Header >= 2 /\ Size \in Nat
      /\ 2 * (Header + e.len) <= Size
  BY <1>1, CopierFacts
<1>3. w_off = logger_offset(start + (Header + e.ret))
  BY <1>2, EndIs
<1>4. PICK c \in Nat : c = Header + e.ret /\ c + n <= Header + e.len
  BY <1>1, <1>2
<1>5. Written(start, c, n, e)
  <2>1. c + n <= Size
    BY <1>2, <1>4
  <2> QED
    BY <1>1, <1>3, <1>4, <2>1, PutWrites
<1>6. ASSUME NEW o \in Offsets
      PROVE  LET place == logger_offset(o - start)
             IN  IF place < Header + e.ret + n
                 THEN buffer'[o] = [id |-> e.id, pos |-> place, len |-> e.len]
                 ELSE buffer'[o].id < writes
  <2>1. PICK place \in 0 .. (Size - 1) : place = logger_offset(o - start)
    <3>1. start \in Int
      BY <1>2 DEF Offsets
    <3> QED
      BY <3>1, OffsetNear DEF Offsets
  <2>2. buffer'[o] = IF c <= place /\ place < c + n
                     THEN [id |-> e.id, pos |-> place, len |-> e.len]
                     ELSE buffer[o]
    BY <1>5, <2>1 DEF Written
  <2>3. IF place < c
        THEN buffer[o] = [id |-> e.id, pos |-> place, len |-> e.len]
        ELSE buffer[o].id < writes
    BY <1>2, <1>4, <2>1 DEF LogInv, CopyOK
  <2>4. CASE place < c
    BY <1>4, <2>1, <2>2, <2>3, <2>4
  <2>5. CASE c <= place /\ place < c + n
    BY <1>4, <2>1, <2>2, <2>5
  <2>6. CASE c + n <= place
    <3>1. ~(place < c + n) /\ ~(place < c)
      BY <2>6
    <3> QED
      BY <1>4, <2>1, <2>2, <2>3, <3>1
  <2> QED
    BY <2>4, <2>5, <2>6
<1>7. ASSUME NEW off \in Starts
      PROVE  \E d \in 0 .. (Size - 1) :
              /\ d = logger_offset(start - off) /\ off = logger_offset(start - d)
              /\ off \in Offsets
              /\ d + Header + e.len < Size
              /\ Whole(start, d)'
              /\ \A k \in 1 .. d : buffer'[logger_offset(start - k)]
                                    = buffer[logger_offset(start - k)]
  <2>1. PICK d \in 0 .. (Size - 1) :
          /\ d = logger_offset(start - off) /\ off = logger_offset(start - d)
          /\ off \in Offsets
          /\ Whole(start, d) /\ d + Header + e.len < Size
    BY <1>2, StartIs
  <2>2. d + c + n < Size
    BY <1>2, <1>4, <2>1
  <2>3. buffer \in [Offsets -> Byte]
    BY DEF TypeInv, TypeOK
  <2> QED
    BY <1>5, <2>1, <2>2, <2>3, WriteKeepsRun
<1>8. UNCHANGED <<Open, Starts>>
  BY <1>1 DEF Open, Starts
<1>9. e.ret + n <= e.len
  BY <1>1, <1>2
<1> QED
  BY <1>1, <1>2, <1>3, <1>6, <1>7, <1>8, <1>9

\* The numbers on the ring stay at most that of the write.
LEMMA CopyNumbers ==
  ASSUME TypeInv, LogInv, NEW w \in Writers, NEW n \in Nat,
         do_write_log_from_user(w, n) \/ copy_fault(w, n)
  PROVE  \A o \in Offsets : buffer'[o].id <= writes
<1> SUFFICES ASSUME NEW o \in Offsets PROVE buffer'[o].id <= writes
  OBVIOUS
<1>1. PICK e \in WriteType : e = write[w]
  BY TypeFacts DEF TypeInv
<1>2. PICK start \in Offsets : start = End
  BY EndIs
<1> DEFINE place == logger_offset(o - start)
<1>3. /\ e.id = writes /\ writes \in Nat
      /\ IF place < Header + e.ret + n
         THEN buffer'[o] = [id |-> e.id, pos |-> place, len |-> e.len]
         ELSE buffer'[o].id < writes
  BY <1>1, <1>2, CopyEffect
<1> HIDE DEF place
<1>4. buffer'[o] = [id |-> e.id, pos |-> place, len |-> e.len]
        => buffer'[o].id = writes
  BY <1>3
<1>5. buffer'[o].id \in Nat
  <2>1. TypeInv'
    BY TypeCopy
  <2>2. buffer' \in [Offsets -> Byte] /\ MaxWrites \in Nat
    BY <2>1, LoggerAssumption DEF TypeInv, TypeOK
  <2> QED
    BY <2>2 DEF Byte
<1> QED
  BY <1>3, <1>4, <1>5

\* The end stays where it is: in the middle of a write, and after a fault of a
\* write whose `orig' is not out of date.
LEMMA CopyKeepsEnd ==
  ASSUME TypeInv, LogInv, NEW w \in Writers, NEW n \in Nat,
         do_write_log_from_user(w, n) \/ copy_fault(w, n),
         NEW start \in Offsets, start = End, End' = start,
         \A v \in Writers : write[v].pc = "wake_up" => write'[v].pc = "wake_up",
         \/ mutex' = Nobody /\ w_off' = start
         \/ /\ mutex' = w /\ write'[w].len = write[w].len
            /\ write'[w].id = write[w].id /\ write'[w].ret = write[w].ret + n
  PROVE  LogInv'
<1>1. PICK e \in WriteType : e = write[w]
  BY TypeFacts DEF TypeInv
<1>2. /\ mutex = w /\ mutex # Nobody
      /\ e.len \in Nat /\ e.ret \in Nat
      /\ Header \in Nat /\ Header >= 2 /\ Size \in Nat
      /\ 2 * (Header + e.len) <= Size
      /\ e.id = writes /\ writes \in Nat
      /\ e.ret + n <= e.len
      /\ UNCHANGED <<head, r_off, writes, wq, at, last, flushed, Open, Starts>>
  BY <1>1, CopyEffect
<1>3. ASSUME NEW o \in Offsets
      PROVE  LET place == logger_offset(o - start)
             IN  IF place < Header + e.ret + n
                 THEN buffer'[o] = [id |-> e.id, pos |-> place, len |-> e.len]
                 ELSE buffer'[o].id < writes
  BY <1>1, CopyEffect
<1>4. ASSUME NEW off \in Starts
      PROVE  \E d \in 0 .. (Size - 1) :
              /\ d = logger_offset(start - off) /\ off = logger_offset(start - d)
              /\ d + Header + e.len < Size
              /\ Whole(start, d)'
              /\ \A k \in 1 .. d : buffer'[logger_offset(start - k)]
                                    = buffer[logger_offset(start - k)]
  BY <1>1, CopyEffect
<1>5. RunsOK'
  <2> SUFFICES ASSUME NEW off \in Starts
               PROVE  Whole(End, logger_offset(End - off))'
    BY <1>2 DEF RunsOK
  <2> QED
    BY <1>4
<1>6. RoomOK'
  <2> SUFFICES ASSUME mutex' = w, write'[w].len = e.len, NEW off \in Starts
               PROVE  logger_offset(start - off) + Header + e.len < Size
    BY <1>1, <1>2 DEF RoomOK
  <2> QED
    BY <1>4
<1>7. CopyOK'
  <2> SUFFICES ASSUME mutex' = w, write'[w].len = e.len, write'[w].id = e.id,
                      write'[w].ret = e.ret + n, NEW o \in Offsets
               PROVE  LET place == logger_offset(o - start)
                      IN  IF place < Header + (e.ret + n)
                          THEN buffer'[o] = [id |-> e.id, pos |-> place, len |-> e.len]
                          ELSE buffer'[o].id < writes
    BY <1>1, <1>2 DEF CopyOK
  <2>1. Header + (e.ret + n) = Header + e.ret + n
    BY <1>2
  <2> QED
    BY <1>3, <2>1
<1>8. NumbersOK'
  <2>1. \A o \in Offsets : buffer'[o].id <= writes
    BY CopyNumbers
  <2> QED
    BY <1>2, <2>1 DEF LogInv, NumbersOK
<1>9. ForwardOK'
  <2> SUFFICES ASSUME NEW r \in Open, r_off[r] # start
               PROVE  buffer'[r_off[r]].id > last[r]
    BY <1>2 DEF ForwardOK
  <2>1. r_off[r] \in Starts
    BY DEF Starts
  <2>2. PICK d \in 0 .. (Size - 1) :
          /\ r_off[r] = logger_offset(start - d)
          /\ \A k \in 1 .. d : buffer'[logger_offset(start - k)]
                                = buffer[logger_offset(start - k)]
    BY <1>4, <2>1
  <2>3. d \in 1 .. d
    BY <2>2, WayBack
  <2>4. buffer'[r_off[r]] = buffer[r_off[r]]
    BY <2>2, <2>3
  <2> QED
    BY <2>4 DEF LogInv, ForwardOK
<1>10. WakeOK'
  BY <1>2 DEF LogInv, WakeOK
<1>11. NewestKept'
  <2> SUFFICES ASSUME mutex' = Nobody, w_off' = start
               PROVE  Newest' < writes
    <3>1. Newest' < writes => Newest' # writes
      BY <1>2
    <3>2. mutex' # Nobody => NewestKept'
      BY DEF NewestKept
    <3> QED
      BY <1>2, <3>1, <3>2 DEF NewestKept
  <2>1. PICK o \in Offsets : o = logger_offset(start - 1)
    BY OffsetNear
  <2>2. 1 \in 0 .. (Size - 1)
    BY <1>2
  <2>3. logger_offset(o - start) = Size - 1
    BY <2>1, <2>2, WayBack
  <2>4. ~(Size - 1 < Header + e.ret + n)
    BY <1>2
  <2>5. buffer'[o].id < writes
    BY <1>3, <2>3, <2>4
  <2> QED
    BY <2>1, <2>5 DEF Newest
<1> QED
  BY <1>5, <1>6, <1>7, <1>8, <1>9, <1>10, <1>11 DEF LogInv

\* After some way on the ring, back, and further.
LEMMA WayOn ==
  ASSUME NEW o \in Offsets, NEW c \in 0 .. Size
  PROVE  /\ logger_offset(o + c) \in Offsets
         /\ logger_offset(logger_offset(o + c) - c) = o
         /\ c < Size => logger_offset(logger_offset(o + c) - o) = c
         /\ \A n \in Nat : c + n <= Size =>
              logger_offset(logger_offset(o + c) + n) = logger_offset(o + (c + n))
<1>1. Size \in Nat /\ o \in 0 .. (Size - 1) /\ c \in Int
  BY SizeFact DEF Offsets
<1>2. PICK x \in Offsets : x = logger_offset(o + c)
  BY <1>1, OffsetNear
<1>3. /\ x \in 0 .. (Size - 1)
      /\ x = IF o + c < Size THEN o + c ELSE o + c - Size
  BY <1>1, <1>2, OffsetIs DEF Offsets
<1>4. logger_offset(x - c) = IF x - c < 0 THEN x - c + Size ELSE x - c
  BY <1>1, <1>3, OffsetIs
<1>5. logger_offset(x - o) = IF x - o < 0 THEN x - o + Size ELSE x - o
  BY <1>1, <1>3, OffsetIs
<1>6. ASSUME NEW n \in Nat, c + n <= Size
      PROVE  logger_offset(logger_offset(o + c) + n) = logger_offset(o + (c + n))
  <2>1. /\ n \in Int /\ -Size <= c /\ c <= Size /\ -Size <= n /\ n <= Size
        /\ -Size <= c + n
    BY <1>1, <1>6
  <2> QED
    BY <1>1, <1>6, <2>1, OffsetTwice
<1> QED
  BY <1>1, <1>2, <1>3, <1>4, <1>5, <1>6

\* A segment that is not the last one.
LEMMA InvCopyOn ==
  ASSUME TypeInv, LogInv, NEW w \in Writers, NEW n \in Nat,
         do_write_log_from_user(w, n), write[w].ret + n # write[w].len
  PROVE  LogInv'
<1>1. PICK e \in WriteType : e = write[w]
  BY TypeFacts DEF TypeInv
<1>2. PICK start \in Offsets : start = End
  BY EndIs
<1>3. /\ mutex = w /\ mutex # Nobody /\ e.pc = "copy"
      /\ e.len \in Nat /\ e.ret \in Nat /\ Header \in Nat /\ Size \in Nat
      /\ 2 * (Header + e.len) <= Size /\ e.ret + n <= e.len
      /\ w_off = logger_offset(start + (Header + e.ret))
  BY <1>1, <1>2, CopyEffect
<1>4. write \in [Writers -> WriteType]
  BY TypeFacts DEF TypeInv
<1>5. /\ mutex' = w /\ w_off' = logger_offset(w_off + n)
      /\ write' = [write EXCEPT ![w] = [e EXCEPT !.ret = e.ret + n]]
  BY <1>1, <1>3, <1>4 DEF do_write_log_from_user, WriteType
<1>6. /\ write'[w].pc = "copy" /\ write'[w].len = e.len /\ write'[w].id = e.id
      /\ write'[w].ret = e.ret + n
  BY <1>3, <1>4, <1>5 DEF WriteType
<1>7. PICK c \in 0 .. Size : c = Header + e.ret /\ c + n \in 0 .. Size
  BY <1>3
<1>8. w_off' = logger_offset(start + (c + n))
  BY <1>3, <1>5, <1>7, WayOn
<1>9. End' = start
  <2>1. w_off' \in Offsets /\ logger_offset(w_off' - (c + n)) = start
    BY <1>7, <1>8, WayOn
  <2>2. w_off' - Header - (e.ret + n) = w_off' - (c + n)
    BY <1>3, <1>7, <2>1 DEF Offsets
  <2>3. End' = logger_offset(w_off' - Header - (e.ret + n))
    BY <1>3, <1>5, <1>6 DEF End
  <2> QED
    BY <2>1, <2>2, <2>3
<1>10. \A v \in Writers : write[v].pc = "wake_up" => write'[v].pc = "wake_up"
  BY <1>1, <1>3, <1>4, <1>5
<1> QED
  BY <1>1, <1>2, <1>5, <1>6, <1>9, <1>10, CopyKeepsEnd

\* A fault takes the write offset back to where the write began.
LEMMA InvFault ==
  ASSUME ~StaleFaults, TypeInv, LogInv, NEW w \in Writers, NEW n \in Nat,
         copy_fault(w, n)
  PROVE  LogInv'
<1>1. PICK start \in Offsets : start = End
  BY EndIs
<1>2. /\ mutex = w /\ mutex # Nobody /\ write[w].pc = "copy"
      /\ write \in [Writers -> WriteType]
  BY CopierFacts, TypeFacts DEF copy_fault, TypeInv
<1>3. w_off' = start
  BY <1>1, <1>2 DEF copy_fault, OrigCurrent, End
<1>4. mutex' = Nobody /\ write' = [write EXCEPT ![w] = NoWrite]
  BY DEF copy_fault
<1>5. End' = start
  BY <1>3, <1>4 DEF End
<1>6. \A v \in Writers : write[v].pc = "wake_up" => write'[v].pc = "wake_up"
  BY <1>2, <1>4
<1> QED
  BY <1>1, <1>3, <1>4, <1>5, <1>6, CopyKeepsEnd

\* The last segment: every run grows by the entry.
LEMMA InvCopyDone ==
  ASSUME TypeInv, LogInv, NEW w \in Writers, NEW n \in Nat,
         do_write_log_from_user(w, n), write[w].ret + n = write[w].len
  PROVE  LogInv'
<1>1. PICK e \in WriteType : e = write[w]
  BY TypeFacts DEF TypeInv
<1>2. PICK start \in Offsets : start = End
  BY EndIs
<1>3. /\ mutex = w /\ mutex # Nobody /\ e.pc = "copy" /\ e.len \in Payloads
      /\ e.len \in Nat /\ e.ret \in Nat /\ Header \in Nat /\ Header >= 2
      /\ Size \in Nat /\ 2 * (Header + e.len) <= Size
      /\ e.id = writes /\ writes \in Nat /\ writes > 0
      /\ w_off = logger_offset(start + (Header + e.ret))
      /\ UNCHANGED <<head, r_off, writes, wq, at, last, flushed, Open, Starts>>
  BY <1>1, <1>2, CopyEffect
<1>4. write \in [Writers -> WriteType]
  BY TypeFacts DEF TypeInv
<1>5. /\ mutex' = Nobody /\ w_off' = logger_offset(w_off + n)
      /\ write'[w].pc = "wake_up"
  BY <1>1, <1>3, <1>4 DEF do_write_log_from_user, WriteType
<1>6. PICK L \in 0 .. Size : L = Header + e.len /\ L = Header + e.ret + n /\ L >= 2
  <2>1. e.ret + n = e.len /\ Header + e.len \in 0 .. Size
    BY <1>1, <1>3
  <2>2. Header + e.ret + n = Header + e.len /\ Header + e.len >= 2
    BY <1>3, <2>1
  <2> QED
    BY <2>1, <2>2
<1>7. PICK fin \in Offsets :
        fin = w_off' /\ fin = End' /\ fin = logger_offset(start + L)
  <2>1. Header + e.ret \in 0 .. Size /\ Header + e.ret + n <= Size
    BY <1>3, <1>6
  <2>2. w_off' = logger_offset(start + L)
    BY <1>3, <1>5, <1>6, <2>1, WayOn
  <2> QED
    BY <1>5, <1>6, <2>2, WayOn DEF End
<1>8. ASSUME NEW o \in Offsets
      PROVE  LET place == logger_offset(o - start)
             IN  IF place < L
                 THEN buffer'[o] = [id |-> e.id, pos |-> place, len |-> e.len]
                 ELSE buffer'[o].id < writes
  BY <1>1, <1>2, <1>6, CopyEffect
<1>9. ASSUME NEW i \in 0 .. (L - 1)
      PROVE  buffer'[logger_offset(start + i)]
               = [id |-> writes, pos |-> i, len |-> e.len]
  <2>1. i \in 0 .. Size /\ i < Size /\ i < L
    BY <1>3, <1>6
  <2>2. /\ logger_offset(start + i) \in Offsets
        /\ logger_offset(logger_offset(start + i) - start) = i
    BY <2>1, WayOn
  <2> QED
    BY <1>3, <1>8, <2>1, <2>2
<1>10. ASSUME NEW off \in Starts
       PROVE  \E d \in 0 .. (Size - 1) :
                /\ d = logger_offset(start - off) /\ off = logger_offset(start - d)
                /\ logger_offset(fin - off) = d + L
                /\ off # fin
                /\ Whole(fin, d + L)'
                /\ \A k \in 1 .. d : buffer'[logger_offset(start - k)]
                                      = buffer[logger_offset(start - k)]
  <2>1. PICK d \in 0 .. (Size - 1) :
          /\ d = logger_offset(start - off) /\ off = logger_offset(start - d)
          /\ off \in Offsets
          /\ d + Header + e.len < Size
          /\ Whole(start, d)'
          /\ \A k \in 1 .. d : buffer'[logger_offset(start - k)]
                                = buffer[logger_offset(start - k)]
    BY <1>1, <1>2, CopyEffect
  <2>2. d + L \in 0 .. (Size - 1) /\ d + Header + e.len = d + L /\ d + L > 0
    BY <1>3, <1>6, <2>1
  <2>3. off = logger_offset(fin - (d + L))
    <3>1. logger_offset(fin + (-(d + L))) = logger_offset(start + (L + (-(d + L))))
      <4>1. /\ L \in Int /\ -(d + L) \in Int /\ -Size <= L /\ L <= Size
            /\ -Size <= -(d + L) /\ -(d + L) <= Size
            /\ -Size <= L + (-(d + L)) /\ L + (-(d + L)) <= Size
        BY <1>3, <1>6, <2>2
      <4> QED
        BY <1>7, <4>1, OffsetTwice
    <3>2. fin + (-(d + L)) = fin - (d + L) /\ start + (L + (-(d + L))) = start - d
      <4>1. fin \in Int /\ start \in Int /\ L \in Int /\ d \in Int
        BY <1>3 DEF Offsets
      <4> QED
        BY <4>1
    <3> QED
      BY <2>1, <3>1, <3>2
  <2>4. logger_offset(fin - off) = d + L /\ off # fin
    BY <2>2, <2>3, WayBack
  <2>5. \A k \in 1 .. d : buffer'[logger_offset(start - k)].id < writes
    <3> SUFFICES ASSUME NEW k \in 1 .. d
                 PROVE  buffer'[logger_offset(start - k)].id < writes
      OBVIOUS
    <3>1. k \in 0 .. (Size - 1) /\ k > 0 /\ ~(Size - k < L)
      BY <1>3, <1>6, <2>2
    <3>2. /\ logger_offset(start - k) \in Offsets
          /\ logger_offset(logger_offset(start - k) - start) = Size - k
      BY <3>1, WayBack
    <3> QED
      BY <1>8, <3>1, <3>2
  <2>6. Whole(logger_offset(start + Header + e.len), d + Header + e.len)'
    <3>1. (buffer \in [Offsets -> Byte])'
      BY TypeCopy DEF TypeInv, TypeOK
    <3>2. \A i \in 0 .. (Header + e.len - 1) :
            buffer'[logger_offset(start + i)]
              = [id |-> writes, pos |-> i, len |-> e.len]
      <4>1. Header + e.len - 1 = L - 1
        BY <1>3, <1>6
      <4> QED
        BY <1>9, <4>1
    <3> QED
      BY <1>3, <2>1, <2>5, <3>1, <3>2, RunGrows
  <2>7. start + Header + e.len = start + L
    BY <1>3, <1>6 DEF Offsets
  <2> QED
    BY <1>7, <2>1, <2>2, <2>4, <2>6, <2>7
<1>11. RunsOK'
  <2> SUFFICES ASSUME NEW off \in Starts
               PROVE  Whole(fin, logger_offset(fin - off))'
    BY <1>3, <1>7 DEF RunsOK
  <2> QED
    BY <1>10
<1>12. NumbersOK'
  BY <1>3, <1>5, CopyNumbers DEF LogInv, NumbersOK
<1>13. ForwardOK'
  <2> SUFFICES ASSUME NEW r \in Open
               PROVE  buffer'[r_off[r]].id > last[r]
    BY <1>3 DEF ForwardOK
  <2>1. r_off[r] \in Starts /\ r \in Readers
    BY DEF Starts, Open
  <2>2. PICK d \in 0 .. (Size - 1) :
          /\ r_off[r] = logger_offset(start - d)
          /\ \A k \in 1 .. d : buffer'[logger_offset(start - k)]
                                = buffer[logger_offset(start - k)]
    BY <1>10, <2>1
  <2>3. CASE d = 0
    <3>1. r_off[r] = start
      BY <2>2, <2>3, WayBack
    <3>2. 0 \in 0 .. (L - 1) /\ start + 0 = start /\ 0 \in 0 .. (Size - 1)
          /\ start - 0 = start
      BY <1>3, <1>6 DEF Offsets
    <3>3. logger_offset(start + 0) = start
      BY <2>2, <2>3, <3>1, <3>2
    <3>4. buffer'[start] = [id |-> writes, pos |-> 0, len |-> e.len]
      BY <1>9, <3>2, <3>3
    <3>5. buffer'[start].id = writes
      BY <3>4
    <3>6. last[r] < writes
      BY <1>3, <2>1 DEF LogInv, NumbersOK
    <3> QED
      BY <3>1, <3>5, <3>6
  <2>4. CASE d > 0
    <3>1. d \in 1 .. d /\ r_off[r] # start
      BY <2>2, <2>4, WayBack
    <3>2. buffer'[r_off[r]] = buffer[r_off[r]]
      BY <2>2, <3>1
    <3> QED
      BY <1>2, <3>1, <3>2 DEF LogInv, ForwardOK
  <2> QED
    BY <2>3, <2>4
<1>14. WakeOK'
  BY <1>5 DEF WakeOK
<1>15. NewestKept'
  <2>1. head \in Starts /\ \A r \in Open : r_off[r] \in Starts
    BY DEF Starts
  <2>2. head # fin /\ \A r \in Open : r_off[r] # fin
    BY <1>10, <2>1
  <2> QED
    BY <1>3, <1>7, <2>2 DEF NewestKept
<1>16. RoomOK' /\ CopyOK'
  BY <1>5 DEF RoomOK, CopyOK
<1> QED
  BY <1>11, <1>12, <1>13, <1>14, <1>15, <1>16 DEF LogInv

-----------------------------------------------------------------------------
(* The start of a write.                                                   *)

\* clock_interval is right: a write of len bytes comes to the offsets that are
\* less than len bytes from having been lapped.
LEMMA ClockIs ==
  ASSUME NEW a \in Offsets, NEW c \in Offsets, NEW len \in 1 .. (Size - 1)
  PROVE  clock_interval(a, logger_offset(a + len), c)
           <=> logger_offset(a - c) >= Size - len
<1>1. Size \in Nat /\ a \in 0 .. (Size - 1) /\ c \in 0 .. (Size - 1) /\ len \in Int
  BY SizeFact DEF Offsets
<1>2. PICK b \in Offsets : b = logger_offset(a + len)
  BY <1>1, OffsetNear
<1>3. b \in 0 .. (Size - 1) /\ b = IF a + len < Size THEN a + len ELSE a + len - Size
  BY <1>1, <1>2, OffsetIs DEF Offsets
<1>4. logger_offset(a - c) = IF a - c < 0 THEN a - c + Size ELSE a - c
  BY <1>1, OffsetIs
<1>5. clock_interval(a, b, c) <=> (IF a - c < 0 THEN a - c + Size ELSE a - c) >= Size - len
  BY <1>1, <1>3 DEF clock_interval
<1> QED
  BY <1>2, <1>4, <1>5

\* Where fix_up_readers puts an offset whose run it may be about to overwrite:
\* further on in the same run, with room for the write.
LEMMA PulledOK ==
  ASSUME buffer \in [Offsets -> Byte], w_off \in Offsets,
         NEW d \in 0 .. (Size - 1), Whole(w_off, d),
         NEW len \in 1 .. (Size - 1), 2 * len <= Size
  PROVE  \E k \in 0 .. d :
           /\ Pulled(logger_offset(w_off - d), len) = logger_offset(w_off - k)
           /\ k + len < Size /\ Whole(w_off, k)
           /\ k > 0 => Behind(w_off, k).id >= Behind(w_off, d).id
<1> DEFINE off == logger_offset(w_off - d)
<1>1. off \in Offsets /\ logger_offset(w_off - off) = d /\ Size \in Nat
  BY WayBack, SizeFact
<1>2. clock_interval(w_off, logger_offset(w_off + len), off) <=> d >= Size - len
  BY <1>1, ClockIs
<1>3. d \in 0 .. Size /\ Behind(w_off, d).id \in Nat
  BY <1>1, BehindType
<1> HIDE DEF off
<1>4. CASE d >= Size - len
  <2>1. Pulled(off, len) = get_next_entry(off, len)
    BY <1>2, <1>4 DEF Pulled
  <2>2. PICK S \in SUBSET (0 .. d) : d \in S /\ Boundaries(S, w_off)
    BY DEF Whole
  <2>3. len \in 1 .. d
    BY <1>1, <1>4
  <2>4. PICK k \in S :
          /\ k <= d - len
          /\ get_next_entry(off, len) = logger_offset(w_off - k)
          /\ k > 0 => Behind(w_off, k).id > Behind(w_off, d).id
    BY <2>2, <2>3, WalkInRun DEF off
  <2>5. Whole(w_off, k)
    BY <2>2, Suffix
  <2>6. k \in 0 .. d /\ k \in 0 .. Size /\ k + len < Size
    BY <1>1, <2>4
  <2>7. Behind(w_off, k).id \in Nat
    BY <2>6, BehindType
  <2>8. k > 0 => Behind(w_off, k).id >= Behind(w_off, d).id
    BY <1>3, <2>4, <2>7
  <2> QED
    BY <2>1, <2>4, <2>5, <2>6, <2>8 DEF off
<1>5. CASE ~(d >= Size - len)
  <2>1. Pulled(off, len) = off
    BY <1>2, <1>5 DEF Pulled
  <2>2. d \in 0 .. d /\ d + len < Size /\ Behind(w_off, d).id >= Behind(w_off, d).id
    BY <1>1, <1>3, <1>5
  <2> QED
    BY <2>1, <2>2 DEF off
<1> QED
  BY <1>4, <1>5

LEMMA InvBegin ==
  ASSUME TypeInv, LogInv, NEW w \in Writers, NEW orig \in Offsets,
         NEW len \in Payloads, write[w].pc \in {"idle", "mutex_lock"},
         Begin(w, orig, len)
  PROVE  LogInv'
<1>1. /\ TypeOK /\ TypeInv' /\ buffer \in [Offsets -> Byte]
      /\ write \in [Writers -> WriteType] /\ Nobody \notin Writers
      /\ \A o \in Offsets : buffer[o].id \in Nat
      /\ writes \in Nat
  BY TypeBegin, TypeFacts DEF TypeInv, TypeOK
<1>2. PICK e : e = [pc |-> "copy", orig |-> orig, len |-> len, ret |-> 0,
                    id |-> writes + 1]
  OBVIOUS
<1>3. /\ mutex = Nobody /\ mutex' = w /\ mutex' # Nobody /\ writes' = writes + 1
      /\ write' = [write EXCEPT ![w] = e] /\ buffer' = Put(e, 0, Header)
      /\ fix_up_readers(Header + len)
      /\ w_off' = logger_offset(w_off + Header)
      /\ UNCHANGED <<wq, at, last, flushed>>
  BY <1>1, <1>2 DEF Begin, readerVars
<1>4. /\ write'[w] = e /\ e.ret = 0 /\ e.len = len /\ e.id = writes + 1
      /\ \A v \in Writers : write[v].pc = "wake_up" => write'[v].pc = "wake_up"
  BY <1>1, <1>2, <1>3
<1>5. PICK start \in Offsets : start = w_off /\ start = End
  BY <1>1, <1>3, TypeFacts DEF End
<1>6. /\ Header \in Nat /\ Header >= 2 /\ len \in Nat /\ len > 0 /\ Size \in Nat
      /\ 2 * (Header + len) <= Size
  BY SizeFact
<1>7. PICK L \in 1 .. (Size - 1) : L = Header + len /\ 2 * L <= Size /\ Header < L
  BY <1>6
<1>8. End' = start
  <2>1. Header \in 0 .. Size
    BY <1>6
  <2>2. w_off' \in Offsets /\ logger_offset(w_off' - Header) = start
    BY <1>3, <1>5, <2>1, WayOn
  <2>3. w_off' - Header - 0 = w_off' - Header
    BY <1>6, <2>2 DEF Offsets
  <2> QED
    BY <1>3, <1>4, <2>2, <2>3 DEF End
<1>9. Written(start, 0, Header, e)
  <2>1. 0 + Header <= Size /\ start + 0 = start /\ start \in 0 .. (Size - 1)
    BY <1>6 DEF Offsets
  <2>2. w_off = logger_offset(start + 0)
    BY <1>5, <1>6, <2>1, OffsetIs
  <2> QED
    BY <1>3, <1>6, <2>1, <2>2, PutWrites
\* Where each offset is pulled to.
<1>10. ASSUME NEW off \in Starts
       PROVE  \E k \in 0 .. (Size - 1) :
                /\ Pulled(off, Header + len) = logger_offset(start - k)
                /\ logger_offset(start - Pulled(off, Header + len)) = k
                /\ k + Header + len < Size
                /\ Whole(start, k)'
                /\ Pulled(off, Header + len) # start =>
                     /\ off # start
                     /\ buffer'[Pulled(off, Header + len)].id >= buffer[off].id
  <2>1. PICK d \in 0 .. (Size - 1) :
          /\ off = logger_offset(start - d) /\ off \in Offsets /\ Whole(start, d)
    BY <1>5, StartIs
  <2>2. PICK k \in 0 .. d :
          /\ Pulled(off, L) = logger_offset(start - k)
          /\ k + L < Size /\ Whole(start, k)
          /\ k > 0 => Behind(start, k).id >= Behind(start, d).id
    BY <1>1, <1>5, <1>7, <2>1, PulledOK
  <2>3. k \in 0 .. (Size - 1) /\ k + Header + len < Size /\ k + 0 + Header < Size
        /\ 0 \in Nat
    BY <1>6, <1>7, <2>2
  <2>4. /\ Whole(start, k)'
        /\ \A j \in 1 .. k : buffer'[logger_offset(start - j)]
                              = buffer[logger_offset(start - j)]
    BY <1>1, <1>6, <1>9, <2>2, <2>3, WriteKeepsRun
  <2>5. logger_offset(start - Pulled(off, L)) = k
    BY <2>2, <2>3, WayBack
  <2>6. ASSUME Pulled(off, L) # start
        PROVE  off # start /\ buffer'[Pulled(off, L)].id >= buffer[off].id
    <3>1. k > 0
      BY <2>2, <2>3, <2>6, WayBack
    <3>2. d > 0 /\ k \in 1 .. k
      BY <3>1
    <3>3. off # start
      BY <2>1, <3>2, WayBack
    <3>4. buffer'[Pulled(off, L)] = Behind(start, k) /\ buffer[off] = Behind(start, d)
      BY <2>1, <2>2, <2>4, <3>2 DEF Behind
    <3> QED
      BY <2>2, <3>1, <3>3, <3>4
  <2> QED
    BY <1>7, <2>2, <2>3, <2>4, <2>5, <2>6
<1>11. /\ Open' = Open
       /\ \A r \in Open : r \in Readers /\ r_off'[r] = Pulled(r_off[r], Header + len)
       /\ \A r \in Open : r_off[r] \in Starts
       /\ \A new \in Starts' : \E off \in Starts : new = Pulled(off, Header + len)
  <2>1. Header + len \in Nat
    BY <1>6
  <2>2. Open' = Open
    BY <1>1, <1>3, <2>1, PulledReaders
  <2>3. \A r \in Open : r \in Readers /\ r_off'[r] = Pulled(r_off[r], Header + len)
    BY <1>3 DEF fix_up_readers, Open
  <2> QED
    BY <1>3, <2>2, <2>3 DEF fix_up_readers, Starts
<1>12. RunsOK'
  <2> SUFFICES ASSUME NEW new \in Starts'
               PROVE  Whole(start, logger_offset(start - new))'
    BY <1>8 DEF RunsOK
  <2>1. PICK off \in Starts : new = Pulled(off, Header + len)
    BY <1>11
  <2>2. PICK k \in 0 .. (Size - 1) : logger_offset(start - new) = k /\ Whole(start, k)'
    BY <1>10, <2>1
  <2> QED
    BY <2>2
<1>13. RoomOK'
  <2> SUFFICES ASSUME NEW new \in Starts'
               PROVE  logger_offset(start - new) + Header + len < Size
    BY <1>3, <1>4, <1>8 DEF RoomOK
  <2>1. PICK off \in Starts : new = Pulled(off, Header + len)
    BY <1>11
  <2> QED
    BY <1>10, <2>1
<1>14. ASSUME NEW o \in Offsets
       PROVE  LET place == logger_offset(o - start)
              IN  IF place < Header
                  THEN buffer'[o] = [id |-> e.id, pos |-> place, len |-> e.len]
                  ELSE buffer'[o].id < writes + 1
  <2>1. PICK place \in 0 .. (Size - 1) : place = logger_offset(o - start)
    <3>1. start \in Int
      BY <1>6 DEF Offsets
    <3> QED
      BY <3>1, OffsetNear DEF Offsets
  <2>2. buffer'[o] = IF 0 <= place /\ place < 0 + Header
                     THEN [id |-> e.id, pos |-> place, len |-> e.len]
                     ELSE buffer[o]
    BY <1>9, <2>1 DEF Written
  <2>3. 0 <= place /\ 0 + Header = Header
    BY <1>6
  <2>4. buffer[o].id < writes + 1
    <3>1. buffer[o].id <= writes
      BY DEF LogInv, NumbersOK
    <3> QED
      BY <1>1, <3>1
  <2> QED
    BY <2>1, <2>2, <2>3, <2>4
<1>15. CopyOK'
  <2> SUFFICES ASSUME NEW o \in Offsets
               PROVE  LET place == logger_offset(o - start)
                      IN  IF place < Header + 0
                          THEN buffer'[o] = [id |-> e.id, pos |-> place, len |-> e.len]
                          ELSE buffer'[o].id < writes + 1
    BY <1>3, <1>4, <1>8 DEF CopyOK
  <2>1. Header + 0 = Header
    BY <1>6
  <2> QED
    BY <1>14, <2>1
<1>16. NumbersOK'
  <2>1. ASSUME NEW o \in Offsets PROVE buffer'[o].id <= writes + 1
    <3>1. buffer'[o].id \in Nat
      <4>1. buffer' \in [Offsets -> Byte] /\ MaxWrites \in Nat
        BY <1>1, LoggerAssumption DEF TypeInv, TypeOK
      <4> QED
        BY <4>1 DEF Byte
    <3> DEFINE place == logger_offset(o - start)
    <3>2. IF place < Header
          THEN buffer'[o] = [id |-> e.id, pos |-> place, len |-> e.len]
          ELSE buffer'[o].id < writes + 1
      BY <1>14
    <3> HIDE DEF place
    <3>3. buffer'[o] = [id |-> e.id, pos |-> place, len |-> e.len]
            => buffer'[o].id = writes + 1
      BY <1>4
    <3> QED
      BY <1>1, <3>1, <3>2, <3>3
  <2>2. ASSUME NEW r \in Readers PROVE last[r] < writes + 1 /\ last[r] <= writes + 1
    <3>1. last[r] \in Nat /\ last[r] <= writes
      BY <1>1, LoggerAssumption DEF TypeOK, LogInv, NumbersOK
    <3> QED
      BY <1>1, <3>1
  <2> QED
    BY <1>3, <2>1, <2>2 DEF NumbersOK
<1>17. ForwardOK'
  <2> SUFFICES ASSUME NEW r \in Open, r_off'[r] # start
               PROVE  buffer'[r_off'[r]].id > last[r]
    BY <1>3, <1>8, <1>11 DEF ForwardOK
  <2>1. r_off[r] # start /\ buffer'[r_off'[r]].id >= buffer[r_off[r]].id
    BY <1>10, <1>11
  <2>2. buffer[r_off[r]].id > last[r]
    BY <1>5, <2>1 DEF LogInv, ForwardOK
  <2>3. /\ last[r] \in Nat /\ buffer[r_off[r]].id \in Nat
        /\ buffer'[r_off'[r]].id \in Nat
    <3>1. r_off[r] \in Offsets /\ r_off'[r] \in Offsets /\ r \in Readers
      <4>1. Header + len \in Nat
        BY <1>6
      <4>2. r_off[r] \in Offsets /\ r \in Readers
        BY <1>1, TypeFacts DEF Open
      <4> QED
        BY <1>1, <1>11, <4>1, <4>2, PulledType
    <3>2. buffer' \in [Offsets -> Byte] /\ MaxWrites \in Nat
      BY <1>1, LoggerAssumption DEF TypeInv, TypeOK
    <3>3. buffer'[r_off'[r]].id \in Nat
      BY <3>1, <3>2 DEF Byte
    <3> QED
      BY <1>1, <3>1, <3>2, <3>3 DEF TypeOK
  <2> QED
    BY <2>1, <2>2, <2>3
<1>18. WakeOK'
  <2> SUFFICES ASSUME NEW r \in Open, at[r] = "schedule", r \in wq, r_off'[r] # start
               PROVE  \E v \in Writers : write'[v].pc = "wake_up"
    BY <1>3, <1>8, <1>11 DEF WakeOK
  <2>1. r_off[r] # start
    BY <1>10, <1>11
  <2>2. \E v \in Writers : write[v].pc = "wake_up"
    BY <1>5, <2>1 DEF LogInv, WakeOK
  <2> QED
    BY <1>4, <2>2
<1>19. NewestKept'
  BY <1>3 DEF NewestKept
<1> QED
  BY <1>12, <1>13, <1>15, <1>16, <1>17, <1>18, <1>19 DEF LogInv

-----------------------------------------------------------------------------
(* Steps that leave the ring alone.                                        *)

LEMMA RingSame ==
  ASSUME TypeInv, LogInv, UNCHANGED <<buffer, w_off, mutex, writes>>,
         mutex # Nobody => write'[mutex] = write[mutex],
         \A off \in Starts' :
           \/ off \in Starts
           \/ /\ mutex = Nobody /\ off \in Offsets
              /\ Whole(End, logger_offset(End - off))
  PROVE  End' = End /\ RunsOK' /\ RoomOK' /\ CopyOK'
<1>1. End' = End
  BY DEF End
<1>2. PICK start \in Offsets : start = End
  BY EndIs
<1>3. RunsOK'
  <2> SUFFICES ASSUME NEW off \in Starts'
               PROVE  Whole(start, logger_offset(start - off))'
    BY <1>1, <1>2 DEF RunsOK
  <2>1. off \in Offsets
    BY StartIs
  <2>2. PICK d \in 0 .. (Size - 1) : d = logger_offset(start - off)
    BY <1>2, <2>1, WayIs
  <2>3. Whole(start, d)
    BY <1>2, <2>2 DEF LogInv, RunsOK
  <2>4. Whole(start, d)'
    <3>1. buffer \in [Offsets -> Byte]
      BY DEF TypeInv, TypeOK
    <3> QED
      BY <2>3, <3>1, RunKept
  <2> QED
    BY <2>2, <2>4
<1>4. RoomOK'
  BY <1>1 DEF LogInv, RoomOK
<1>5. CopyOK'
  BY <1>1 DEF LogInv, CopyOK
<1> QED
  BY <1>1, <1>3, <1>4, <1>5

\* A writer waits for the mutex, or is done and wakes the readers.
LEMMA InvAround ==
  ASSUME TypeInv, LogInv, NEW w \in Writers,
         \/ \E len \in Payloads : logger_aio_write(w, len) /\ mutex # Nobody
         \/ wake_up_interruptible(w)
  PROVE  LogInv'
<1>1. /\ TypeOK /\ write \in [Writers -> WriteType]
      /\ mutex \in Writers \cup {Nobody}
  BY TypeFacts DEF TypeInv, TypeOK
<1>2. /\ UNCHANGED <<buffer, w_off, head, r_off, mutex, writes, at, last, flushed>>
      /\ write[w].pc \in {"idle", "wake_up"}
      /\ \A v \in Writers : v # w => write'[v] = write[v]
      /\ wq' = {} \/ (wq' = wq /\ write[w].pc = "idle")
  <2>1. ASSUME NEW len \in Payloads, logger_aio_write(w, len), mutex # Nobody
        PROVE  /\ write[w].pc = "idle" /\ \A v \in Writers : v # w => write'[v] = write[v]
               /\ UNCHANGED <<buffer, w_off, head, r_off, mutex, writes, readerVars>>
    BY <1>1, <2>1 DEF logger_aio_write, Begin
  <2>2. CASE wake_up_interruptible(w)
    BY <1>1, <2>2 DEF wake_up_interruptible
  <2> QED
    BY <2>1, <2>2 DEF readerVars
<1>3. mutex # Nobody => write'[mutex] = write[mutex]
  BY <1>1, <1>2 DEF TypeOK
<1>4. Open' = Open /\ Starts' = Starts
  BY <1>2 DEF Open, Starts
<1>5. End' = End /\ RunsOK' /\ RoomOK' /\ CopyOK'
  <2>1. UNCHANGED <<buffer, w_off, mutex, writes>>
    BY <1>2
  <2>2. \A off \in Starts' : off \in Starts
    BY <1>4
  <2> QED
    BY <1>3, <2>1, <2>2, RingSame
<1>6. NumbersOK'
  BY <1>2 DEF LogInv, NumbersOK
<1>7. ForwardOK'
  BY <1>2, <1>4, <1>5 DEF LogInv, ForwardOK
<1>8. WakeOK'
  <2>1. \A v \in Writers : write[v].pc = "wake_up" /\ write[w].pc = "idle"
                             => write'[v].pc = "wake_up"
    BY <1>2
  <2> QED
    BY <1>2, <1>4, <1>5, <2>1 DEF LogInv, WakeOK
<1>9. NewestKept'
  BY <1>2, <1>4 DEF LogInv, NewestKept, Newest
<1> QED
  BY <1>5, <1>6, <1>7, <1>8, <1>9 DEF LogInv

\* A flush: everybody is at the end.
LEMMA InvFlush ==
  ASSUME TypeInv, LogInv, flush_log
  PROVE  LogInv'
<1>1. /\ TypeOK /\ w_off \in Offsets /\ mutex = Nobody /\ mutex' = Nobody
      /\ UNCHANGED <<buffer, w_off, mutex, write, writes, wq, at, last>>
      /\ flushed' = writes
  BY TypeFacts DEF TypeInv, flush_log
<1>2. Open' = Open
  BY <1>1, SizeFact DEF flush_log, Open, Closed, Offsets
<1>3. head' = w_off /\ \A r \in Open : r_off'[r] = w_off
  BY DEF flush_log, Open
<1>4. \A off \in Starts' : off = w_off
  BY <1>2, <1>3 DEF Starts
<1>5. End = w_off /\ Whole(End, logger_offset(End - w_off))
  BY <1>1, EmptyRun DEF End
<1>6. End' = End /\ RunsOK' /\ RoomOK' /\ CopyOK'
  BY <1>1, <1>4, <1>5, RingSame
<1>7. NumbersOK'
  BY <1>1 DEF LogInv, NumbersOK
<1>8. ForwardOK' /\ WakeOK'
  BY <1>2, <1>3, <1>5, <1>6 DEF ForwardOK, WakeOK
<1>9. NewestKept'
  BY <1>1 DEF NewestKept
<1> QED
  BY <1>6, <1>7, <1>8, <1>9 DEF LogInv

-----------------------------------------------------------------------------
(* Readers.                                                                *)

\* A run that is not empty begins with a whole entry, after which the rest of
\* it is a run.
LEMMA RunStarts ==
  ASSUME TypeOK, NEW d \in 1 .. (Size - 1), Whole(w_off, d)
  PROVE  \E next \in 0 .. (d - 1) :
           /\ Whole(w_off, next)
           /\ LET off == logger_offset(w_off - d)
              IN  /\ buffer[off].id > 0
                  /\ logger_offset(off + get_entry_len(off))
                       = logger_offset(w_off - next)
                  /\ next > 0 =>
                       buffer[logger_offset(w_off - next)].id > buffer[off].id
                  /\ next = 0 => Newest = buffer[off].id
<1>1. /\ buffer \in [Offsets -> Byte] /\ w_off \in Offsets /\ Size \in Nat
      /\ d \in 0 .. (Size - 1) /\ d \in 0 .. Size
  BY SizeFact DEF TypeOK
<1>2. PICK S \in SUBSET (0 .. d) : d \in S /\ Boundaries(S, w_off)
  BY DEF Whole
<1>3. PICK n \in Nat : n = EntryLen(w_off, d) /\ n >= 2
  BY <1>1, BehindType
<1>4. /\ EntryAt(w_off, d)
      /\ d - n \in S
      /\ d - n > 0 => Behind(w_off, d - n).id > Behind(w_off, d).id
  BY <1>2, <1>3 DEF Boundaries
<1>5. PICK next \in S : next = d - n
  BY <1>4
<1>6. next \in 0 .. (d - 1) /\ Whole(w_off, next)
  <2>1. next \in 0 .. d
    BY <1>2
  <2>2. Whole(w_off, next)
    BY <1>1, <1>2, Suffix
  <2> QED
    BY <1>3, <1>5, <2>1, <2>2
<1> DEFINE off == logger_offset(w_off - d)
<1>7. buffer[off].id > 0
  BY <1>4 DEF EntryAt, Behind
<1>8. get_entry_len(off) = n
  BY <1>1, <1>3, <1>4, EntryLength
<1>9. logger_offset(off + n) = logger_offset(w_off - next)
  <2>1. /\ -d \in Int /\ n \in Int /\ -Size <= -d /\ -d <= Size /\ -Size <= n
        /\ n <= Size /\ -Size <= (-d) + n /\ (-d) + n <= Size
    BY <1>1, <1>3, <1>5, <1>6
  <2>2. logger_offset(logger_offset(w_off + (-d)) + n) = logger_offset(w_off + ((-d) + n))
    BY <1>1, <2>1, OffsetTwice
  <2>3. w_off + (-d) = w_off - d /\ w_off + ((-d) + n) = w_off - next
    <3>1. w_off \in Int
      BY <1>1 DEF Offsets
    <3> QED
      BY <1>1, <1>5, <3>1
  <2> QED
    BY <2>2, <2>3
<1>10. next > 0 => buffer[logger_offset(w_off - next)].id > buffer[off].id
  BY <1>4, <1>5 DEF Behind
<1>11. ASSUME next = 0 PROVE Newest = buffer[off].id
  <2>1. n - 1 \in 0 .. (n - 1) /\ d - (n - 1) = 1
    BY <1>3, <1>5, <1>11
  <2>2. Behind(w_off, d - (n - 1))
          = [id |-> Behind(w_off, d).id, pos |-> n - 1, len |-> Behind(w_off, d).len]
    BY <1>3, <1>4, <2>1 DEF EntryAt
  <2>3. Behind(w_off, 1).id = Behind(w_off, d).id
    BY <2>1, <2>2
  <2> QED
    BY <2>3 DEF Newest, Behind
<1> QED
  BY <1>6, <1>7, <1>8, <1>9, <1>10, <1>11

LEMMA InvReader ==
  ASSUME TypeInv, LogInv, NEW r \in Readers, ReaderStep(r)
  PROVE  LogInv'
<1>1. /\ TypeOK /\ ReadersOK /\ w_off \in Offsets /\ head \in Offsets
      /\ \A x \in Open : r_off[x] \in Offsets
      /\ writes \in Nat /\ Closed \notin Offsets
      /\ RunsOK /\ RoomOK /\ CopyOK /\ NumbersOK /\ ForwardOK /\ WakeOK /\ NewestKept
      /\ r_off \in [Readers -> Offsets \cup {Closed}]
      /\ wq \subseteq Open
      /\ at \in [Readers -> {"idle", "test", "schedule", "read"}]
      /\ last \in [Readers -> 0 .. MaxWrites]
  BY TypeFacts, SizeFact DEF TypeInv, LogInv, Closed, Offsets, TypeOK
<1>2. UNCHANGED logVars
  BY DEF ReaderStep, logger_open, logger_release, prepare_to_wait,
         logger_read_test, signal, do_read_log_to_user
<1>3. /\ End' = End
      /\ mutex = Nobody => End = w_off
  BY <1>2 DEF End, logVars
\* What is left to show of a step of a reader.
<1>4. ASSUME \A off \in Starts' :
               \/ off \in Starts
               \/ /\ mutex = Nobody /\ off \in Offsets
                  /\ Whole(End, logger_offset(End - off)),
             last'[r] <= writes, mutex # Nobody => last'[r] < writes,
             \A x \in Readers : x # r => last'[x] = last[x],
             ForwardOK', WakeOK', NewestKept'
      PROVE  LogInv'
  <2>1. UNCHANGED <<buffer, w_off, mutex, writes, write>>
    BY <1>2 DEF logVars
  <2>2. RunsOK' /\ RoomOK' /\ CopyOK'
    BY <1>4, <2>1, RingSame
  <2>3. NumbersOK'
    BY <1>1, <1>4, <2>1 DEF NumbersOK
  <2> QED
    BY <1>4, <2>2, <2>3 DEF LogInv
\* Steps that leave the offsets of the open files alone.
<1>5. ASSUME Open' \subseteq Open, \A x \in Open' : r_off'[x] = r_off[x],
             last' = last,
             \A x \in Open' : at'[x] = "schedule" /\ x \in wq' =>
               r_off[x] = End \/ (at[x] = "schedule" /\ x \in wq)
      PROVE  LogInv'
  <2>0. UNCHANGED <<buffer, w_off, head, mutex, writes, write, flushed>>
    BY <1>2 DEF logVars
  <2>1. \A off \in Starts' : off \in Starts
    BY <1>5, <2>0 DEF Starts
  <2>2. ForwardOK'
    BY <1>1, <1>3, <1>5, <2>0 DEF ForwardOK
  <2>3. WakeOK'
    BY <1>1, <1>3, <1>5, <2>0 DEF WakeOK
  <2>4. NewestKept'
    BY <1>1, <1>5, <2>0 DEF NewestKept, Newest
  <2>5. last'[r] <= writes /\ (mutex # Nobody => last'[r] < writes)
    BY <1>1, <1>5 DEF NumbersOK
  <2> QED
    BY <1>4, <1>5, <2>1, <2>2, <2>3, <2>4, <2>5
<1>6. CASE logger_open(r)
  <2>1. /\ r \notin Open /\ mutex = Nobody /\ last' = [last EXCEPT ![r] = 0]
        /\ r_off' = [r_off EXCEPT ![r] = head]
        /\ UNCHANGED <<buffer, w_off, head, mutex, write, writes, flushed, wq, at>>
    BY <1>6 DEF logger_open, logVars
  <2>2. /\ Open' = Open \cup {r} /\ r_off'[r] = head
        /\ \A x \in Open : x # r /\ x \in Readers /\ r_off'[x] = r_off[x]
                             /\ last'[x] = last[x]
        /\ last'[r] = 0
    BY <1>1, <2>1 DEF Open
  <2>3. \A off \in Starts' : off \in Starts
    BY <2>1, <2>2 DEF Starts
  <2>4. ForwardOK'
    <3>1. head # End => buffer[head].id > 0
      <4> SUFFICES ASSUME head # End PROVE buffer[head].id > 0
        OBVIOUS
      <4>1. head \in Starts /\ End = w_off
        BY <1>3, <2>1 DEF Starts
      <4>2. PICK d \in 0 .. (Size - 1) : head = logger_offset(w_off - d) /\ Whole(w_off, d)
        BY <4>1, StartIs
      <4>3. d \in 1 .. (Size - 1)
        BY <1>1, <4>1, <4>2, WayBack
      <4> QED
        BY <1>1, <4>2, <4>3, RunStarts
    <3> QED
      BY <1>1, <1>3, <2>1, <2>2, <3>1 DEF ForwardOK
  <2>5. WakeOK'
    BY <1>1, <1>3, <2>1, <2>2 DEF WakeOK
  <2>6. NewestKept'
    BY <1>1, <2>1, <2>2 DEF NewestKept, Newest
  <2>7. last'[r] <= writes /\ \A x \in Readers : x # r => last'[x] = last[x]
    BY <1>1, <2>1
  <2> QED
    BY <1>4, <2>1, <2>3, <2>4, <2>5, <2>6, <2>7
<1>7. CASE logger_release(r)
  <2>1. Open' \subseteq Open /\ \A x \in Open' : r_off'[x] = r_off[x]
    BY <1>1, <1>7 DEF logger_release, Open
  <2>2. UNCHANGED <<last, at, wq>>
    BY <1>7 DEF logger_release
  <2> QED
    BY <1>5, <2>1, <2>2
<1>8. CASE prepare_to_wait(r)
  <2>1. UNCHANGED <<last, r_off>> /\ Open' = Open
    BY <1>8 DEF prepare_to_wait, Open
  <2>2. \A x \in Readers : at'[x] = "schedule" /\ x \in wq' =>
                             at[x] = "schedule" /\ x \in wq
    BY <1>1, <1>8 DEF prepare_to_wait
  <2> QED
    BY <1>5, <2>1, <2>2 DEF Open
<1>9. CASE logger_read_test(r)
  <2>1. UNCHANGED <<last, r_off>> /\ Open' = Open /\ mutex = Nobody
    BY <1>9 DEF logger_read_test, Open
  <2>2. \A x \in Readers : at'[x] = "schedule" /\ x \in wq' =>
          r_off[x] = w_off \/ (at[x] = "schedule" /\ x \in wq)
    BY <1>1, <1>9 DEF logger_read_test
  <2> QED
    BY <1>3, <1>5, <2>1, <2>2 DEF Open
<1>10. CASE signal(r)
  <2>1. UNCHANGED <<last, r_off, at>> /\ Open' = Open /\ wq' \subseteq wq
    BY <1>10 DEF signal, Open
  <2> QED
    BY <1>5, <2>1
<1>11. CASE do_read_log_to_user(r)
  <2>1. CASE UNCHANGED <<r_off, last>>
    <3>1. \A x \in Readers : at'[x] = "schedule" /\ x \in wq' =>
                               at[x] = "schedule" /\ x \in wq
      BY <1>1, <1>11 DEF do_read_log_to_user
    <3>2. Open' = Open
      BY <2>1 DEF Open
    <3> QED
      BY <1>5, <2>1, <3>1, <3>2 DEF Open
  <2>2. CASE ~UNCHANGED <<r_off, last>>
    <3> DEFINE off == r_off[r]
    <3>1. /\ at[r] = "read" /\ mutex = Nobody /\ w_off # off
          /\ r_off' = [r_off EXCEPT ![r] = logger_offset(off + get_entry_len(off))]
          /\ last' = [last EXCEPT ![r] = buffer[off].id]
          /\ at' = [at EXCEPT ![r] = "idle"]
          /\ UNCHANGED <<wq, buffer, w_off, head, mutex, write, writes, flushed>>
      BY <1>1, <1>11, <2>2 DEF do_read_log_to_user, logVars
    <3>2. r \in Open /\ off \in Starts /\ End = w_off /\ off \in Offsets
      BY <1>1, <1>3, <3>1 DEF ReadersOK, Starts
    <3>3. PICK d \in 0 .. (Size - 1) : off = logger_offset(w_off - d) /\ Whole(w_off, d)
      BY <3>2, StartIs
    <3>4. d \in 1 .. (Size - 1)
      BY <1>1, <3>1, <3>3, WayBack
    <3>5. PICK next \in 0 .. (d - 1) :
            /\ Whole(w_off, next)
            /\ logger_offset(off + get_entry_len(off)) = logger_offset(w_off - next)
            /\ next > 0 => buffer[logger_offset(w_off - next)].id > buffer[off].id
            /\ next = 0 => Newest = buffer[off].id
      BY <1>1, <3>3, <3>4, RunStarts
    <3>6. PICK new \in Offsets :
            /\ new = logger_offset(w_off - next) /\ logger_offset(w_off - new) = next
            /\ new = w_off <=> next = 0
      <4>1. next \in 0 .. (Size - 1)
        BY <3>4, SizeFact
      <4> QED
        BY <1>1, <4>1, WayBack
    <3> HIDE DEF off
    <3>7. /\ r_off'[r] = new /\ last'[r] = buffer[off].id /\ at'[r] = "idle"
          /\ \A x \in Readers : x # r => /\ r_off'[x] = r_off[x] /\ last'[x] = last[x]
                                         /\ at'[x] = at[x]
      BY <1>1, <3>1, <3>5, <3>6
    <3>8. Open' = Open
      BY <1>1, <3>2, <3>6, <3>7 DEF Open
    <3>9. \A o \in Starts' :
            \/ o \in Starts
            \/ /\ mutex = Nobody /\ o \in Offsets
               /\ Whole(End, logger_offset(End - o))
      <4>1. mutex = Nobody /\ new \in Offsets /\ Whole(End, logger_offset(End - new))
        BY <3>1, <3>2, <3>5, <3>6
      <4>2. \A o \in Starts' : o \in Starts \/ o = new
        BY <3>1, <3>7, <3>8 DEF Starts, Open
      <4> QED
        BY <4>1, <4>2
    <3>10. last'[r] <= writes
      BY <1>1, <3>2, <3>7 DEF NumbersOK
    <3>11. ForwardOK'
      <4> SUFFICES ASSUME NEW x \in Open, r_off'[x] # w_off
                   PROVE  buffer[r_off'[x]].id > last'[x]
        BY <1>3, <3>1, <3>2, <3>8 DEF ForwardOK
      <4>1. CASE x = r
        BY <3>5, <3>6, <3>7, <4>1
      <4>2. CASE x # r
        BY <1>1, <3>2, <3>7, <4>2 DEF ForwardOK, Open
      <4> QED
        BY <4>1, <4>2
    <3>12. WakeOK'
      <4> SUFFICES ASSUME NEW x \in Open, at'[x] = "schedule", x \in wq,
                          r_off'[x] # w_off
                   PROVE  \E v \in Writers : write[v].pc = "wake_up"
        BY <1>3, <3>1, <3>2, <3>8 DEF WakeOK
      <4>1. x # r /\ x \in Readers
        BY <3>7 DEF Open
      <4> QED
        BY <1>1, <3>2, <3>7, <4>1 DEF WakeOK
    <3>13. NewestKept'
      <4> SUFFICES ASSUME Newest = writes
                   PROVE  /\ \A x \in Open : r_off'[x] = w_off =>
                                               writes \in {last'[x], flushed}
                          /\ head = w_off => writes = flushed
        BY <3>1, <3>8 DEF NewestKept, Newest
      <4>1. ASSUME NEW x \in Open, r_off'[x] = w_off
            PROVE  writes \in {last'[x], flushed}
        <5>1. CASE x = r
          BY <3>5, <3>6, <3>7, <4>1, <5>1
        <5>2. CASE x # r
          BY <1>1, <3>1, <3>7, <4>1, <5>2 DEF NewestKept, Open
        <5> QED
          BY <5>1, <5>2
      <4> QED
        BY <1>1, <3>1, <4>1 DEF NewestKept
    <3> QED
      BY <1>4, <3>1, <3>7, <3>9, <3>10, <3>11, <3>12, <3>13
  <2> QED
    BY <2>1, <2>2
<1> QED
  BY <1>6, <1>7, <1>8, <1>9, <1>10, <1>11 DEF ReaderStep

-----------------------------------------------------------------------------

LEMMA InvStep ==
  ASSUME ~StaleFaults, TypeInv, LogInv, [Next]_vars
  PROVE  LogInv'
<1>0. TypeOK /\ write \in [Writers -> WriteType] /\ w_off \in Offsets
  BY TypeFacts DEF TypeInv
<1>1. ASSUME NEW w \in Writers, WriterStep(w)
      PROVE  LogInv'
  <2>0. \A n \in 0 .. write[w].len : n \in Nat
    BY <1>0, SizeFact DEF WriteType
  <2>1. ASSUME NEW len \in Payloads, logger_aio_write(w, len)
        PROVE  LogInv'
    <3>1. CASE mutex # Nobody
      BY <2>1, <3>1, InvAround
    <3>2. CASE mutex = Nobody
      BY <1>0, <2>1, <3>2, InvBegin DEF logger_aio_write
    <3> QED
      BY <3>1, <3>2
  <2>2. ASSUME mutex_lock(w)
        PROVE  LogInv'
    <3>1. write[w].orig \in Offsets /\ write[w].len \in Payloads
      BY <1>0, <2>2 DEF mutex_lock, WriteType, TypeInv, WritersOK
    <3> QED
      BY <2>2, <3>1, InvBegin DEF mutex_lock
  <2>3. ASSUME NEW n \in 1 .. write[w].len, do_write_log_from_user(w, n)
        PROVE  LogInv'
    <3>1. n \in Nat
      BY <1>0, SizeFact DEF WriteType
    <3> QED
      BY <2>3, <3>1, InvCopyOn, InvCopyDone
  <2>4. ASSUME NEW n \in 0 .. write[w].len, copy_fault(w, n)
        PROVE  LogInv'
    BY <2>0, <2>4, InvFault
  <2> QED
    BY <1>1, <2>1, <2>2, <2>3, <2>4, InvAround DEF WriterStep
<1>2. CASE UNCHANGED vars
  <2>1. UNCHANGED <<buffer, w_off, head, r_off, mutex, wq, at, write, writes, last,
                    flushed, Open, Starts>>
    BY <1>2 DEF vars, Open, Starts
  <2>2. UNCHANGED <<buffer, w_off, mutex, writes>>
    BY <2>1
  <2>3. \A off \in Starts' : off \in Starts
    BY <2>1
  <2>4. mutex # Nobody => write'[mutex] = write[mutex]
    BY <2>1
  <2>5. End' = End /\ RunsOK' /\ RoomOK' /\ CopyOK'
    BY <2>2, <2>3, <2>4, RingSame
  <2> QED
    BY <2>1, <2>5 DEF LogInv, NumbersOK, ForwardOK, WakeOK, NewestKept, Newest
<1> QED
  BY <1>1, <1>2, InvReader, InvFlush DEF Next

LEMMA LogInvariant ==
  ASSUME ~StaleFaults
  PROVE  Spec => []LogInv
<1>1. TypeInv /\ LogInv /\ [Next]_vars => LogInv'
  BY InvStep
<1> QED
  BY <1>1, InvInit, TypeInvariant, PTL DEF Spec

\* Whatever a reader has before it, a new one too, is a sequence of whole
\* entries, oldest first, up to the write offset (logger.c:291-324, 414-420).
THEOREM Parses ==
  ASSUME ~StaleFaults
  PROVE  Spec => []LogParses
<1>1. LogInv => LogParses
  BY DEF LogInv, RunsOK, LogParses, Starts, End
<1> QED
  BY <1>1, LogInvariant, PTL

\* No reader reads an entry again or an older one, and none sleeps on an entry
\* without a writer about to wake it (logger.c:192, 218-238, 443-446).
THEOREM InOrder ==
  ASSUME ~StaleFaults
  PROVE  Spec => []ReadersInOrder
<1>1. TypeInv /\ LogInv => ReadersInOrder
  BY DEF TypeInv, LogInv, ForwardOK, WakeOK, ReadersInOrder, NoEntryTwice,
         NoLostWakeup, End
<1> QED
  BY <1>1, LogInvariant, TypeInvariant, PTL

\* The newest entry stays readable for whoever has not read it, unless it was
\* flushed: a full ring is never taken for an empty one (logger.c:294-297).
THEOREM Kept ==
  ASSUME ~StaleFaults
  PROVE  Spec => []NewestKept
<1>1. LogInv => NewestKept
  BY DEF LogInv
<1> QED
  BY <1>1, LogInvariant, PTL

=============================================================================
