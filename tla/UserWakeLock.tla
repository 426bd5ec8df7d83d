---------------------------- MODULE UserWakeLock ----------------------------
(***************************************************************************)
(* The wake locks of user space (kernel/power/userwakelock.c), on top of    *)
(* the core of module WakeLock: a write of "name" or "name nanoseconds" to  *)
(* /sys/power/wake_lock takes the lock of that name, which is created at    *)
(* the first write; a write to /sys/power/wake_unlock releases it.          *)
(*                                                                         *)
(* The Clients of the core are the names, as sequences of characters: the   *)
(* search compares a name that is not terminated with one that is.  A store *)
(* holds tree_lock; between its call of wake_lock_init and its call of      *)
(* wake_lock the timer, the worker and interrupts may run.                  *)
(***************************************************************************)
EXTENDS WakeLock, Sequences

CONSTANTS
  Nanoseconds,  \* the time-outs user space writes
  NsPerJiffy,   \* NSEC_PER_SEC / HZ
  U64,          \* the number of values of a u64
  Nobody        \* tree_lock is free

ASSUME NanosecondsAssumption ==
  /\ NsPerJiffy \in Nat \ {0}
  /\ U64 \in Nat
  /\ Nanoseconds \subseteq 0 .. (U64 - 1)

\* No character of a name is the terminating zero.
ASSUME NamesAssumption == Clients \subseteq Seq(Nat \ {0})

VARIABLES
  user_wake_locks,  \* the names in the red-black tree, from left to right
  writer,           \* the store that holds tree_lock, or Nobody
  asked             \* history: the jiffies each name was asked for, as of now

userVars == <<user_wake_locks, writer, asked>>

allVars == <<vars, userVars>>

Names == Clients

\* No time-out was written.
Forever == -1

-----------------------------------------------------------------------------
(* lookup_wake_lock_name.                                                  *)

\* Wrong: rounded down.
Jiffies_down(ns) ==
  LET j == ns \div NsPerJiffy IN IF j <= 0 THEN 1 ELSE j

\* The u64 arithmetic: the sum may wrap.
Jiffies(ns) ==
  LET j == ((ns + NsPerJiffy - 1) % U64) \div NsPerJiffy
  IN  IF j <= 0 THEN 1 ELSE j

\* *timeoutptr = timeout: a u64 becomes a long.
ToLong(j) == ((j + H) % (2 * H)) - H

\* A name is terminated by a zero.
At(name, i) == IF i <= Len(name) THEN name[i] ELSE 0

\* Wrong: a longer name that begins like buf is smaller.
Compare_longer(buf, name) ==
  LET differ == {i \in 1 .. Len(buf) : buf[i] # At(name, i)}
  IN  IF differ = {}
      THEN IF At(name, Len(buf) + 1) # 0 THEN 1 ELSE 0
      ELSE LET i == CHOOSE i \in differ : \A j \in differ : i <= j
           IN  buf[i] - At(name, i)

\* strncmp over the length of buf; a longer name is greater.
Compare(buf, name) ==
  LET differ == {i \in 1 .. Len(buf) : buf[i] # At(name, i)}
  IN  IF differ = {}
      THEN IF At(name, Len(buf) + 1) # 0 THEN -1 ELSE 0
      ELSE LET i == CHOOSE i \in differ : \A j \in differ : i <= j
           IN  buf[i] - At(name, i)

\* The locks the descent can end at: at most one if Compare orders the tree.
Found(buf) ==
  {n \in Names : /\ \E i \in 1 .. Len(user_wake_locks) : user_wake_locks[i] = n
                 /\ Compare(buf, n) = 0}

\* Where the descent for a name that is not in the tree ends: before the first
\* name that is greater.
Descent(buf) ==
  LET greater == {i \in 1 .. Len(user_wake_locks) :
                    Compare(buf, user_wake_locks[i]) < 0}
  IN  IF greater = {}
      THEN Len(user_wake_locks) + 1
      ELSE CHOOSE i \in greater : \A j \in greater : i <= j

\* rb_link_node; rotations keep the order.
rb_insert(buf) ==
  LET i == Descent(buf)
  IN  [j \in 1 .. (Len(user_wake_locks) + 1) |->
         IF j < i THEN user_wake_locks[j]
         ELSE IF j = i THEN buf ELSE user_wake_locks[j - 1]]

-----------------------------------------------------------------------------
(* The files.  A name that cannot be parsed, a lock that cannot be         *)
(* allocated and, for wake_unlock, a name that is not in the tree are      *)
(* errors that change nothing.                                             *)

\* The first half of wake_lock_store: look the name up, create its lock.
lookup_wake_lock_name(buf, t, jiffies) ==
  /\ writer = Nobody
  /\ IF Found(buf) = {}
     THEN /\ wake_lock_init(buf)
          /\ user_wake_locks' = rb_insert(buf)
          /\ writer' = [lock |-> buf, timeout |-> t, name |-> buf, jiffies |-> jiffies]
     ELSE /\ ~IrqsOff
          /\ \E n \in Found(buf) :
               writer' = [lock |-> n, timeout |-> t, name |-> buf, jiffies |-> jiffies]
          /\ UNCHANGED <<vars, user_wake_locks>>
  /\ UNCHANGED asked

\* What the writer asks for, in jiffies: at least one, rounded up.
AskedFor(ns) ==
  CHOOSE j \in 1 .. (U64 + 1) :
    /\ j * NsPerJiffy >= ns
    /\ \A k \in 1 .. (j - 1) : k * NsPerJiffy < ns

wake_lock_store(buf) ==
  \/ lookup_wake_lock_name(buf, 0, Forever)
  \/ \E ns \in Nanoseconds :
       lookup_wake_lock_name(buf, ToLong(Jiffies(ns)), AskedFor(ns))

\* Its second half.  A time-out of zero means none.
wake_lock_store_locks ==
  /\ writer # Nobody
  /\ IF writer.timeout # 0 THEN wake_lock_timeout(writer.lock, writer.timeout)
                           ELSE wake_lock(writer.lock)
  /\ asked' = [asked EXCEPT ![writer.name] = writer.jiffies]
  /\ writer' = Nobody
  /\ UNCHANGED user_wake_locks

wake_unlock_store(buf) ==
  /\ writer = Nobody
  /\ \E n \in Found(buf) : wake_unlock(n)
  /\ asked' = [asked EXCEPT ![buf] = 0]
  /\ UNCHANGED <<user_wake_locks, writer>>

-----------------------------------------------------------------------------

UserInit ==
  /\ Init
  /\ user_wake_locks = <<>>
  /\ writer = Nobody
  /\ asked = [n \in Names |-> 0]

\* jiffies advances: a jiffy of every request is over.
UserTick ==
  /\ Tick
  /\ asked' = [n \in Names |-> IF asked[n] > 0 THEN asked[n] - 1 ELSE asked[n]]
  /\ UNCHANGED <<user_wake_locks, writer>>

\* The steps of the core that no write takes.
CoreStep ==
  /\ \/ wake_lock(Main) \/ wake_unlock(Main)
     \/ run_timers \/ expire_wake_locks \/ Suspend
  /\ UNCHANGED userVars

UserNext ==
  \/ \E n \in Names : wake_lock_store(n) \/ wake_unlock_store(n)
  \/ wake_lock_store_locks
  \/ UserTick
  \/ CoreStep

UserSpec == UserInit /\ [][UserNext]_allVars

-----------------------------------------------------------------------------
(* Properties.                                                             *)

\* Every variable keeps its type; a long stays a long.
UserTypeOK ==
  /\ TypeOK
  /\ user_wake_locks \in Seq(Names)
  /\ writer # Nobody =>
       writer.lock \in Names /\ writer.timeout \in -H .. (H - 1)
  /\ asked \in [Names -> -1 .. U64]

\* The order of strings: a is a proper prefix of b, or smaller at the first
\* difference.
Smaller(a, b) ==
  \E i \in 1 .. Len(b) :
    /\ \A j \in 1 .. (i - 1) : j <= Len(a) /\ a[j] = b[j]
    /\ i = Len(a) + 1 \/ (i <= Len(a) /\ a[i] < b[i])

\* The tree is a search tree without duplicates for the order of strings,
\* although names may begin with one another, and it holds exactly the locks
\* that were initialised, which are never freed (userwakelock.c:80-94).
TreeOrdered ==
  /\ \A i, j \in 1 .. Len(user_wake_locks) :
       i < j => Smaller(user_wake_locks[i], user_wake_locks[j])
  /\ \A n \in Names :
       flags[n] # "uninit" <=>
         \E i \in 1 .. Len(user_wake_locks) : user_wake_locks[i] = n

\* A lock is live at least as long as its name was last asked for, in jiffies
\* rounded up, with scans, expiry and sleeps in between
\* (userwakelock.c:69-74, 165-168).  Not at most: a lock that nobody scans for
\* half the range of jiffies comes back to life.
HeldAsAsked == \A n \in Names : asked[n] # 0 => n \in Live

\* The system does not sleep while a request of user space lasts.
AwakeAsAsked == pc = "asleep" => \A n \in Names : asked[n] = 0

\* User space gets what it asked for: the lock, and a system that is awake.
ServedAsAsked == UserTypeOK /\ HeldAsAsked /\ AwakeAsAsked

\* "convert timeout from nanoseconds to jiffies > 0" (userwakelock.c:69).
JiffiesPositive ==
  writer # Nobody /\ writer.jiffies # Forever => writer.timeout > 0
=============================================================================
