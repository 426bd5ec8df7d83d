------------------------------- MODULE Logger -------------------------------
(***************************************************************************)
(* One log of drivers/staging/android/logger.c: a ring buffer of entries    *)
(* (a header, then a payload), a write offset, an offset for each open      *)
(* reader and `head', where new readers start.  A write pulls forward the   *)
(* readers it is about to overwrite, copies the header, then one segment    *)
(* after the other from user space; a copy may fault.                       *)
(*                                                                         *)
(* The kernel is not preemptible (CONFIG_PREEMPT is not set) and has one    *)
(* processor: a step ends where the code sleeps, which is at mutex_lock     *)
(* when the mutex is taken, at copy_from_user (with the mutex held) and at  *)
(* schedule().  A reader's copy_to_user may sleep too, but it changes       *)
(* nothing before the copy is over, and who could tell waits for the mutex  *)
(* it holds: it is one step.  Of the header only the two bytes of `len' at  *)
(* its front are kept, which may lie on both ends of the ring.              *)
(***************************************************************************)
EXTENDS Integers, FiniteSets

CONSTANTS
  Writers,    \* processes that write
  Readers,    \* files that may be open for reading
  Size,       \* log->size, a power of two
  Header,     \* sizeof(struct logger_entry), whose first two bytes are `len'
  Payloads,   \* the payload lengths of the writes
  StaleFaults,  \* whether a copy may fault also when `orig' is out of date
  MaxWrites,  \* bound: the number of writes that take the mutex
  Nobody      \* the owner of the free mutex

\* A write of at most half the ring: get_next_entry then stops before it has
\* gone around (the logs are 256K, LOGGER_ENTRY_MAX_LEN is 4K).
ASSUME LoggerAssumption ==
  /\ Size \in Nat \ {0} /\ StaleFaults \in BOOLEAN /\ MaxWrites \in Nat
  /\ Nobody \notin Writers
  /\ Header \in Nat /\ Header >= 2
  /\ \A n \in Payloads :
       n \in Nat \ {0} /\ n < 256 * 256 /\ 2 * (Header + n) <= Size

VARIABLES
  buffer,   \* per offset: whose byte it is
  w_off,
  head,
  r_off,    \* per reader: its offset, or Closed
  mutex,    \* its owner, or Nobody
  wq,       \* the readers on the wait queue, TASK_INTERRUPTIBLE
  at,       \* per reader: where it is in logger_read
  write,    \* per writer: where it is in logger_aio_write, and its variables
  writes,   \* history: the number of writes that took the mutex
  last,     \* history, per reader: the number of the last entry it read
  flushed   \* history: the number of writes at the last flush

vars == <<buffer, w_off, head, r_off, mutex, wq, at, write, writes,
          last, flushed>>

readerVars == <<wq, at, last, flushed>>

Offsets == 0 .. (Size - 1)

Closed == -1

\* Byte `pos' of entry `id', whose payload has `len' bytes.
Byte == [id : 0 .. MaxWrites, pos : 0 .. (Size - 1), len : {0} \cup Payloads]

WritePCs == {"idle", "mutex_lock", "copy", "wake_up"}

NoWrite == [pc |-> "idle", orig |-> 0, len |-> 0, ret |-> 0, id |-> 0]

Open == {r \in Readers : r_off[r] # Closed}

-----------------------------------------------------------------------------
(* Offsets.                                                                *)

logger_offset(n) == n % Size

\* The value of a byte: the header's first two are the length, low byte first;
\* any other byte may be anything and is 1 here.
Value(b) ==
  IF b.pos = 0 THEN b.len % 256 ELSE IF b.pos = 1 THEN b.len \div 256 ELSE 1

\* The length of the entry at off, whose two bytes may be on both ends.
get_entry_len(off) ==
  Header + Value(buffer[off])
    + 256 * Value(buffer[IF Size - off = 1 THEN 0 ELSE off + 1])

\* The first entry at least len bytes after off: one entry (do), then others
\* while it has not gone len bytes.
get_next_entry(off, len) ==
  LET Skip[count \in 0 .. len] ==
        LET nr == get_entry_len(logger_offset(off + count))
        IN  IF count + nr < len THEN Skip[count + nr] ELSE count + nr
  IN  logger_offset(off + Skip[0])

\* Wrong: the interval is open at b.
clock_interval_open(a, b, c) ==
  IF b < a THEN a < c \/ b > c ELSE a < c /\ b > c

\* Wrong: && for ||.
clock_interval_both(a, b, c) ==
  IF b < a THEN a < c /\ b >= c ELSE a < c /\ b >= c

\* The way from a to b comes to c.
clock_interval(a, b, c) ==
  IF b < a THEN a < c \/ b >= c ELSE a < c /\ b >= c

\* The offset after fix_up_readers for a write of len bytes.
Pulled(off, len) ==
  IF clock_interval(w_off, logger_offset(w_off + len), off)
  THEN get_next_entry(off, len)
  ELSE off

fix_up_readers(len) ==
  /\ head' = Pulled(head, len)
  /\ r_off' = [r \in Readers |->
                 IF r \in Open THEN Pulled(r_off[r], len) ELSE Closed]

\* Bytes from .. from + n - 1 of a write, put at w_off, in two parts if need be.
Put(entry, from, n) ==
  [o \in Offsets |->
     LET d == logger_offset(o - w_off)
     IN  IF d < n
         THEN [id |-> entry.id, pos |-> from + d, len |-> entry.len]
         ELSE buffer[o]]

-----------------------------------------------------------------------------
(* Writers.                                                                *)

\* The section after mutex_lock, up to the first copy from user space.
Begin(w, orig, len) ==
  /\ mutex = Nobody
  /\ writes < MaxWrites
  /\ mutex' = w
  /\ writes' = writes + 1
  /\ LET entry == [pc |-> "copy", orig |-> orig, len |-> len, ret |-> 0,
                   id |-> writes + 1]
     IN  /\ write' = [write EXCEPT ![w] = entry]
         /\ fix_up_readers(Header + len)
         /\ buffer' = Put(entry, 0, Header)
  /\ w_off' = logger_offset(w_off + Header)
  /\ UNCHANGED readerVars

\* A write begins: `orig' is read before the mutex is asked for.
logger_aio_write(w, len) ==
  /\ write[w].pc = "idle"
  /\ \/ Begin(w, w_off, len)
     \/ /\ mutex # Nobody
        /\ write' = [write EXCEPT ![w].pc = "mutex_lock", ![w].orig = w_off,
                                  ![w].len = len]
        /\ UNCHANGED <<buffer, w_off, head, r_off, mutex, writes, readerVars>>

\* A writer that had to wait gets the mutex.
mutex_lock(w) ==
  /\ write[w].pc = "mutex_lock"
  /\ Begin(w, write[w].orig, write[w].len)

\* A segment of n bytes is copied; after the last one the mutex is released.
do_write_log_from_user(w, n) ==
  /\ write[w].pc = "copy"
  /\ n \in 1 .. (write[w].len - write[w].ret)
  /\ buffer' = Put(write[w], Header + write[w].ret, n)
  /\ w_off' = logger_offset(w_off + n)
  /\ LET ret == write[w].ret + n
         done == ret = write[w].len
     IN  /\ write' = [write EXCEPT ![w].ret = ret,
                                   ![w].pc = IF done THEN "wake_up" ELSE @]
         /\ mutex' = IF done THEN Nobody ELSE mutex
  /\ UNCHANGED <<head, r_off, writes, readerVars>>

\* `orig' is still where the write began.
OrigCurrent(w) ==
  write[w].orig = logger_offset(w_off - Header - write[w].ret)

\* A copy faults after n bytes: the write offset goes back to `orig'.
copy_fault(w, n) ==
  /\ write[w].pc = "copy"
  /\ StaleFaults \/ OrigCurrent(w)
  /\ n \in 0 .. (write[w].len - write[w].ret)
  /\ buffer' = Put(write[w], Header + write[w].ret, n)
  /\ w_off' = write[w].orig
  /\ write' = [write EXCEPT ![w] = NoWrite]
  /\ mutex' = Nobody
  /\ UNCHANGED <<head, r_off, writes, readerVars>>

\* Every reader on the queue is woken (no waiter is exclusive).
wake_up_interruptible(w) ==
  /\ write[w].pc = "wake_up"
  /\ write' = [write EXCEPT ![w] = NoWrite]
  /\ wq' = {}
  /\ UNCHANGED <<buffer, w_off, head, r_off, mutex, writes, at, last, flushed>>

-----------------------------------------------------------------------------
(* Readers.                                                                *)

logVars == <<buffer, w_off, head, mutex, write, writes, flushed>>

logger_open(r) ==
  /\ r \notin Open
  /\ mutex = Nobody
  /\ r_off' = [r_off EXCEPT ![r] = head]
  /\ last' = [last EXCEPT ![r] = 0]
  /\ UNCHANGED <<logVars, wq, at>>

logger_release(r) ==
  /\ r \in Open
  /\ at[r] = "idle"
  /\ r_off' = [r_off EXCEPT ![r] = Closed]
  /\ UNCHANGED <<logVars, wq, at, last>>

\* logger_read queues itself before it looks.
prepare_to_wait(r) ==
  /\ r \in Open
  /\ at[r] = "idle" \/ (at[r] = "schedule" /\ r \notin wq)
  /\ wq' = wq \cup {r}
  /\ at' = [at EXCEPT ![r] = "test"]
  /\ UNCHANGED <<logVars, r_off, last>>

\* Wrong: an offset behind which the writer wrapped is taken for the end.
logger_read_test_less(r) ==
  /\ at[r] = "test"
  /\ mutex = Nobody
  /\ \/ r_off[r] < w_off /\ at' = [at EXCEPT ![r] = "read"] /\ wq' = wq \ {r}
     \/ r_off[r] >= w_off /\ at' = [at EXCEPT ![r] = "schedule"] /\ UNCHANGED wq
     \/ r_off[r] >= w_off /\ at' = [at EXCEPT ![r] = "idle"] /\ wq' = wq \ {r}
  /\ UNCHANGED <<logVars, r_off, last>>

\* Under the mutex it looks for an entry; without one it sleeps, or returns
\* if the file is non-blocking or a signal is pending.
logger_read_test(r) ==
  /\ at[r] = "test"
  /\ mutex = Nobody
  /\ \/ w_off # r_off[r] /\ at' = [at EXCEPT ![r] = "read"] /\ wq' = wq \ {r}
     \/ w_off = r_off[r] /\ at' = [at EXCEPT ![r] = "schedule"] /\ UNCHANGED wq
     \/ w_off = r_off[r] /\ at' = [at EXCEPT ![r] = "idle"] /\ wq' = wq \ {r}
  /\ UNCHANGED <<logVars, r_off, last>>

\* A signal wakes a sleeping reader.
signal(r) ==
  /\ at[r] = "schedule" /\ r \in wq
  /\ wq' = wq \ {r}
  /\ UNCHANGED <<logVars, r_off, at, last>>

\* Wrong: the reader does not look again after it took the mutex.
do_read_log_to_user_blind(r) ==
  /\ at[r] = "read"
  /\ mutex = Nobody
  /\ LET len == get_entry_len(r_off[r])
     IN  /\ r_off' = [r_off EXCEPT ![r] = logger_offset(@ + len)]
         /\ last' = [last EXCEPT ![r] = buffer[r_off[r]].id]
         /\ at' = [at EXCEPT ![r] = "idle"]
  /\ UNCHANGED <<logVars, wq>>

\* It takes the mutex again: the entry may be gone by now and it starts over;
\* its buffer may be too small or fault, and the offset stays; or it reads
\* exactly one entry.
do_read_log_to_user(r) ==
  /\ at[r] = "read"
  /\ mutex = Nobody
  /\ \/ /\ w_off = r_off[r]
        /\ wq' = wq \cup {r}
        /\ at' = [at EXCEPT ![r] = "test"]
        /\ UNCHANGED <<r_off, last>>
     \/ /\ w_off # r_off[r]
        /\ at' = [at EXCEPT ![r] = "idle"]
        /\ UNCHANGED <<r_off, wq, last>>
     \/ /\ w_off # r_off[r]
        /\ LET len == get_entry_len(r_off[r])
           IN  r_off' = [r_off EXCEPT ![r] = logger_offset(@ + len)]
        /\ last' = [last EXCEPT ![r] = buffer[r_off[r]].id]
        /\ at' = [at EXCEPT ![r] = "idle"]
        /\ UNCHANGED wq
  /\ UNCHANGED logVars

\* LOGGER_FLUSH_LOG: every reader, and head, go to the write offset.
flush_log ==
  /\ mutex = Nobody
  /\ head' = w_off
  /\ r_off' = [r \in Readers |-> IF r \in Open THEN w_off ELSE Closed]
  /\ flushed' = writes
  /\ UNCHANGED <<buffer, w_off, mutex, write, writes, wq, at, last>>

-----------------------------------------------------------------------------

Init ==
  /\ buffer = [o \in Offsets |-> [id |-> 0, pos |-> 0, len |-> 0]]
  /\ w_off = 0
  /\ head = 0
  /\ r_off = [r \in Readers |-> Closed]
  /\ mutex = Nobody
  /\ wq = {}
  /\ at = [r \in Readers |-> "idle"]
  /\ write = [w \in Writers |-> NoWrite]
  /\ writes = 0
  /\ last = [r \in Readers |-> 0]
  /\ flushed = 0

WriterStep(w) ==
  \/ \E len \in Payloads : logger_aio_write(w, len)
  \/ mutex_lock(w)
  \/ \E n \in 1 .. write[w].len : do_write_log_from_user(w, n)
  \/ \E n \in 0 .. write[w].len : copy_fault(w, n)
  \/ wake_up_interruptible(w)

ReaderStep(r) ==
  \/ logger_open(r) \/ logger_release(r)
  \/ prepare_to_wait(r) \/ logger_read_test(r) \/ signal(r)
  \/ do_read_log_to_user(r)

Next ==
  \/ \E w \in Writers : WriterStep(w)
  \/ \E r \in Readers : ReaderStep(r)
  \/ flush_log

Spec == Init /\ [][Next]_vars

\* A writer that has the mutex ends, a reader that is awake goes on and gets
\* the mutex in its turn (its waiters queue): copies end and the scheduler runs
\* every task that can run.  Nothing makes a process write, open or close, send
\* a signal or flush.
Fairness ==
  /\ \A w \in Writers :
       WF_vars(\/ \E n \in 1 .. write[w].len : do_write_log_from_user(w, n)
               \/ wake_up_interruptible(w))
  /\ \A r \in Readers :
       /\ WF_vars(at[r] = "schedule" /\ prepare_to_wait(r))
       /\ SF_vars(logger_read_test(r))

FairSpec == Spec /\ Fairness

-----------------------------------------------------------------------------
(* Properties.                                                             *)

\* Every variable keeps its type, and at most one writer has the mutex.
TypeOK ==
  /\ buffer \in [Offsets -> Byte]
  /\ w_off \in Offsets /\ head \in Offsets
  /\ r_off \in [Readers -> Offsets \cup {Closed}]
  /\ wq \subseteq Open
  /\ at \in [Readers -> {"idle", "test", "schedule", "read"}]
  /\ writes \in 0 .. MaxWrites /\ flushed \in 0 .. writes
  /\ last \in [Readers -> 0 .. MaxWrites]
  /\ write \in [Writers -> [pc : WritePCs, orig : Offsets, len : {0} \cup Payloads,
                            ret : 0 .. (Size - 1), id : 0 .. MaxWrites]]
  /\ mutex \in Writers \cup {Nobody}
  /\ \A w \in Writers : write[w].pc = "copy" <=> mutex = w

\* The byte k bytes before the offset `end'.
Behind(end, k) == buffer[logger_offset(end - k)]

\* The length of the entry that begins there.
EntryLen(end, k) == Header + Behind(end, k).len

\* A whole entry begins k bytes before `end' and does not go past it.
EntryAt(end, k) ==
  /\ Behind(end, k).id > 0
  /\ EntryLen(end, k) <= k
  /\ \A i \in 0 .. (EntryLen(end, k) - 1) :
       Behind(end, k - i) = [id |-> Behind(end, k).id, pos |-> i,
                             len |-> Behind(end, k).len]

\* At each place in S, but for `end' itself, begins a whole entry, and behind it,
\* at a place in S, a newer one, or `end'.
Boundaries(S, end) ==
  \A k \in S \ {0} :
    /\ EntryAt(end, k)
    /\ LET next == k - EntryLen(end, k)
       IN  /\ next \in S
           /\ next > 0 => Behind(end, next).id > Behind(end, k).id

\* d bytes before `end' begins a run of whole entries, each newer than the one
\* before it, that ends exactly at `end'.
Whole(end, d) ==
  \E S \in SUBSET (0 .. d) : d \in S /\ Boundaries(S, end)

\* Whenever the mutex is free, what a new reader and every open reader will
\* read is a sequence of whole entries in the order they were written, however
\* often the ring was lapped and whatever copies faulted while `orig' was still
\* the write offset (logger.c:291-324, 414-420).  Faults with another `orig' are
\* the case of StaleFaults.
LogParses ==
  mutex = Nobody =>
    \A off \in {head} \cup {r_off[r] : r \in Open} :
      Whole(w_off, logger_offset(w_off - off))

\* A reader never reads an entry again, nor an older one (logger.c:192, 323).
NoEntryTwice ==
  mutex = Nobody =>
    \A r \in Open : r_off[r] # w_off => buffer[r_off[r]].id > last[r]

\* The number of the last entry that was written in full.
Newest == buffer[logger_offset(w_off - 1)].id

\* The newest entry can be read by every reader that has not read it, and by a
\* new one, unless it was flushed: a full ring is never taken for an empty one
\* (logger.c:294-297).  A later write that faults may still take it away: the
\* readers have been pulled forward by then.
NewestKept ==
  mutex = Nobody /\ Newest = writes =>
    /\ \A r \in Open : r_off[r] = w_off => writes \in {last[r], flushed}
    /\ head = w_off => writes = flushed

\* A reader sleeps on an unread entry only while the writer that will wake it
\* is on its way (logger.c:218-238, 443-446).
NoLostWakeup ==
  \A r \in Open :
    (mutex = Nobody /\ at[r] = "schedule" /\ r \in wq /\ r_off[r] # w_off)
      => \E w \in Writers : write[w].pc = "wake_up"

\* A reader goes forward through the log and sleeps only at its end.
ReadersInOrder == TypeOK /\ NoEntryTwice /\ NoLostWakeup

\* "If there are no log entries to read, blocks until log is written to"
\* (logger.c:203): a reader that sleeps on an entry comes to read it, unless a
\* flush takes the entry away.
ReaderServed ==
  \A r \in Readers :
    (at[r] = "schedule" /\ r_off[r] # w_off)
      ~> (at[r] = "read" \/ r_off[r] = w_off)
=============================================================================
