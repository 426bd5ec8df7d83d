------------------------------ MODULE WakeLock ------------------------------
(***************************************************************************)
(* The wake-lock core of the Android power manager                         *)
(* (kernel/power/wakelock.c): the locks that keep the system awake, the    *)
(* timer that expires the ones taken with a time-out, and the work item    *)
(* suspend() that puts the system to sleep when no lock is left.           *)
(*                                                                         *)
(* The kernel is built for one CPU without preemption.  list_lock is taken *)
(* with interrupts off, so a critical section is one step.  Between two    *)
(* steps of the worker thread any driver or interrupt handler may take or  *)
(* release a lock; while the worker has interrupts off nothing else runs;  *)
(* while the timer softirq runs, only interrupt handlers run.              *)
(*                                                                         *)
(* Time is kept relative to now: left[l] is (long)(l->expires - jiffies),  *)
(* a value in -H .. H-1 (H is 2^31 on this machine) that wraps as the      *)
(* machine's subtraction does.                                             *)
(***************************************************************************)
EXTENDS Integers, FiniteSets

CONSTANTS
  Main,       \* main_wake_lock, held while the user wants the system on
  Unknown,    \* unknown_wakeup, taken by suspend() itself
  Clients,    \* the other locks of type WAKE_LOCK_SUSPEND
  IdleLocks,  \* the locks of type WAKE_LOCK_IDLE
  Timeouts,   \* the time-outs, in jiffies, passed to wake_lock_timeout
  HalfSecond, \* HZ / 2
  H,          \* half the range of jiffies
  MaxLate,    \* bound: how late, in jiffies, the expire timer may be served
  EventMod    \* the modulus of the int current_event_num

SuspendLocks == {Main, Unknown} \cup Clients

Locks == SuspendLocks \cup IdleLocks

ASSUME LocksAssumption ==
  /\ Main # Unknown
  /\ Main \notin Clients
  /\ Unknown \notin Clients
  /\ SuspendLocks \cap IdleLocks = {}

ASSUME TimeAssumption ==
  /\ H \in Nat /\ H > 1
  /\ Timeouts \subseteq -H .. (H - 1)
  /\ HalfSecond \in 1 .. (H - 1)
  /\ MaxLate \in 0 .. (H - 1)
  /\ EventMod \in Nat /\ EventMod > 1

VARIABLES
  flags,          \* per lock: INITIALIZED, ACTIVE and AUTO_EXPIRE, as one mode
  left,           \* per lock taken with a time-out: (long)(expires - jiffies)
  before,         \* the order of the locks on their active_wake_locks list
  preventing,     \* the locks with WAKE_LOCK_PREVENTING_SUSPEND
  wait_for_wakeup,
  timer_pending,  \* expire_timer is on the timer wheel
  timer_running,  \* __run_timers detached it; the handler has not run yet
  timer_left,     \* expire_timer.expires - jiffies
  suspend_work,   \* suspend_work is queued
  pc,             \* where the suspend worker is
  events,         \* current_event_num - entry_event_num
  dropped         \* history: the last lock held without a time-out was
                  \* destroyed, and no lock was taken or released since

vars == <<flags, left, before, preventing, wait_for_wakeup, timer_pending,
          timer_running, timer_left, suspend_work, pc, events, dropped>>

lockVars == <<flags, left, before, preventing>>

\* The timer, and the history of what should have set it.
timerVars == <<timer_pending, timer_running, timer_left, dropped>>

Modes == {"uninit", "inactive", "permanent", "timed"}

\* The places of suspend() and of the pm_suspend() it calls at which others
\* may run, or which a property tells apart.
Places == {"idle", "check", "entry", "prepare", "freeze", "devices",
           "irqs_off", "late", "asleep", "exit", "unknown"}

IrqsOff == pc \in {"irqs_off", "late", "asleep"}

InSuspend == pc # "idle"

-----------------------------------------------------------------------------
(* The lists.  f, b, x stand for a value of flags, before and left.        *)

IsActive(mode) == mode \in {"permanent", "timed"}

ActiveIn(f, T) == {l \in T : IsActive(f[l])}

Permanent(f) == {l \in SuspendLocks : f[l] = "permanent"}

SameType(l) == IF l \in IdleLocks THEN IdleLocks ELSE SuspendLocks

list_del(b, S) == {p \in b : p[1] \notin S /\ p[2] \notin S}

\* Wrong: every lock goes to the tail.
Relist_tail(l, timed) ==
  list_del(before, {l}) \cup ((ActiveIn(flags, SameType(l)) \ {l}) \X {l})

\* list_add puts a permanent lock at the head of its list, list_add_tail a
\* timed one at the tail.
Relist(l, timed) ==
  LET peers == ActiveIn(flags, SameType(l)) \ {l}
  IN  list_del(before, {l})
        \cup (IF timed THEN peers \X {l} ELSE {l} \X peers)

\* The scan of has_wake_lock_locked(WAKE_LOCK_SUSPEND) stops at the first
\* permanent lock.
Visited(f, b) ==
  {l \in SuspendLocks : /\ f[l] = "timed"
                        /\ \A k \in Permanent(f) : <<k, l>> \notin b}

\* Wrong: a lock goes one jiffy early.
Expired_early(f, b, x) == {l \in Visited(f, b) : x[l] <= 1}

\* The locks that scan hands to expire_wake_lock.
Expired(f, b, x) == {l \in Visited(f, b) : x[l] <= 0}

\* r is what that scan returns.
has_wake_lock_locked(f, b, x, r) ==
  IF Permanent(f) # {}
  THEN r = -1
  ELSE \/ r = 0 /\ \A l \in Visited(f, b) : x[l] <= 0
       \/ /\ r > 0
          /\ \E l \in Visited(f, b) : r = x[l]
          /\ \A l \in Visited(f, b) : x[l] <= r

Results == -1 .. (H - 1)

\* The lock table after the scan moved the locks in E to inactive_locks.
expire_wake_lock(f, b, x, p, E) ==
  /\ flags' = [l \in Locks |-> IF l \in E THEN "inactive" ELSE f[l]]
  /\ left' = [l \in Locks |-> IF l \in E THEN 0 ELSE x[l]]
  /\ before' = list_del(b, E)
  /\ preventing' = p \ E

\* has_wake_lock(WAKE_LOCK_SUSPEND) returns r.
has_wake_lock(r) ==
  /\ has_wake_lock_locked(flags, before, left, r)
  /\ expire_wake_lock(flags, before, left, preventing,
                      Expired(flags, before, left))

-----------------------------------------------------------------------------
(* The expire timer and the work item.                                     *)

mod_timer(r) ==
  /\ timer_pending' = TRUE
  /\ timer_left' = r
  /\ UNCHANGED timer_running

\* del_timer does not stop a handler that has been detached already.
del_timer ==
  /\ timer_pending' = FALSE
  /\ timer_left' = IF timer_running THEN timer_left ELSE 0
  /\ UNCHANGED timer_running

queue_work == suspend_work' = TRUE

\* The tail of wake_lock_internal and wake_unlock.
Rearm(r) ==
  /\ IF r > 0
     THEN mod_timer(r) /\ UNCHANGED suspend_work
     ELSE del_timer /\ IF r = 0 THEN queue_work ELSE UNCHANGED suspend_work
  /\ dropped' = FALSE

-----------------------------------------------------------------------------
(* The operations of the interface.                                        *)

\* Wrong: taking main_wake_lock does not end the charges.
update_sleep_wait_stats_locked_undone(f, x, p, done) ==
  LET listed == ActiveIn(f, SuspendLocks)
      expired == {l \in listed : f[l] = "timed" /\ x[l] <= 0}
  IN  (p \ listed) \cup (listed \ expired)

\* update_sleep_wait_stats_locked(done): which locks carry PREVENTING after it.
update_sleep_wait_stats_locked(f, x, p, done) ==
  LET listed == ActiveIn(f, SuspendLocks)
      expired == {l \in listed : f[l] = "timed" /\ x[l] <= 0}
  IN  (p \ listed) \cup (IF done THEN {} ELSE listed \ expired)

IsExpired(l) == flags[l] = "timed" /\ left[l] <= 0

\* The lock table once the lock is on its new list.
LockFlags(l, timed) ==
  [flags EXCEPT ![l] = IF timed THEN "timed" ELSE "permanent"]

LockLeft(l, timeout, timed) == [left EXCEPT ![l] = IF timed THEN timeout ELSE 0]

\* wake_unlock_stat_locked for a lock found expired, then the new charges.
LockPreventing(l, f, x) ==
  LET p == preventing \ {k \in {l} : IsExpired(k)}
  IN  IF l \in IdleLocks \/ (l # Main /\ IsActive(f[Main]))
      THEN p
      ELSE update_sleep_wait_stats_locked(f, x, p, l = Main)

\* Outside of pm_suspend() entry_event_num is dead.
CountEvent ==
  events' = IF pc \in {"idle", "check", "entry", "unknown"}
            THEN events ELSE (events + 1) % EventMod

wake_lock_internal(l, timeout, has_timeout) ==
  LET f == LockFlags(l, has_timeout)
      x == LockLeft(l, timeout, has_timeout)
      b == Relist(l, has_timeout)
      p == LockPreventing(l, f, x)
  IN  /\ flags[l] # "uninit"                      \* else BUG_ON
      /\ IF l \in IdleLocks
         THEN /\ expire_wake_lock(f, b, x, p, {})
              /\ UNCHANGED <<wait_for_wakeup, events, timerVars, suspend_work>>
         ELSE /\ wait_for_wakeup' = FALSE
              /\ CountEvent
              /\ \E r \in Results :
                   /\ IF has_timeout THEN has_wake_lock_locked(f, b, x, r)
                                     ELSE r = -1
                   /\ expire_wake_lock(f, b, x, p,
                        IF has_timeout THEN Expired(f, b, x) ELSE {})
                   /\ Rearm(r)

wake_lock(l) ==
  /\ ~IrqsOff
  /\ wake_lock_internal(l, 0, FALSE)
  /\ UNCHANGED pc

wake_lock_timeout(l, timeout) ==
  /\ ~IrqsOff
  /\ wake_lock_internal(l, timeout, TRUE)
  /\ UNCHANGED pc

\* The charges after wake_unlock, which counts anew when main is released.
UnlockPreventing(l, f, x, E) ==
  LET p == preventing \ ({l} \cup E)
  IN  IF l # Main THEN p
      ELSE update_sleep_wait_stats_locked(
             [k \in Locks |-> IF k \in E THEN "inactive" ELSE f[k]], x, p, FALSE)

wake_unlock(l) ==
  LET f == [flags EXCEPT ![l] = "inactive"]
      x == [left EXCEPT ![l] = 0]
      b == list_del(before, {l})
      E == IF l \in IdleLocks THEN {} ELSE Expired(f, b, x)
  IN  /\ ~IrqsOff
      /\ flags[l] # "uninit"
      /\ expire_wake_lock(f, b, x, UnlockPreventing(l, f, x, E), E)
      /\ IF l \in IdleLocks
         THEN UNCHANGED <<timerVars, suspend_work>>
         ELSE \E r \in Results : has_wake_lock_locked(f, b, x, r) /\ Rearm(r)
      /\ UNCHANGED <<wait_for_wakeup, pc, events>>

wake_lock_init(l) ==
  /\ ~IrqsOff
  /\ flags[l] = "uninit"
  /\ flags' = [flags EXCEPT ![l] = "inactive"]
  /\ UNCHANGED <<left, before, preventing, wait_for_wakeup, timerVars,
                 suspend_work, pc, events>>

\* Of any lock, held or not: evdev_release destroys one that may be held with a
\* time-out, the removal of the GPIO keys one that may be held without.  The
\* function does not look for other locks, stop the timer or queue the work.
wake_lock_destroy(l) ==
  /\ ~IrqsOff
  /\ flags[l] # "uninit"
  /\ flags' = [flags EXCEPT ![l] = "uninit"]
  /\ left' = [left EXCEPT ![l] = 0]
  /\ before' = list_del(before, {l})
  /\ preventing' = preventing \ {l}
  /\ dropped' = (dropped \/ Permanent(flags) = {l})
  /\ UNCHANGED <<wait_for_wakeup, timer_pending, timer_running, timer_left,
                 suspend_work, pc, events>>

-----------------------------------------------------------------------------
(* Time and the timer softirq.                                             *)

\* Wrong: the difference of two jiffies values never overflows.
Wrap_never(v) == v

Wrap(v) == IF v < -H THEN v + 2 * H ELSE v

\* jiffies advances.  The softirq that serves a due timer is late by at most
\* MaxLate jiffies, and by less than the half range of the comparisons.
Tick ==
  /\ ~IrqsOff
  /\ timer_pending \/ timer_running =>
       /\ timer_left > -MaxLate
       /\ \A l \in SuspendLocks : flags[l] = "timed" => left[l] > -H
  /\ left' = [l \in Locks |-> IF flags[l] = "timed" THEN Wrap(left[l] - 1)
                                                    ELSE left[l]]
  /\ timer_left' = IF timer_pending \/ timer_running THEN timer_left - 1
                                                     ELSE timer_left
  /\ UNCHANGED <<flags, before, preventing, wait_for_wakeup, timer_pending,
                 timer_running, suspend_work, pc, events, dropped>>

\* __run_timers takes the due timer off the wheel and enables interrupts.
run_timers ==
  /\ ~IrqsOff
  /\ timer_pending /\ ~timer_running
  /\ timer_left <= 0
  /\ timer_pending' = FALSE
  /\ timer_running' = TRUE
  /\ UNCHANGED <<lockVars, wait_for_wakeup, timer_left, suspend_work, pc,
                 events, dropped>>

\* Wrong: the handler expires the locks and queues nothing.
expire_wake_locks_quiet ==
  /\ timer_running
  /\ \E r \in Results : has_wake_lock(r)
  /\ timer_running' = FALSE
  /\ timer_left' = IF timer_pending THEN timer_left ELSE 0
  /\ UNCHANGED <<timer_pending, wait_for_wakeup, suspend_work, pc, events,
                 dropped>>

\* The handler of the timer.
expire_wake_locks ==
  /\ timer_running
  /\ \E r \in Results :
       /\ has_wake_lock(r)
       /\ IF r = 0 THEN queue_work ELSE UNCHANGED suspend_work
  /\ timer_running' = FALSE
  /\ timer_left' = IF timer_pending THEN timer_left ELSE 0
  /\ UNCHANGED <<timer_pending, wait_for_wakeup, pc, events, dropped>>

-----------------------------------------------------------------------------
(* The worker thread of suspend_work_queue.                                *)

\* The worker is a thread: it does not run under a softirq.
Worker(from, to) ==
  /\ ~timer_running
  /\ pc = from
  /\ pc' = to

\* run_workqueue clears the pending bit before it calls suspend().
run_workqueue ==
  /\ Worker("idle", "check")
  /\ suspend_work
  /\ suspend_work' = FALSE
  /\ UNCHANGED <<lockVars, wait_for_wakeup, timerVars, events>>

suspend_check ==
  /\ \E r \in Results :
       /\ has_wake_lock(r)
       /\ Worker("check", IF r = 0 THEN "entry" ELSE "idle")
  /\ UNCHANGED <<wait_for_wakeup, timerVars, suspend_work, events>>

\* entry_event_num = current_event_num
suspend_entry ==
  /\ Worker("entry", "prepare")
  /\ events' = 0
  /\ UNCHANGED <<lockVars, wait_for_wakeup, timerVars, suspend_work>>

\* pm_suspend accepts the state and suspend_prepare reaches the freezer.
suspend_prepare ==
  /\ Worker("prepare", "freeze")
  /\ UNCHANGED <<lockVars, wait_for_wakeup, timerVars, suspend_work, events>>

\* A round of try_to_freeze_tasks that leaves tasks to freeze looks for locks.
try_to_freeze_tasks ==
  /\ \E r \in Results :
       /\ has_wake_lock(r)
       /\ Worker("freeze", IF r = 0 THEN "freeze" ELSE "exit")
  /\ UNCHANGED <<wait_for_wakeup, timerVars, suspend_work, events>>

\* A round that leaves none does not look.
tasks_frozen ==
  /\ Worker("freeze", "devices")
  /\ UNCHANGED <<lockVars, wait_for_wakeup, timerVars, suspend_work, events>>

\* suspend_devices_and_enter suspends the devices; suspend_enter disables
\* interrupts.
suspend_devices ==
  /\ Worker("devices", "irqs_off")
  /\ UNCHANGED <<lockVars, wait_for_wakeup, timerVars, suspend_work, events>>

\* Every early exit of pm_suspend, with interrupts on or off: a state that is
\* not valid, a busy pm_mutex, a notifier, the freezer's time-out, a device.
pm_suspend_fails ==
  /\ \E place \in {"prepare", "freeze", "devices", "irqs_off", "late"} :
       Worker(place, "exit")
  /\ UNCHANGED <<lockVars, wait_for_wakeup, timerVars, suspend_work, events>>

\* Wrong: the earlier looks for locks are trusted.
power_suspend_late_blind ==
  /\ Worker("irqs_off", "late")
  /\ wait_for_wakeup' = TRUE
  /\ UNCHANGED <<lockVars, timerVars, suspend_work, events>>

\* wait_for_wakeup is set whatever the result.
power_suspend_late ==
  /\ \E r \in Results :
       /\ has_wake_lock(r)
       /\ Worker("irqs_off", IF r = 0 THEN "late" ELSE "exit")
  /\ wait_for_wakeup' = TRUE
  /\ UNCHANGED <<timerVars, suspend_work, events>>

\* suspend_ops->enter
pm_enter ==
  /\ Worker("late", "asleep")
  /\ UNCHANGED <<lockVars, wait_for_wakeup, timerVars, suspend_work, events>>

\* A wake-up source ends the sleep; the devices resume, interrupts go on.
pm_wake ==
  /\ Worker("asleep", "exit")
  /\ UNCHANGED <<lockVars, wait_for_wakeup, timerVars, suspend_work, events>>

\* Wrong: suspend() returns without taking unknown_wakeup.
suspend_exit_quiet ==
  /\ Worker("exit", "idle")
  /\ events' = 0
  /\ UNCHANGED <<lockVars, wait_for_wakeup, timerVars, suspend_work>>

\* Back in suspend(): current_event_num == entry_event_num?  Outside of
\* suspend() entry_event_num is dead.
suspend_exit ==
  /\ Worker("exit", IF events = 0 THEN "unknown" ELSE "idle")
  /\ events' = 0
  /\ UNCHANGED <<lockVars, wait_for_wakeup, timerVars, suspend_work>>

suspend_unknown ==
  /\ Worker("unknown", "idle")
  /\ wake_lock_internal(Unknown, HalfSecond, TRUE)

-----------------------------------------------------------------------------

\* wakelocks_init: main is held, unknown_wakeup is initialised.  The locks of
\* the drivers are initialised later.
Init ==
  /\ flags = [l \in Locks |-> IF l = Main THEN "permanent"
                              ELSE IF l = Unknown THEN "inactive" ELSE "uninit"]
  /\ left = [l \in Locks |-> 0]
  /\ before = {}
  /\ preventing = {}
  /\ wait_for_wakeup = FALSE
  /\ timer_pending = FALSE
  /\ timer_running = FALSE
  /\ timer_left = 0
  /\ suspend_work = FALSE
  /\ pc = "idle"
  /\ events = 0
  /\ dropped = FALSE

\* main_wake_lock is only ever taken without a time-out.
Operation ==
  \/ \E l \in {Main} \cup Clients \cup IdleLocks : wake_lock(l) \/ wake_unlock(l)
  \/ \E l \in Clients \cup IdleLocks :
       \/ wake_lock_init(l)
       \/ wake_lock_destroy(l)
       \/ \E t \in Timeouts : wake_lock_timeout(l, t)

Timer == Tick \/ run_timers \/ expire_wake_locks

Suspend ==
  \/ run_workqueue \/ suspend_check \/ suspend_entry \/ suspend_prepare
  \/ try_to_freeze_tasks \/ tasks_frozen \/ suspend_devices
  \/ pm_suspend_fails \/ power_suspend_late \/ pm_enter \/ pm_wake
  \/ suspend_exit \/ suspend_unknown

Next == Operation \/ Timer \/ Suspend

Spec == Init /\ [][Next]_vars

\* A runnable thread gets the CPU although softirqs keep interrupting it; the
\* freezer gives up after TIMEOUT.  Nothing obliges the system to wake up.
SuspendProgress ==
  \/ run_workqueue \/ suspend_check \/ suspend_entry \/ suspend_prepare
  \/ tasks_frozen \/ suspend_devices \/ pm_suspend_fails
  \/ power_suspend_late \/ pm_enter \/ suspend_exit \/ suspend_unknown

Fairness ==
  /\ WF_vars(Tick)
  /\ WF_vars(run_timers)
  /\ WF_vars(expire_wake_locks)
  /\ SF_vars(SuspendProgress)

FairSpec == Spec /\ Fairness

-----------------------------------------------------------------------------
(* Properties.                                                             *)

LockTypes ==
  /\ flags \in [Locks -> Modes]
  /\ left \in [Locks -> -H .. (H - 1)]
  /\ before \subseteq Locks \X Locks
  /\ preventing \subseteq SuspendLocks

TimerTypes ==
  /\ timer_pending \in BOOLEAN
  /\ timer_running \in BOOLEAN
  /\ timer_left \in -MaxLate .. (H - 1)
  /\ dropped \in BOOLEAN

WorkerTypes ==
  /\ wait_for_wakeup \in BOOLEAN
  /\ suspend_work \in BOOLEAN
  /\ pc \in Places
  /\ events \in 0 .. (EventMod - 1)

\* Every variable keeps its type: jiffies differences stay in the range of a
\* long although they wrap, and the timer stays within its bound.
TypeOK == LockTypes /\ TimerTypes /\ WorkerTypes

\* A lock that prevents suspend: held without a time-out, or not yet timed out.
Live == {l \in SuspendLocks : \/ flags[l] = "permanent"
                              \/ flags[l] = "timed" /\ left[l] > 0}

\* The system is never asleep while a wake lock of type WAKE_LOCK_SUSPEND is
\* held, although locks are taken and released at every point of suspend()
\* at which interrupts are on (wakelock.h:22-24).
NoSleepWhileHeld == pc = "asleep" => Live = {}

ListOK(f, b) ==
  \A k, l \in Locks :
    /\ <<k, l>> \in b =>
         /\ k # l
         /\ k \in IdleLocks <=> l \in IdleLocks
         /\ IsActive(f[k]) /\ IsActive(f[l])
         /\ <<l, k>> \notin b
         /\ f[k] = "timed" => f[l] = "timed"
    /\ /\ k # l
       /\ k \in IdleLocks <=> l \in IdleLocks
       /\ IsActive(f[k]) /\ IsActive(f[l])
       => <<k, l>> \in b \/ <<l, k>> \in b

\* Each active_wake_locks list orders the active locks of its type, all of
\* them, and no timed lock stands before a permanent one: what
\* has_wake_lock_locked needs to return -1 at the first permanent lock, and to
\* expire nothing before it does.
ListWellFormed == ListOK(flags, before)

\* While the user wants the system on no lock is charged with preventing
\* suspend; while he does not, every lock held without a time-out is; and a
\* lock is charged only while it is on the active list.
PreventingCharged ==
  /\ preventing \subseteq ActiveIn(flags, SuspendLocks)
  /\ flags[Main] = "permanent" => preventing = {}
  /\ flags[Main] = "inactive" => Permanent(flags) \subseteq preventing

TimedSuspend == {l \in SuspendLocks : flags[l] = "timed"}

\* The timer is not due before the last timed lock expires.
TimerCovers == \A l \in TimedSuspend : left[l] <= timer_left

\* The timer is set for the last lock, or its handler is about to find every
\* lock expired.
TimerArmed ==
  \/ timer_pending /\ TimerCovers
  \/ timer_running /\ \A l \in TimedSuspend : left[l] <= 0

\* No request to sleep is lost, except by the destruction of the last lock held
\* without a time-out (wakelock.c:373-397 queues nothing), and then only until a
\* lock is taken or released.  Otherwise, when no lock is held without a
\* time-out: if timed locks are left on the list, the timer will see the last of
\* them expire; if the list is empty, the work is queued, or the timer will queue
\* it, or suspend() is running and either has not looked for locks yet or will
\* take unknown_wakeup when it returns (wakelock.c:300-304, 320-321, 458-470).
SuspendArmed ==
  Permanent(flags) = {} /\ ~dropped =>
    /\ TimedSuspend # {} => TimerArmed
    /\ TimedSuspend = {} =>
         \/ suspend_work \/ timer_pending \/ timer_running
         \/ pc \in {"check", "entry", "unknown"}
         \/ InSuspend /\ events = 0

\* A held lock is let go only by an operation on that lock or by the passage of
\* time: no scan, no operation on another lock and no step of suspend() drops it.
OnlyOwnerReleases ==
  [][\A l \in Live : l \notin Live' =>
       \/ Tick
       \/ wake_unlock(l) \/ wake_lock_destroy(l)
       \/ \E t \in Timeouts : wake_lock_timeout(l, t)]_vars

\* What suspend() is doing, seen from outside.
Phase ==
  IF pc = "asleep" THEN "asleep"
  ELSE IF pc \in {"prepare", "freeze", "devices", "irqs_off", "late"}
       THEN "attempting" ELSE "awake"

Blocker == INSTANCE SuspendBlocker
             WITH Blockers <- SuspendLocks, held <- Live, phase <- Phase

\* The core implements the promise of its header and its Kconfig entry: held
\* locks prevent sleep, and once none is held suspend() tries again, whatever
\* was expired, detached or interrupted before.  The second half supposes that
\* whenever the last lock held without a time-out is destroyed, some lock is
\* taken or released later (wakelock.c:373-397, 400-514).
ImplementsBlocker ==
  Blocker!SafeSpec /\ ([]<>~dropped => Blocker!Fairness)
=============================================================================
