--------------------------- MODULE WakeLockProofs ---------------------------
(* Proofs about WakeLock, for every set of locks and every width of time.  *)
EXTENDS WakeLock, TLAPS

-----------------------------------------------------------------------------
(* Types.                                                                  *)

\* The state wakelocks_init leaves is well typed.
LEMMA InitType == Init => TypeOK
<1> SUFFICES ASSUME Init PROVE TypeOK
  OBVIOUS
<1>1. LockTypes
  BY TimeAssumption DEF Init, LockTypes, Modes
<1>2. timer_left \in -MaxLate .. (H - 1) /\ events \in 0 .. (EventMod - 1)
  BY TimeAssumption DEF Init
<1>3. /\ timer_pending \in BOOLEAN /\ timer_running \in BOOLEAN
      /\ wait_for_wakeup \in BOOLEAN /\ suspend_work \in BOOLEAN
      /\ pc \in Places /\ dropped \in BOOLEAN
  BY DEF Init, Places
<1> QED
  BY <1>1, <1>2, <1>3 DEF TypeOK, TimerTypes, WorkerTypes

\* Moving expired locks to inactive_locks keeps the types of the lock table.
LEMMA ExpireType ==
  ASSUME NEW f \in [Locks -> Modes], NEW x \in [Locks -> -H .. (H - 1)],
         NEW b \in SUBSET (Locks \X Locks), NEW p \in SUBSET SuspendLocks,
         NEW E, expire_wake_lock(f, b, x, p, E)
  PROVE  LockTypes'
<1>1. flags' \in [Locks -> Modes]
  BY DEF expire_wake_lock, Modes
<1>2. left' \in [Locks -> -H .. (H - 1)]
  BY TimeAssumption DEF expire_wake_lock
<1>3. before' \subseteq Locks \X Locks /\ preventing' \subseteq SuspendLocks
  BY DEF expire_wake_lock, list_del
<1> QED
  BY <1>1, <1>2, <1>3 DEF LockTypes

\* Setting or stopping the timer and queueing the work keeps their types.
LEMMA RearmType ==
  ASSUME TypeOK, NEW r \in Results, Rearm(r)
  PROVE  TimerTypes' /\ suspend_work' \in BOOLEAN
<1>1. timer_left' \in -MaxLate .. (H - 1)
  BY TimeAssumption
  DEF Rearm, mod_timer, del_timer, Results, TypeOK, TimerTypes
<1>2. timer_pending' \in BOOLEAN /\ timer_running' \in BOOLEAN
  BY DEF Rearm, mod_timer, del_timer, TypeOK, TimerTypes
<1>3. suspend_work' \in BOOLEAN /\ dropped' \in BOOLEAN
  BY DEF Rearm, queue_work, TypeOK, WorkerTypes
<1> QED
  BY <1>1, <1>2, <1>3 DEF TimerTypes

\* The locks charged with preventing suspend are of type WAKE_LOCK_SUSPEND.
LEMMA ChargeType ==
  ASSUME NEW f, NEW x, NEW p \in SUBSET SuspendLocks, NEW done
  PROVE  update_sleep_wait_stats_locked(f, x, p, done) \subseteq SuspendLocks
BY DEF update_sleep_wait_stats_locked, ActiveIn

\* Taking a lock, with or without a time-out, keeps the types.
LEMMA LockInternalType ==
  ASSUME TypeOK, NEW l \in Locks, NEW t \in -H .. (H - 1),
         NEW timed \in BOOLEAN, pc' \in Places,
         wake_lock_internal(l, t, timed)
  PROVE  TypeOK'
<1> DEFINE f == LockFlags(l, timed)
           x == LockLeft(l, t, timed)
           b == Relist(l, timed)
           p == LockPreventing(l, f, x)
<1>1. f \in [Locks -> Modes]
  BY DEF LockFlags, TypeOK, LockTypes, Modes
<1>2. x \in [Locks -> -H .. (H - 1)]
  BY TimeAssumption DEF LockLeft, TypeOK, LockTypes
<1>3. b \in SUBSET (Locks \X Locks)
  BY DEF Relist, ActiveIn, IsActive, SameType, list_del, TypeOK, LockTypes,
         Locks
<1>4. p \in SUBSET SuspendLocks
  BY ChargeType DEF LockPreventing, TypeOK, LockTypes
<1>5. \E E : expire_wake_lock(f, b, x, p, E)
  BY Zenon DEF wake_lock_internal
<1>6. LockTypes'
  <2> HIDE DEF f, x, b, p
  <2> QED  BY <1>1, <1>2, <1>3, <1>4, <1>5, ExpireType
<1>7. \/ UNCHANGED <<timerVars, suspend_work>>
      \/ \E r \in Results : Rearm(r)
  BY Zenon DEF wake_lock_internal
<1>8. TimerTypes' /\ suspend_work' \in BOOLEAN
  BY <1>7, RearmType DEF TypeOK, TimerTypes, WorkerTypes, timerVars
<1>9. events' \in 0 .. (EventMod - 1)
  <2>1. (events + 1) % EventMod \in 0 .. (EventMod - 1)
    BY TimeAssumption DEF TypeOK, WorkerTypes
  <2>2. UNCHANGED events \/ CountEvent
    BY Zenon DEF wake_lock_internal
  <2> QED  BY <2>1, <2>2 DEF CountEvent, TypeOK, WorkerTypes
<1>10. wait_for_wakeup' \in BOOLEAN
  <2>1. UNCHANGED wait_for_wakeup \/ wait_for_wakeup' = FALSE
    BY Zenon DEF wake_lock_internal
  <2> QED  BY <2>1 DEF TypeOK, WorkerTypes
<1> QED
  BY <1>6, <1>8, <1>9, <1>10 DEF TypeOK, WorkerTypes

\* has_wake_lock keeps the types of the lock table.
LEMMA HasWakeLockType ==
  ASSUME TypeOK, NEW r, has_wake_lock(r)
  PROVE  LockTypes'
BY ExpireType DEF has_wake_lock, TypeOK, LockTypes

\* Releasing a lock keeps the types.
LEMMA UnlockType ==
  ASSUME TypeOK, NEW l \in Locks, wake_unlock(l)
  PROVE  TypeOK'
<1> DEFINE f == [flags EXCEPT ![l] = "inactive"]
           x == [left EXCEPT ![l] = 0]
           b == list_del(before, {l})
<1>1. f \in [Locks -> Modes]
  BY DEF TypeOK, LockTypes, Modes
<1>2. x \in [Locks -> -H .. (H - 1)]
  BY TimeAssumption DEF TypeOK, LockTypes
<1>3. b \in SUBSET (Locks \X Locks)
  BY DEF list_del, TypeOK, LockTypes
<1>4. \A E : UnlockPreventing(l, f, x, E) \in SUBSET SuspendLocks
  BY ChargeType DEF UnlockPreventing, TypeOK, LockTypes
<1>5. \E E : expire_wake_lock(f, b, x, UnlockPreventing(l, f, x, E), E)
  BY Zenon DEF wake_unlock
<1>6. LockTypes'
  <2> HIDE DEF f, x, b
  <2> QED  BY <1>1, <1>2, <1>3, <1>4, <1>5, ExpireType
<1>7. \/ UNCHANGED <<timerVars, suspend_work>>
      \/ \E r \in Results : Rearm(r)
  BY Zenon DEF wake_unlock
<1>8. TimerTypes' /\ suspend_work' \in BOOLEAN
  BY <1>7, RearmType DEF TypeOK, TimerTypes, WorkerTypes, timerVars
<1>9. UNCHANGED <<wait_for_wakeup, pc, events>>
  BY Zenon DEF wake_unlock
<1> QED
  BY <1>6, <1>8, <1>9 DEF TypeOK, WorkerTypes

\* The operations of drivers keep the types.
LEMMA OperationType ==
  ASSUME TypeOK, Operation
  PROVE  TypeOK'
<1>1. ASSUME NEW l \in {Main} \cup Clients \cup IdleLocks, wake_lock(l)
      PROVE  TypeOK'
  <2>1. l \in Locks /\ 0 \in -H .. (H - 1) /\ pc' \in Places
    BY <1>1, TimeAssumption
    DEF wake_lock, Locks, SuspendLocks, TypeOK, WorkerTypes
  <2> QED  BY <1>1, <2>1, LockInternalType DEF wake_lock
<1>2. ASSUME NEW l \in {Main} \cup Clients \cup IdleLocks, wake_unlock(l)
      PROVE  TypeOK'
  BY <1>2, UnlockType DEF Locks, SuspendLocks
<1>3. ASSUME NEW l \in Clients \cup IdleLocks, wake_lock_init(l)
      PROVE  TypeOK'
  <2>1. LockTypes'
    BY <1>3 DEF wake_lock_init, TypeOK, LockTypes, Modes
  <2>2. UNCHANGED <<timerVars, wait_for_wakeup, suspend_work, pc, events>>
    BY <1>3 DEF wake_lock_init
  <2> QED  BY <2>1, <2>2 DEF TypeOK, TimerTypes, WorkerTypes, timerVars
<1>4. ASSUME NEW l \in Clients \cup IdleLocks, wake_lock_destroy(l)
      PROVE  TypeOK'
  <2>1. LockTypes'
    <3>1. flags' \in [Locks -> Modes] /\ before' \subseteq Locks \X Locks
      BY <1>4 DEF wake_lock_destroy, TypeOK, LockTypes, Modes, list_del
    <3>2. left' \in [Locks -> -H .. (H - 1)]
      <4>1. left' = [left EXCEPT ![l] = 0]
        BY <1>4 DEF wake_lock_destroy
      <4>2. l \in Locks
        BY DEF Locks, SuspendLocks
      <4> QED  BY <4>1, <4>2, TimeAssumption DEF TypeOK, LockTypes
    <3>3. preventing' \subseteq SuspendLocks
      BY <1>4 DEF wake_lock_destroy, TypeOK, LockTypes
    <3> QED  BY <3>1, <3>2, <3>3 DEF LockTypes
  <2>2. UNCHANGED <<timer_pending, timer_running, timer_left, wait_for_wakeup,
                    suspend_work, pc, events>>
    BY <1>4 DEF wake_lock_destroy
  <2>3. dropped' \in BOOLEAN
    BY <1>4 DEF wake_lock_destroy
  <2> QED  BY <2>1, <2>2, <2>3 DEF TypeOK, TimerTypes, WorkerTypes
<1>5. ASSUME NEW l \in Clients \cup IdleLocks, NEW t \in Timeouts,
             wake_lock_timeout(l, t)
      PROVE  TypeOK'
  <2>1. l \in Locks /\ t \in -H .. (H - 1) /\ pc' \in Places
    BY <1>5, TimeAssumption
    DEF wake_lock_timeout, Locks, SuspendLocks, TypeOK, WorkerTypes
  <2> QED  BY <1>5, <2>1, LockInternalType DEF wake_lock_timeout
<1> QED
  BY <1>1, <1>2, <1>3, <1>4, <1>5 DEF Operation

\* The passage of time and the timer softirq keep the types.
LEMMA TimerType ==
  ASSUME TypeOK, Timer
  PROVE  TypeOK'
<1>1. CASE Tick
  <2>1. left' \in [Locks -> -H .. (H - 1)]
    BY <1>1, TimeAssumption DEF Tick, Wrap, TypeOK, LockTypes
  <2>2. timer_left' \in -MaxLate .. (H - 1)
    <3>1. \/ timer_left' = timer_left
          \/ timer_left > -MaxLate /\ timer_left' = timer_left - 1
      BY <1>1, Zenon DEF Tick
    <3> QED  BY <3>1, TimeAssumption DEF TypeOK, TimerTypes
  <2>3. UNCHANGED <<flags, before, preventing, wait_for_wakeup, timer_pending,
                    timer_running, suspend_work, pc, events, dropped>>
    BY <1>1 DEF Tick
  <2> QED  BY <2>1, <2>2, <2>3 DEF TypeOK, LockTypes, TimerTypes, WorkerTypes
<1>2. CASE run_timers
  BY <1>2 DEF run_timers, lockVars, TypeOK, LockTypes, TimerTypes, WorkerTypes
<1>3. CASE expire_wake_locks
  <2>1. LockTypes'
    BY <1>3, HasWakeLockType DEF expire_wake_locks
  <2>2. timer_left' \in -MaxLate .. (H - 1)
    BY <1>3, TimeAssumption DEF expire_wake_locks, TypeOK, TimerTypes
  <2>3. timer_running' \in BOOLEAN /\ suspend_work' \in BOOLEAN
    BY <1>3 DEF expire_wake_locks, queue_work, TypeOK, TimerTypes, WorkerTypes
  <2>4. UNCHANGED <<timer_pending, wait_for_wakeup, pc, events, dropped>>
    BY <1>3 DEF expire_wake_locks
  <2> QED  BY <2>1, <2>2, <2>3, <2>4 DEF TypeOK, TimerTypes, WorkerTypes
<1> QED
  BY <1>1, <1>2, <1>3 DEF Timer

\* The steps of suspend() keep the types.
LEMMA SuspendType ==
  ASSUME TypeOK, Suspend
  PROVE  TypeOK'
<1>1. pc' \in Places
  BY DEF Suspend, Worker, Places, run_workqueue, suspend_check, suspend_entry,
         suspend_prepare, try_to_freeze_tasks, tasks_frozen, suspend_devices,
         pm_suspend_fails, power_suspend_late, pm_enter, pm_wake, suspend_exit,
         suspend_unknown
<1>2. ASSUME UNCHANGED <<lockVars, wait_for_wakeup, timerVars, suspend_work, events>>
      PROVE  TypeOK'
  BY <1>1, <1>2
  DEF lockVars, timerVars, TypeOK, LockTypes, TimerTypes, WorkerTypes
<1>3. CASE run_workqueue
  BY <1>1, <1>3 DEF run_workqueue, lockVars, timerVars, TypeOK, LockTypes,
                    TimerTypes, WorkerTypes
<1>4. ASSUME NEW r, has_wake_lock(r),
             UNCHANGED <<timerVars, suspend_work, events>>,
             wait_for_wakeup' \in BOOLEAN
      PROVE  TypeOK'
  BY <1>1, <1>4, HasWakeLockType
  DEF timerVars, TypeOK, TimerTypes, WorkerTypes
<1>5. CASE suspend_check \/ try_to_freeze_tasks
  BY <1>4, <1>5, Zenon
  DEF suspend_check, try_to_freeze_tasks, TypeOK, WorkerTypes
<1>6. CASE power_suspend_late
  BY <1>4, <1>6 DEF power_suspend_late
<1>7. CASE suspend_entry \/ suspend_exit
  <2>1. events' \in 0 .. (EventMod - 1)
    BY <1>7, TimeAssumption DEF suspend_entry, suspend_exit
  <2>2. UNCHANGED <<lockVars, wait_for_wakeup, timerVars, suspend_work>>
    BY <1>7 DEF suspend_entry, suspend_exit
  <2> QED
    BY <1>1, <2>1, <2>2
    DEF lockVars, timerVars, TypeOK, LockTypes, TimerTypes, WorkerTypes
<1>8. CASE \/ suspend_prepare \/ tasks_frozen \/ suspend_devices
           \/ pm_suspend_fails \/ pm_enter \/ pm_wake
  BY <1>2, <1>8, Zenon DEF suspend_prepare, tasks_frozen, suspend_devices,
                           pm_suspend_fails, pm_enter, pm_wake
<1>9. CASE suspend_unknown
  <2>1. Unknown \in Locks /\ HalfSecond \in -H .. (H - 1)
    BY TimeAssumption DEF Locks, SuspendLocks
  <2> QED  BY <1>1, <1>9, <2>1, LockInternalType DEF suspend_unknown
<1> QED
  BY <1>3, <1>5, <1>6, <1>7, <1>8, <1>9, Zenon DEF Suspend

\* The types hold in every reachable state: in particular the differences of
\* jiffies stay in the range of a long although they wrap.
THEOREM TypeCorrect == Spec => []TypeOK
<1>1. Init => TypeOK
  BY InitType
<1>2. TypeOK /\ [Next]_vars => TypeOK'
  <2> SUFFICES ASSUME TypeOK, [Next]_vars PROVE TypeOK'
    OBVIOUS
  <2>1. CASE Next
    BY <2>1, OperationType, TimerType, SuspendType DEF Next
  <2>2. CASE UNCHANGED vars
    BY <2>2 DEF vars, TypeOK, LockTypes, TimerTypes, WorkerTypes
  <2> QED  BY <2>1, <2>2
<1> QED
  BY <1>1, <1>2, PTL DEF Spec

-----------------------------------------------------------------------------
(* The lists.                                                              *)

\* list_del takes a lock out of every pair.
LEMMA ListDel ==
  ASSUME NEW b, NEW S, NEW k, NEW l
  PROVE  <<k, l>> \in list_del(b, S) <=> <<k, l>> \in b /\ k \notin S /\ l \notin S
BY DEF list_del

\* Taking locks off the lists keeps the lists well formed.
LEMMA ListRemove ==
  ASSUME NEW f, NEW b, NEW E, ListOK(f, b), NEW g,
         \A l \in Locks : IF l \in E THEN ~IsActive(g[l]) ELSE g[l] = f[l]
  PROVE  ListOK(g, list_del(b, E))
BY ListDel DEF ListOK

\* So does a scan, which expires some of the timed locks.
LEMMA ListExpire ==
  ASSUME NEW f, NEW b, NEW x, NEW p, NEW E, ListOK(f, b),
         expire_wake_lock(f, b, x, p, E)
  PROVE  ListWellFormed'
<1>1. \A l \in Locks : IF l \in E THEN ~IsActive(flags'[l]) ELSE flags'[l] = f[l]
  BY DEF expire_wake_lock, IsActive
<1>2. ListOK(flags', list_del(b, E))
  BY <1>1, ListRemove
<1>3. before' = list_del(b, E)
  BY DEF expire_wake_lock
<1> QED
  BY <1>2, <1>3 DEF ListWellFormed, ListOK

\* A permanent lock goes to the head and a timed lock to the tail.
LEMMA ListAdd ==
  ASSUME TypeOK, ListWellFormed, NEW l \in Locks, NEW timed \in BOOLEAN
  PROVE  ListOK(LockFlags(l, timed), Relist(l, timed))
<1> DEFINE f == LockFlags(l, timed)
           peers == ActiveIn(flags, SameType(l)) \ {l}
<1>1. /\ f[l] = IF timed THEN "timed" ELSE "permanent"
      /\ \A k \in Locks \ {l} : f[k] = flags[k]
  BY DEF LockFlags, TypeOK, LockTypes
<1>2. \A k \in Locks : k \in peers <=>
        IsActive(flags[k]) /\ k # l /\ (k \in IdleLocks <=> l \in IdleLocks)
  BY LocksAssumption DEF ActiveIn, SameType, Locks
<1>3. \A j, k \in Locks : <<j, k>> \in Relist(l, timed) <=>
        \/ <<j, k>> \in before /\ j # l /\ k # l
        \/ timed /\ j \in peers /\ k = l
        \/ ~timed /\ j = l /\ k \in peers
  BY ListDel DEF Relist
<1>4. ASSUME NEW j \in Locks, NEW k \in Locks, <<j, k>> \in Relist(l, timed)
      PROVE  /\ j # k
             /\ j \in IdleLocks <=> k \in IdleLocks
             /\ IsActive(f[j]) /\ IsActive(f[k])
             /\ <<k, j>> \notin Relist(l, timed)
             /\ f[j] = "timed" => f[k] = "timed"
  <2> HIDE DEF f, peers
  <2> QED  BY <1>1, <1>2, <1>3, <1>4 DEF ListWellFormed, ListOK, IsActive
<1>5. ASSUME NEW j \in Locks, NEW k \in Locks, j # k,
             j \in IdleLocks <=> k \in IdleLocks,
             IsActive(f[j]), IsActive(f[k])
      PROVE  <<j, k>> \in Relist(l, timed) \/ <<k, j>> \in Relist(l, timed)
  <2> HIDE DEF f, peers
  <2> QED  BY <1>1, <1>2, <1>3, <1>5 DEF ListWellFormed, ListOK
<1> QED
  BY <1>4, <1>5 DEF ListOK

\* Every step keeps the lists well formed.
LEMMA ListStep ==
  ASSUME TypeOK, ListWellFormed, [Next]_vars
  PROVE  ListWellFormed'
<1>1. ASSUME NEW l \in Locks, NEW t, NEW timed \in BOOLEAN,
             wake_lock_internal(l, t, timed)
      PROVE  ListWellFormed'
  <2>1. ListOK(LockFlags(l, timed), Relist(l, timed))
    BY ListAdd
  <2>2. \E x, q, E : expire_wake_lock(LockFlags(l, timed), Relist(l, timed), x, q, E)
    BY <1>1, Zenon DEF wake_lock_internal
  <2> QED  BY <2>1, <2>2, ListExpire
<1>2. ASSUME NEW l \in Locks, wake_unlock(l)
      PROVE  ListWellFormed'
  <2> DEFINE f == [flags EXCEPT ![l] = "inactive"]
  <2>1. ListOK(f, list_del(before, {l}))
    <3>1. \A k \in Locks : IF k \in {l} THEN ~IsActive(f[k]) ELSE f[k] = flags[k]
      BY DEF IsActive, TypeOK, LockTypes
    <3> QED  BY <3>1, ListRemove DEF ListWellFormed
  <2>2. \E x, q, E : expire_wake_lock(f, list_del(before, {l}), x, q, E)
    BY <1>2, Zenon DEF wake_unlock
  <2> QED  BY <2>1, <2>2, ListExpire
<1>3. ASSUME NEW l \in Locks, wake_lock_init(l) \/ wake_lock_destroy(l)
      PROVE  ListWellFormed'
  <2>1. CASE wake_lock_init(l)
    <3>1. ~IsActive(flags[l])
      BY <2>1 DEF wake_lock_init, IsActive
    <3>2. \A k \in Locks :
            IF k \in {l} THEN ~IsActive(flags'[k]) ELSE flags'[k] = flags[k]
      BY <2>1 DEF wake_lock_init, IsActive, TypeOK, LockTypes
    <3>3. ListOK(flags', list_del(before, {l}))
      BY <3>2, ListRemove DEF ListWellFormed
    <3>4. \A j, k \in Locks : <<j, k>> \in before' <=> <<j, k>> \in list_del(before, {l})
      <4>1. \A j, k \in Locks : <<j, k>> \in before => j # l /\ k # l
        BY <3>1 DEF ListWellFormed, ListOK
      <4>2. UNCHANGED before
        BY <2>1 DEF wake_lock_init
      <4> QED  BY <4>1, <4>2, ListDel
    <3> QED  BY <3>3, <3>4 DEF ListWellFormed, ListOK
  <2>2. CASE wake_lock_destroy(l)
    <3>1. \A k \in Locks :
            IF k \in {l} THEN ~IsActive(flags'[k]) ELSE flags'[k] = flags[k]
      BY <2>2 DEF wake_lock_destroy, IsActive, TypeOK, LockTypes
    <3>2. ListOK(flags', list_del(before, {l}))
      BY <3>1, ListRemove DEF ListWellFormed
    <3>3. before' = list_del(before, {l})
      BY <2>2 DEF wake_lock_destroy
    <3> QED  BY <3>2, <3>3 DEF ListWellFormed, ListOK
  <2> QED  BY <1>3, <2>1, <2>2
<1>4. ASSUME NEW r, has_wake_lock(r)
      PROVE  ListWellFormed'
  BY <1>4, ListExpire DEF has_wake_lock, ListWellFormed
<1>5. ASSUME UNCHANGED <<flags, before>>
      PROVE  ListWellFormed'
  BY <1>5 DEF ListWellFormed, ListOK
<1>6. CASE Operation
  <2>1. {Main, Unknown} \cup Clients \cup IdleLocks \subseteq Locks
    BY DEF Locks, SuspendLocks
  <2>2. TRUE \in BOOLEAN /\ FALSE \in BOOLEAN
    OBVIOUS
  <2> QED
    BY <1>1, <1>2, <1>3, <1>6, <2>1, <2>2
    DEF Operation, wake_lock, wake_lock_timeout
<1>7. CASE Timer
  BY <1>4, <1>5, <1>7 DEF Timer, Tick, run_timers, expire_wake_locks, lockVars
<1>8. CASE Suspend
  <2>1. CASE suspend_unknown
    BY <1>1, <2>1 DEF suspend_unknown, Locks, SuspendLocks
  <2>2. CASE suspend_check \/ try_to_freeze_tasks \/ power_suspend_late
    BY <1>4, <2>2 DEF suspend_check, try_to_freeze_tasks, power_suspend_late
  <2>3. CASE UNCHANGED lockVars
    BY <1>5, <2>3 DEF lockVars
  <2> QED
    BY <1>8, <2>1, <2>2, <2>3, Zenon
    DEF Suspend, run_workqueue, suspend_entry, suspend_prepare, tasks_frozen,
        suspend_devices, pm_suspend_fails, pm_enter, pm_wake, suspend_exit
<1>9. CASE UNCHANGED vars
  BY <1>5, <1>9 DEF vars
<1> QED
  BY <1>6, <1>7, <1>8, <1>9 DEF Next

\* The active lists stay ordered, permanent locks first, whatever order locks
\* are taken, retaken with another kind, released, destroyed and expired in.
THEOREM ListsCorrect == Spec => []ListWellFormed
<1>1. Init => ListWellFormed
  <2> SUFFICES ASSUME Init PROVE ListWellFormed
    OBVIOUS
  <2>1. \A k \in Locks : IsActive(flags[k]) => k = Main
    BY DEF Init, IsActive
  <2>2. before = {}
    BY DEF Init
  <2> QED  BY <2>1, <2>2 DEF ListWellFormed, ListOK
<1>2. TypeOK /\ ListWellFormed /\ [Next]_vars => ListWellFormed'
  BY ListStep
<1> QED
  BY <1>1, <1>2, TypeCorrect, PTL DEF Spec

-----------------------------------------------------------------------------
(* No sleep while a lock is held.                                          *)

\* A scan lets go of no lock that is held, and a scan that returns 0 finds none.
LEMMA ScanKeepsLive ==
  ASSUME TypeOK, NEW r, has_wake_lock(r)
  PROVE  Live' = Live /\ (r = 0 => Live = {})
<1>1. \A l \in Expired(flags, before, left) : flags[l] = "timed" /\ left[l] <= 0
  BY DEF Expired, Visited
<1>2. \A l \in SuspendLocks :
        IF l \in Expired(flags, before, left)
        THEN flags'[l] = "inactive"
        ELSE flags'[l] = flags[l] /\ left'[l] = left[l]
  BY DEF has_wake_lock, expire_wake_lock, Locks
<1>3. Live' = Live
  BY <1>1, <1>2, TimeAssumption DEF Live, TypeOK, LockTypes, Locks
<1>4. ASSUME r = 0 PROVE Live = {}
  <2>1. Permanent(flags) = {}
    BY <1>4 DEF has_wake_lock, has_wake_lock_locked
  <2>2. \A l \in Visited(flags, before) : left[l] <= 0
    BY <1>4, <2>1 DEF has_wake_lock, has_wake_lock_locked
  <2>3. \A l \in SuspendLocks : /\ flags[l] # "permanent"
                                /\ flags[l] = "timed" => left[l] <= 0
    BY <2>1, <2>2 DEF Permanent, Visited
  <2>4. \A l \in SuspendLocks : left[l] \in Int
    BY TimeAssumption DEF TypeOK, LockTypes, Locks
  <2> QED  BY <2>3, <2>4 DEF Live
<1> QED
  BY <1>3, <1>4

\* The inductive form of NoSleepWhileHeld: once power_suspend_late has found no
\* lock, none is held, because with interrupts off nobody else runs.
SleepInv ==
  /\ pc \in {"late", "asleep"} => Live = {}
  /\ timer_running => ~IrqsOff

\* Every step keeps SleepInv.
LEMMA SleepStep ==
  ASSUME TypeOK, SleepInv, [Next]_vars
  PROVE  SleepInv'
<1>1. CASE Operation
  <2>1. ~IrqsOff /\ UNCHANGED pc
    BY <1>1 DEF Operation, wake_lock, wake_unlock, wake_lock_timeout,
                wake_lock_init, wake_lock_destroy
  <2> QED  BY <2>1 DEF SleepInv, IrqsOff
<1>2. CASE Timer
  <2>1. ~IrqsOff /\ UNCHANGED pc
    BY <1>2 DEF Timer, Tick, run_timers, expire_wake_locks, SleepInv
  <2> QED  BY <2>1 DEF SleepInv, IrqsOff
<1>3. CASE Suspend
  <2>1. ~timer_running
    BY <1>3 DEF Suspend, Worker, run_workqueue, suspend_check, suspend_entry,
         suspend_prepare, try_to_freeze_tasks, tasks_frozen, suspend_devices,
         pm_suspend_fails, power_suspend_late, pm_enter, pm_wake, suspend_exit,
         suspend_unknown
  <2>2. ~timer_running'
    <3>1. UNCHANGED timer_running
      BY <1>3
      DEF Suspend, timerVars, run_workqueue, suspend_check, suspend_entry,
          suspend_prepare, try_to_freeze_tasks, tasks_frozen, suspend_devices,
          pm_suspend_fails, power_suspend_late, pm_enter, pm_wake,
          suspend_exit, suspend_unknown, wake_lock_internal, Rearm, mod_timer,
          del_timer
    <3> QED  BY <2>1, <3>1
  <2>3. CASE power_suspend_late
    <3>1. PICK r \in Results :
            /\ has_wake_lock(r)
            /\ pc' = IF r = 0 THEN "late" ELSE "exit"
      BY <2>3 DEF power_suspend_late, Worker
    <3> QED  BY <2>2, <3>1, ScanKeepsLive DEF SleepInv
  <2>4. CASE pm_enter
    <3>1. Live' = Live /\ pc = "late"
      BY <2>4 DEF pm_enter, Worker, lockVars, Live
    <3> QED  BY <2>2, <3>1 DEF SleepInv
  <2>5. ASSUME ~power_suspend_late, ~pm_enter
        PROVE  pc' \notin {"late", "asleep"}
    BY <1>3, <2>5
    DEF Suspend, Worker, run_workqueue, suspend_check, suspend_entry,
        suspend_prepare, try_to_freeze_tasks, tasks_frozen, suspend_devices,
        pm_suspend_fails, pm_wake, suspend_exit, suspend_unknown
  <2> QED  BY <2>2, <2>3, <2>4, <2>5 DEF SleepInv
<1>4. CASE UNCHANGED vars
  BY <1>4 DEF vars, SleepInv, IrqsOff, Live
<1> QED
  BY <1>1, <1>2, <1>3, <1>4 DEF Next

\* The types and SleepInv hold together.
LEMMA SleepInvariant == Spec => [](TypeOK /\ SleepInv)
<1>1. Init => SleepInv
  BY DEF Init, SleepInv
<1>2. TypeOK /\ SleepInv /\ [Next]_vars => SleepInv'
  BY SleepStep
<1> QED
  BY <1>1, <1>2, TypeCorrect, PTL DEF Spec

\* Whatever locks are taken, expire and are released while suspend() runs, the
\* system is never asleep with a lock held.
THEOREM SleepSafe == Spec => []NoSleepWhileHeld
<1>1. SleepInv => NoSleepWhileHeld
  BY DEF SleepInv, NoSleepWhileHeld
<1> QED
  BY <1>1, SleepInvariant, PTL

-----------------------------------------------------------------------------
(* No request to sleep is lost.                                            *)

\* The timed locks of a lock table.
TimedIn(f) == {l \in SuspendLocks : f[l] = "timed"}

\* What the scan of has_wake_lock_locked leaves: the permanent locks, and of
\* the timed ones, when there is no permanent lock, those not yet expired.
LEMMA ScanLeaves ==
  ASSUME NEW f, NEW b, NEW x \in [Locks -> Int], NEW p, NEW r,
         has_wake_lock_locked(f, b, x, r),
         expire_wake_lock(f, b, x, p, Expired(f, b, x)),
         Permanent(flags') = {}
  PROVE  /\ Permanent(f) = {}
         /\ \A l \in TimedIn(flags') :
              l \in TimedIn(f) /\ left'[l] = x[l] /\ x[l] > 0 /\ x[l] <= r
         /\ r # 0 => \E l \in TimedIn(flags') : x[l] > 0
<1>1. \A l \in SuspendLocks : IF l \in Expired(f, b, x)
                               THEN flags'[l] = "inactive"
                               ELSE flags'[l] = f[l] /\ left'[l] = x[l]
  BY DEF expire_wake_lock, Locks
<1>2. Permanent(f) = {}
  BY <1>1 DEF Permanent, Expired, Visited
<1>3. Visited(f, b) = TimedIn(f)
  BY <1>2 DEF Visited, TimedIn
<1>4. \A l \in SuspendLocks : x[l] \in Int
  BY DEF Locks
<1>5. \A l \in TimedIn(flags') :
        l \in TimedIn(f) /\ left'[l] = x[l] /\ x[l] > 0
  BY <1>1, <1>3, <1>4 DEF TimedIn, Expired
<1>6. \/ r = 0 /\ \A l \in TimedIn(f) : x[l] <= 0
      \/ /\ r > 0
         /\ \E l \in TimedIn(f) : r = x[l]
         /\ \A l \in TimedIn(f) : x[l] <= r
  BY <1>2, <1>3 DEF has_wake_lock_locked
<1>7. \A l \in TimedIn(flags') : x[l] <= r
  BY <1>5, <1>6
<1>8. ASSUME r # 0 PROVE \E l \in TimedIn(flags') : x[l] > 0
  <2>1. PICK l \in TimedIn(f) : r = x[l] /\ r > 0
    BY <1>6, <1>8
  <2>2. l \in TimedIn(flags')
    BY <1>1, <1>4, <2>1 DEF TimedIn, Expired
  <2> QED  BY <2>1, <2>2
<1> QED
  BY <1>2, <1>5, <1>7, <1>8

\* After the common tail of wake_lock_internal and wake_unlock the core is armed.
LEMMA RearmArms ==
  ASSUME NEW f, NEW b, NEW x \in [Locks -> Int], NEW p, NEW r \in Results,
         has_wake_lock_locked(f, b, x, r),
         expire_wake_lock(f, b, x, p, Expired(f, b, x)),
         Rearm(r)
  PROVE  SuspendArmed'
<1> SUFFICES ASSUME Permanent(flags') = {}
             PROVE  /\ TimedSuspend' # {} => TimerArmed'
                    /\ TimedSuspend' = {} => suspend_work' \/ timer_pending'
  BY DEF SuspendArmed, Permanent
<1>1. TimedSuspend' = TimedIn(flags')
  BY DEF TimedSuspend, TimedIn
<1>2. \A l \in TimedIn(flags') : left'[l] = x[l] /\ x[l] > 0 /\ x[l] <= r
  BY ScanLeaves
<1>3. r \in Int
  BY TimeAssumption DEF Results
<1>4. CASE r > 0
  <2>1. timer_pending' /\ timer_left' = r
    BY <1>4 DEF Rearm, mod_timer
  <2> QED  BY <1>1, <1>2, <2>1 DEF TimerArmed, TimerCovers
<1>5. CASE r <= 0
  <2>1. Permanent(f) = {}
    BY ScanLeaves
  <2>2. r = 0
    BY <1>3, <1>5, <2>1 DEF has_wake_lock_locked
  <2>3. suspend_work'
    BY <2>2 DEF Rearm, queue_work
  <2>4. TimedIn(flags') = {}
    <3>1. \A l \in TimedIn(flags') : x[l] \in Int
      BY DEF TimedIn, Locks
    <3> QED  BY <1>2, <2>2, <3>1
  <2> QED  BY <1>1, <2>3, <2>4
<1> QED
  BY <1>3, <1>4, <1>5

\* A scan outside of that tail leaves the core as armed as it was, and finds a
\* lock only if the timer is armed.
LEMMA ScanKeepsArmed ==
  ASSUME TypeOK, SuspendArmed, NEW r, has_wake_lock(r),
         Permanent(flags') = {}, ~dropped
  PROVE  /\ Permanent(flags) = {}
         /\ TimedSuspend # {} => TimerArmed
         /\ r # 0 => \E l \in TimedSuspend' :
                        l \in TimedSuspend /\ left[l] > 0
         /\ \A l \in TimedSuspend' :
              l \in TimedSuspend /\ left'[l] = left[l]
         /\ r = 0 => TimedSuspend' = {}
<1>1. TimedSuspend' = TimedIn(flags') /\ TimedSuspend = TimedIn(flags)
  BY DEF TimedSuspend, TimedIn
<1>2. left \in [Locks -> Int]
  BY TimeAssumption DEF TypeOK, LockTypes
<1>3. /\ Permanent(flags) = {}
      /\ \A l \in TimedIn(flags') : /\ l \in TimedIn(flags)
                                    /\ left'[l] = left[l]
                                    /\ left[l] > 0 /\ left[l] <= r
      /\ r # 0 => \E l \in TimedIn(flags') : left[l] > 0
  BY <1>2, ScanLeaves DEF has_wake_lock
<1>4. \A l \in SuspendLocks : left[l] \in Int
  BY <1>2 DEF Locks
<1>5. r = 0 => TimedSuspend' = {}
  BY <1>1, <1>3, <1>4 DEF TimedIn
<1> QED
  BY <1>1, <1>3, <1>5 DEF SuspendArmed

\* The operations of drivers keep the core armed.
LEMMA ArmedInternal ==
  ASSUME TypeOK, SuspendArmed, NEW l \in Locks, NEW t \in -H .. (H - 1),
         NEW timed \in BOOLEAN, wake_lock_internal(l, t, timed),
         l \in IdleLocks => UNCHANGED pc
  PROVE  SuspendArmed'
<1> DEFINE f == LockFlags(l, timed)
           x == LockLeft(l, t, timed)
           b == Relist(l, timed)
           p == LockPreventing(l, f, x)
<1>1. x \in [Locks -> Int]
  BY TimeAssumption DEF LockLeft, TypeOK, LockTypes
<1>2. CASE l \in IdleLocks
  <2>1. \A k \in SuspendLocks : flags'[k] = flags[k] /\ left'[k] = left[k]
    <3>1. expire_wake_lock(f, b, x, p, {})
      BY <1>2, Zenon DEF wake_lock_internal
    <3>2. \A k \in SuspendLocks : k # l /\ k \in Locks
      BY <1>2, LocksAssumption DEF Locks
    <3> QED
      BY <3>1, <3>2
      DEF expire_wake_lock, LockFlags, LockLeft, TypeOK, LockTypes
  <2>2. UNCHANGED <<timer_pending, timer_running, timer_left, suspend_work, pc,
                    events, dropped>>
    BY <1>2 DEF wake_lock_internal, timerVars
  <2>3. Permanent(flags') = Permanent(flags) /\ TimedSuspend' = TimedSuspend
    BY <2>1 DEF Permanent, TimedSuspend
  <2>4. TimerArmed => TimerArmed'
    BY <2>1, <2>2, <2>3 DEF TimerArmed, TimerCovers, TimedSuspend
  <2> QED
    BY <2>2, <2>3, <2>4 DEF SuspendArmed, Permanent, InSuspend
<1>3. CASE l \notin IdleLocks /\ timed
  <2>1. \E r \in Results :
          /\ has_wake_lock_locked(f, b, x, r)
          /\ expire_wake_lock(f, b, x, p, Expired(f, b, x))
          /\ Rearm(r)
    BY <1>3, Zenon DEF wake_lock_internal
  <2> HIDE DEF f, b, x, p
  <2> QED  BY <1>1, <2>1, RearmArms
<1>4. CASE l \notin IdleLocks /\ ~timed
  <2>1. expire_wake_lock(f, b, x, p, {})
    BY <1>4, Zenon DEF wake_lock_internal
  <2>2. l \in SuspendLocks /\ flags'[l] = "permanent"
    BY <1>4, <2>1 DEF expire_wake_lock, LockFlags, Locks, TypeOK, LockTypes
  <2> QED  BY <2>2 DEF SuspendArmed, Permanent
<1> QED
  BY <1>2, <1>3, <1>4

\* So does releasing a lock.
LEMMA ArmedUnlock ==
  ASSUME TypeOK, SuspendArmed, NEW l \in Locks, wake_unlock(l)
  PROVE  SuspendArmed'
<1> DEFINE f == [flags EXCEPT ![l] = "inactive"]
           x == [left EXCEPT ![l] = 0]
           b == list_del(before, {l})
<1>1. x \in [Locks -> Int]
  BY TimeAssumption DEF TypeOK, LockTypes
<1>2. CASE l \in IdleLocks
  <2>1. \A k \in SuspendLocks : flags'[k] = flags[k] /\ left'[k] = left[k]
    <3>1. \E p : expire_wake_lock(f, b, x, p, {})
      BY <1>2, Zenon DEF wake_unlock
    <3>2. \A k \in SuspendLocks : k # l /\ k \in Locks
      BY <1>2, LocksAssumption DEF Locks
    <3> QED
      BY <3>1, <3>2 DEF expire_wake_lock, TypeOK, LockTypes
  <2>2. UNCHANGED <<timer_pending, timer_running, timer_left, suspend_work, pc,
                    events, dropped>>
    BY <1>2 DEF wake_unlock, timerVars
  <2>3. Permanent(flags') = Permanent(flags) /\ TimedSuspend' = TimedSuspend
    BY <2>1 DEF Permanent, TimedSuspend
  <2>4. TimerArmed => TimerArmed'
    BY <2>1, <2>2, <2>3 DEF TimerArmed, TimerCovers, TimedSuspend
  <2> QED
    BY <2>2, <2>3, <2>4 DEF SuspendArmed, Permanent, InSuspend
<1>3. CASE l \notin IdleLocks
  <2>1. /\ \E p : expire_wake_lock(f, b, x, p, Expired(f, b, x))
        /\ \E r \in Results : has_wake_lock_locked(f, b, x, r) /\ Rearm(r)
    BY <1>3, Zenon DEF wake_unlock
  <2> HIDE DEF f, b, x
  <2> QED  BY <1>1, <2>1, RearmArms
<1> QED
  BY <1>2, <1>3

\* Initialising a lock disturbs neither the permanent locks nor the timer, and
\* neither does destroying one, unless it is the last that is held without a
\* time-out.
LEMMA ArmedInitDestroy ==
  ASSUME TypeOK, SuspendArmed, NEW l \in Locks,
         wake_lock_init(l) \/ wake_lock_destroy(l)
  PROVE  SuspendArmed'
<1>1. \A k \in SuspendLocks :
        /\ flags'[k] = "permanent" => flags[k] = "permanent"
        /\ flags[k] = "permanent" => flags'[k] = "permanent" \/ k = l
        /\ flags'[k] = "timed" => flags[k] = "timed" /\ left'[k] = left[k]
  BY DEF wake_lock_init, wake_lock_destroy, TypeOK, LockTypes, Locks
<1>2. UNCHANGED <<timer_pending, timer_running, timer_left, suspend_work, pc, events>>
  BY DEF wake_lock_init, wake_lock_destroy, timerVars
<1>3. SUFFICES ASSUME Permanent(flags') = {}, ~dropped'
               PROVE  /\ TimedSuspend' # {} => TimerArmed'
                      /\ TimedSuspend' = {} =>
                           \/ suspend_work' \/ timer_pending' \/ timer_running'
                           \/ pc' \in {"check", "entry", "unknown"}
                           \/ InSuspend' /\ events' = 0
  BY DEF SuspendArmed, Permanent
<1>4. ~dropped /\ (wake_lock_destroy(l) => Permanent(flags) # {l})
  <2>1. CASE wake_lock_init(l)
    <3>1. UNCHANGED dropped /\ flags[l] = "uninit"
      BY <2>1 DEF wake_lock_init, timerVars
    <3> QED  BY <1>3, <2>1, <3>1 DEF wake_lock_destroy
  <2>2. CASE wake_lock_destroy(l)
    BY <1>3, <2>2 DEF wake_lock_destroy
  <2> QED  BY <2>1, <2>2
<1>5. Permanent(flags) = {}
  <2>1. CASE wake_lock_init(l)
    <3>1. flags[l] # "permanent"
      BY <2>1 DEF wake_lock_init
    <3> QED  BY <1>1, <1>3, <3>1 DEF Permanent
  <2>2. CASE wake_lock_destroy(l)
    <3>1. Permanent(flags) \subseteq {l}
      BY <1>1, <1>3 DEF Permanent
    <3> QED  BY <1>4, <2>2, <3>1
  <2> QED  BY <2>1, <2>2
<1>6. TimerArmed => TimerArmed'
  BY <1>1, <1>2 DEF TimerArmed, TimerCovers, TimedSuspend
<1>7. TimerArmed => timer_pending \/ timer_running
  BY DEF TimerArmed
<1>8. TimedSuspend' # {} => TimedSuspend # {}
  BY <1>1 DEF TimedSuspend
<1> QED
  BY <1>2, <1>4, <1>5, <1>6, <1>7, <1>8 DEF SuspendArmed, InSuspend

\* The operations of drivers keep the core armed.
LEMMA ArmedOperation ==
  ASSUME TypeOK, SuspendArmed, Operation
  PROVE  SuspendArmed'
<1>1. {Main, Unknown} \cup Clients \cup IdleLocks \subseteq Locks
  BY DEF Locks, SuspendLocks
<1>2. 0 \in -H .. (H - 1) /\ Timeouts \subseteq -H .. (H - 1)
  BY TimeAssumption
<1>3. TRUE \in BOOLEAN /\ FALSE \in BOOLEAN
  OBVIOUS
<1> QED
  BY <1>1, <1>2, <1>3, ArmedInternal, ArmedUnlock, ArmedInitDestroy
  DEF Operation, wake_lock, wake_lock_timeout

\* Time and the timer softirq keep the core armed: the differences that are
\* compared do not change sign, and a detached handler does not undo what an
\* interrupt did before it ran.
LEMMA ArmedTimer ==
  ASSUME TypeOK, SuspendArmed, Timer
  PROVE  SuspendArmed'
<1>1. CASE Tick
  <2>1. UNCHANGED <<flags, timer_pending, timer_running, suspend_work, pc, events,
                    dropped>>
    BY <1>1 DEF Tick
  <2>2. Permanent(flags') = Permanent(flags) /\ TimedSuspend' = TimedSuspend
    BY <2>1 DEF Permanent, TimedSuspend
  <2>3. ASSUME timer_pending \/ timer_running
        PROVE  /\ timer_left' = timer_left - 1
               /\ \A l \in TimedSuspend : left[l] \in Int /\ left'[l] = left[l] - 1
    <3>1. timer_left' = timer_left - 1
      BY <1>1, <2>3 DEF Tick
    <3>2. ASSUME NEW l \in TimedSuspend
          PROVE  left[l] \in Int /\ left'[l] = left[l] - 1
      <4>1. l \in SuspendLocks /\ l \in Locks /\ flags[l] = "timed"
        BY DEF TimedSuspend, Locks
      <4>2. left[l] > -H /\ left'[l] = Wrap(left[l] - 1)
        BY <1>1, <2>3, <4>1 DEF Tick
      <4>3. left[l] \in -H .. (H - 1)
        BY <4>1 DEF TypeOK, LockTypes
      <4> QED  BY <4>2, <4>3, TimeAssumption DEF Wrap
    <3> QED  BY <3>1, <3>2
  <2>4. timer_left \in Int
    BY TimeAssumption DEF TypeOK, TimerTypes
  <2>5. TimerArmed => TimerArmed'
    <3>1. CASE timer_pending /\ TimerCovers
      BY <2>1, <2>2, <2>3, <2>4, <3>1 DEF TimerArmed, TimerCovers
    <3>2. CASE timer_running /\ \A l \in TimedSuspend : left[l] <= 0
      BY <2>1, <2>2, <2>3, <3>2 DEF TimerArmed
    <3> QED  BY <3>1, <3>2 DEF TimerArmed
  <2> QED
    BY <2>1, <2>2, <2>5 DEF SuspendArmed, Permanent, InSuspend
<1>2. CASE run_timers
  <2>1. UNCHANGED <<flags, left, timer_left, suspend_work, pc, events, dropped>>
    BY <1>2 DEF run_timers, lockVars
  <2>2. timer_running' /\ ~timer_running /\ timer_left <= 0
    BY <1>2 DEF run_timers
  <2>3. Permanent(flags') = Permanent(flags) /\ TimedSuspend' = TimedSuspend
    BY <2>1 DEF Permanent, TimedSuspend
  <2>4. timer_left \in Int /\ \A l \in TimedSuspend : left[l] \in Int
    BY TimeAssumption DEF TypeOK, TimerTypes, LockTypes, TimedSuspend, Locks
  <2>5. TimerArmed => TimerArmed'
    BY <2>1, <2>2, <2>3, <2>4 DEF TimerArmed, TimerCovers
  <2> QED
    BY <2>1, <2>2, <2>3, <2>5 DEF SuspendArmed, Permanent
<1>3. CASE expire_wake_locks
  <2>1. PICK r \in Results :
          has_wake_lock(r) /\ IF r = 0 THEN queue_work ELSE UNCHANGED suspend_work
    BY <1>3 DEF expire_wake_locks
  <2>2. SUFFICES ASSUME Permanent(flags') = {}, ~dropped
                 PROVE  /\ TimedSuspend' # {} => TimerArmed'
                        /\ TimedSuspend' = {} => suspend_work'
    BY <1>3 DEF SuspendArmed, Permanent, expire_wake_locks
  <2>3. /\ TimedSuspend # {} => TimerArmed
        /\ r # 0 => \E l \in TimedSuspend' :
                       l \in TimedSuspend /\ left[l] > 0
        /\ \A l \in TimedSuspend' : l \in TimedSuspend /\ left'[l] = left[l]
        /\ r = 0 => TimedSuspend' = {}
    BY <2>1, <2>2, ScanKeepsArmed
  <2>4. CASE r = 0
    BY <2>1, <2>3, <2>4 DEF queue_work
  <2>5. CASE r # 0
    <3>1. PICK l \in TimedSuspend' : l \in TimedSuspend /\ left[l] > 0
      BY <2>3, <2>5
    <3>2. left[l] \in Int
      BY <3>1, TimeAssumption DEF TypeOK, LockTypes, TimedSuspend, Locks
    <3>3. timer_pending /\ TimerCovers
      BY <2>3, <3>1, <3>2 DEF TimerArmed
    <3>4. UNCHANGED <<timer_pending, timer_left>>
      BY <1>3, <3>3 DEF expire_wake_locks
    <3>5. TimerArmed'
      BY <2>3, <3>3, <3>4 DEF TimerArmed, TimerCovers
    <3> QED  BY <3>1, <3>5
  <2> QED  BY <2>4, <2>5
<1> QED
  BY <1>1, <1>2, <1>3 DEF Timer

\* The steps of suspend() keep the core armed: it returns to its thread only
\* when the timer is armed, when an event was counted, or after taking
\* unknown_wakeup.
LEMMA ArmedSuspend ==
  ASSUME TypeOK, SuspendArmed, Suspend
  PROVE  SuspendArmed'
<1>1. ASSUME UNCHANGED <<lockVars, timerVars>>,
             \/ suspend_work'
             \/ pc' \in {"check", "entry", "unknown"}
             \/ pc' # "idle" /\ events' = 0
             \/ pc = "exit" /\ events # 0 /\ UNCHANGED suspend_work
             \/ /\ pc \notin {"check", "entry", "unknown"}
                /\ pc' # "idle" /\ UNCHANGED <<events, suspend_work>>
      PROVE  SuspendArmed'
  <2>1. Permanent(flags') = Permanent(flags) /\ TimedSuspend' = TimedSuspend
    BY <1>1 DEF Permanent, TimedSuspend, lockVars
  <2>2. TimerArmed => TimerArmed'
    BY <1>1, <2>1 DEF TimerArmed, TimerCovers, lockVars, timerVars
  <2> QED
    BY <1>1, <2>1, <2>2 DEF SuspendArmed, Permanent, InSuspend, timerVars
<1>2. ASSUME NEW r, has_wake_lock(r), UNCHANGED <<timerVars, suspend_work, events>>,
             \/ pc = "check" /\ pc' = IF r = 0 THEN "entry" ELSE "idle"
             \/ /\ pc \notin {"check", "entry", "unknown"} /\ pc' # "idle"
      PROVE  SuspendArmed'
  <2>1. SUFFICES ASSUME Permanent(flags') = {}, ~dropped
                 PROVE  /\ TimedSuspend' # {} => TimerArmed'
                        /\ TimedSuspend' = {} =>
                             \/ suspend_work' \/ timer_pending' \/ timer_running'
                             \/ pc' \in {"check", "entry", "unknown"}
                             \/ InSuspend' /\ events' = 0
    BY <1>2 DEF SuspendArmed, Permanent, timerVars
  <2>2. /\ Permanent(flags) = {}
        /\ TimedSuspend # {} => TimerArmed
        /\ r # 0 => \E l \in TimedSuspend' : l \in TimedSuspend
        /\ \A l \in TimedSuspend' : l \in TimedSuspend /\ left'[l] = left[l]
    BY <1>2, <2>1, ScanKeepsArmed
  <2>3. TimerArmed => TimerArmed'
    BY <1>2, <2>2 DEF TimerArmed, TimerCovers, timerVars
  <2>4. TimerArmed => timer_pending' \/ timer_running'
    BY <1>2 DEF TimerArmed, timerVars
  <2>5. TimedSuspend' # {} => TimerArmed'
    BY <2>2, <2>3
  <2>6. TimedSuspend = {} =>
           \/ suspend_work \/ timer_pending \/ timer_running
           \/ pc \in {"check", "entry", "unknown"}
           \/ InSuspend /\ events = 0
    BY <2>1, <2>2 DEF SuspendArmed
  <2> QED
    BY <1>2, <2>2, <2>4, <2>5, <2>6 DEF InSuspend, timerVars
<1>3. CASE suspend_unknown
  <2>1. Unknown \in Locks /\ Unknown \notin IdleLocks /\ HalfSecond \in -H .. (H - 1)
    BY TimeAssumption, LocksAssumption DEF Locks, SuspendLocks
  <2> QED  BY <1>3, <2>1, ArmedInternal DEF suspend_unknown
<1>4. CASE suspend_check \/ try_to_freeze_tasks \/ power_suspend_late
  BY <1>2, <1>4
  DEF suspend_check, try_to_freeze_tasks, power_suspend_late, Worker
<1>5. CASE run_workqueue \/ suspend_entry \/ suspend_exit
  BY <1>1, <1>5 DEF run_workqueue, suspend_entry, suspend_exit, Worker
<1>6. CASE \/ suspend_prepare \/ tasks_frozen \/ suspend_devices
           \/ pm_suspend_fails \/ pm_enter \/ pm_wake
  BY <1>1, <1>6 DEF suspend_prepare, tasks_frozen, suspend_devices,
                    pm_suspend_fails, pm_enter, pm_wake, Worker
<1> QED
  BY <1>3, <1>4, <1>5, <1>6, Zenon DEF Suspend

\* No request to sleep is lost, for any number of locks and any time-outs, but by
\* the destruction of the last lock held for good: in every other reachable state
\* with no lock held for good, somebody will look again.
THEOREM NeverDisarmed == Spec => []SuspendArmed
<1>1. Init => SuspendArmed
  <2> SUFFICES ASSUME Init PROVE Main \in Permanent(flags)
    BY DEF SuspendArmed
  <2> QED  BY DEF Init, Permanent, Locks, SuspendLocks
<1>2. TypeOK /\ SuspendArmed /\ [Next]_vars => SuspendArmed'
  <2> SUFFICES ASSUME TypeOK, SuspendArmed, [Next]_vars PROVE SuspendArmed'
    OBVIOUS
  <2>1. CASE Next
    BY <2>1, ArmedOperation, ArmedTimer, ArmedSuspend DEF Next
  <2>2. CASE UNCHANGED vars
    BY <2>2 DEF vars, SuspendArmed, Permanent, TimedSuspend, TimerArmed,
                TimerCovers, InSuspend
  <2> QED  BY <2>1, <2>2
<1> QED
  BY <1>1, <1>2, TypeCorrect, PTL DEF Spec

-----------------------------------------------------------------------------
(* Refinement.                                                             *)

\* Every step of the core is a step of SuspendBlocker or leaves it alone.
LEMMA BlockerStep ==
  ASSUME TypeOK, SleepInv, [Next]_vars
  PROVE  [Blocker!Next]_(Blocker!vars)
<1> USE DEF Blocker!Next, Blocker!vars, Blocker!Change, Blocker!Attempt,
            Blocker!Abort, Blocker!Sleep, Blocker!Wake
<1>1. Live \in SUBSET SuspendLocks /\ Live' \in SUBSET SuspendLocks
  BY DEF Live
<1>2. ASSUME UNCHANGED pc, pc # "asleep"
      PROVE  Blocker!Change
  BY <1>1, <1>2 DEF Phase
<1>3. ASSUME Live' = Live, pc # "asleep" \/ pc' = "exit",
             pc' # "asleep" \/ (pc = "late" /\ Live = {})
      PROVE  [Blocker!Next]_(Blocker!vars)
  <2>1. CASE pc = "asleep"
    BY <1>3, <2>1 DEF Phase
  <2>2. CASE pc' = "asleep"
    BY <1>3, <2>2 DEF Phase
  <2>3. CASE pc # "asleep" /\ pc' # "asleep"
    <3>1. Phase \in {"awake", "attempting"} /\ Phase' \in {"awake", "attempting"}
      BY <2>3 DEF Phase
    <3> QED  BY <1>3, <3>1
  <2> QED  BY <2>1, <2>2, <2>3
<1>4. CASE Operation
  <2>1. UNCHANGED pc /\ pc # "asleep"
    BY <1>4 DEF Operation, wake_lock, wake_unlock, wake_lock_timeout,
                wake_lock_init, wake_lock_destroy, IrqsOff
  <2> QED  BY <1>2, <2>1
<1>5. CASE Timer
  <2>1. UNCHANGED pc /\ pc # "asleep"
    BY <1>5 DEF Timer, Tick, run_timers, expire_wake_locks, IrqsOff, SleepInv
  <2> QED  BY <1>2, <2>1
<1>6. CASE Suspend
  <2>1. CASE suspend_unknown
    <3>1. Phase = "awake" /\ Phase' = "awake"
      BY <2>1 DEF suspend_unknown, Worker, Phase
    <3> QED  BY <1>1, <3>1
  <2>2. CASE suspend_check \/ try_to_freeze_tasks \/ power_suspend_late
    <3>1. PICK r \in Results : has_wake_lock(r)
      BY <2>2 DEF suspend_check, try_to_freeze_tasks, power_suspend_late
    <3>2. Live' = Live
      BY <3>1, ScanKeepsLive
    <3>3. pc # "asleep" /\ pc' # "asleep"
      BY <2>2 DEF suspend_check, try_to_freeze_tasks, power_suspend_late, Worker
    <3> QED  BY <1>3, <3>2, <3>3
  <2>3. CASE \/ run_workqueue \/ suspend_entry \/ suspend_prepare
             \/ tasks_frozen \/ suspend_devices \/ pm_suspend_fails
             \/ pm_enter \/ pm_wake \/ suspend_exit
    <3>1. Live' = Live
      BY <2>3
      DEF Live, lockVars, run_workqueue, suspend_entry, suspend_prepare,
          tasks_frozen, suspend_devices, pm_suspend_fails, pm_enter, pm_wake,
          suspend_exit
    <3>2. /\ pc # "asleep" \/ pc' = "exit"
          /\ pc' # "asleep" \/ (pc = "late" /\ Live = {})
      BY <2>3
      DEF SleepInv, Worker, run_workqueue, suspend_entry, suspend_prepare,
          tasks_frozen, suspend_devices, pm_suspend_fails, pm_enter, pm_wake,
          suspend_exit
    <3> QED  BY <1>3, <3>1, <3>2
  <2> QED  BY <1>6, <2>1, <2>2, <2>3, Zenon DEF Suspend
<1>7. CASE UNCHANGED vars
  BY <1>7 DEF vars, Live, Phase
<1> QED
  BY <1>4, <1>5, <1>6, <1>7 DEF Next

\* The core implements the safety part of SuspendBlocker, what the header and
\* the Kconfig entry promise; TLC checks the liveness part.
THEOREM CoreImplementsBlocker == Spec => Blocker!SafeSpec
<1>1. Init => Blocker!Init
  BY DEF Init, Blocker!Init, Live, Phase
<1>2. TypeOK /\ SleepInv /\ [Next]_vars => [Blocker!Next]_(Blocker!vars)
  BY BlockerStep
<1> QED
  BY <1>1, <1>2, SleepInvariant, PTL DEF Spec, Blocker!SafeSpec


-----------------------------------------------------------------------------
(* Who ends a lock.                                                        *)

\* A lock that a lock table (f, x) holds.
HeldIn(f, x, l) == f[l] = "permanent" \/ (f[l] = "timed" /\ x[l] > 0)

\* A scan moves expired locks only.
LEMMA ExpireKeeps ==
  ASSUME NEW f, NEW b, NEW x \in [Locks -> Int], NEW p, NEW E,
         expire_wake_lock(f, b, x, p, E),
         \A e \in E : f[e] = "timed" /\ x[e] <= 0,
         NEW l \in SuspendLocks, HeldIn(f, x, l)
  PROVE  l \in Live'
<1>1. l \in Locks /\ l \notin E /\ x[l] \in Int
  BY DEF HeldIn, Locks
<1>2. flags'[l] = f[l] /\ left'[l] = x[l]
  BY <1>1 DEF expire_wake_lock
<1> QED
  BY <1>2 DEF HeldIn, Live

\* The locks that has_wake_lock_locked expires have run out.
LEMMA ExpiredOnly ==
  ASSUME NEW f, NEW b, NEW x, NEW e \in Expired(f, b, x)
  PROVE  f[e] = "timed" /\ x[e] <= 0
BY DEF Expired, Visited

\* Taking a lock ends no other lock, and not the lock itself unless it is given
\* a time-out that has run out already.
LEMMA InternalKeeps ==
  ASSUME TypeOK, NEW k \in Locks, NEW t \in -H .. (H - 1), NEW timed \in BOOLEAN,
         wake_lock_internal(k, t, timed),
         NEW l \in Live, l # k \/ ~timed \/ t > 0
  PROVE  l \in Live'
<1> DEFINE f == LockFlags(k, timed)
           x == LockLeft(k, t, timed)
           b == Relist(k, timed)
           p == LockPreventing(k, f, x)
<1>1. x \in [Locks -> Int]
  BY TimeAssumption DEF LockLeft, TypeOK, LockTypes
<1>2. l \in SuspendLocks /\ HeldIn(f, x, l)
  BY DEF Live, HeldIn, LockFlags, LockLeft, TypeOK, LockTypes, Locks
<1>3. \/ expire_wake_lock(f, b, x, p, {})
      \/ expire_wake_lock(f, b, x, p, Expired(f, b, x))
  BY Zenon DEF wake_lock_internal
<1> HIDE DEF f, x, b, p
<1> QED
  BY <1>1, <1>2, <1>3, ExpireKeeps, ExpiredOnly

\* Releasing a lock ends no other lock.
LEMMA UnlockKeeps ==
  ASSUME TypeOK, NEW k \in Locks, wake_unlock(k), NEW l \in Live, l # k
  PROVE  l \in Live'
<1> DEFINE f == [flags EXCEPT ![k] = "inactive"]
           x == [left EXCEPT ![k] = 0]
           b == list_del(before, {k})
<1>1. x \in [Locks -> Int]
  BY TimeAssumption DEF TypeOK, LockTypes
<1>2. l \in SuspendLocks /\ HeldIn(f, x, l)
  BY DEF Live, HeldIn, TypeOK, LockTypes, Locks
<1>3. \E p : \/ expire_wake_lock(f, b, x, p, {})
             \/ expire_wake_lock(f, b, x, p, Expired(f, b, x))
  BY Zenon DEF wake_unlock
<1> HIDE DEF f, x, b
<1> QED
  BY <1>1, <1>2, <1>3, ExpireKeeps, ExpiredOnly

\* The steps of suspend() end no lock.
LEMMA SuspendKeeps ==
  ASSUME TypeOK, Suspend, NEW l \in Live
  PROVE  l \in Live'
<1>1. CASE suspend_unknown
  <2>1. wake_lock_internal(Unknown, HalfSecond, TRUE)
    BY <1>1 DEF suspend_unknown
  <2>2. Unknown \in Locks /\ HalfSecond \in -H .. (H - 1) /\ HalfSecond > 0
    BY TimeAssumption DEF Locks, SuspendLocks
  <2> QED
    BY <2>1, <2>2, InternalKeeps
<1>2. CASE suspend_check \/ try_to_freeze_tasks \/ power_suspend_late
  <2>1. PICK r \in Results : has_wake_lock(r)
    BY <1>2 DEF suspend_check, try_to_freeze_tasks, power_suspend_late
  <2> QED
    BY <2>1, ScanKeepsLive
<1>3. CASE \/ run_workqueue \/ suspend_entry \/ suspend_prepare
           \/ tasks_frozen \/ suspend_devices \/ pm_suspend_fails
           \/ pm_enter \/ pm_wake \/ suspend_exit
  BY <1>3
  DEF Live, lockVars, run_workqueue, suspend_entry, suspend_prepare,
      tasks_frozen, suspend_devices, pm_suspend_fails, pm_enter, pm_wake,
      suspend_exit
<1> QED
  BY <1>1, <1>2, <1>3, Zenon DEF Suspend

\* A lock ends by an operation on that lock or because time passes.
LEMMA OwnerStep ==
  ASSUME TypeOK, [Next]_vars, NEW l \in Live, l \notin Live'
  PROVE  \/ Tick
         \/ wake_unlock(l) \/ wake_lock_destroy(l)
         \/ \E t \in Timeouts : wake_lock_timeout(l, t)
<1>1. {Main, Unknown} \cup Clients \cup IdleLocks \subseteq Locks
  BY DEF Locks, SuspendLocks
<1>2. 0 \in -H .. (H - 1) /\ Timeouts \subseteq -H .. (H - 1)
  BY TimeAssumption
<1>3. ASSUME NEW k \in Locks, wake_lock(k)
      PROVE  FALSE
  BY <1>2, <1>3, InternalKeeps DEF wake_lock
<1>4. ASSUME NEW k \in Locks, wake_unlock(k)
      PROVE  k = l
  BY <1>4, UnlockKeeps
<1>5. ASSUME NEW k \in Locks, NEW t \in Timeouts, wake_lock_timeout(k, t)
      PROVE  k = l
  BY <1>2, <1>5, InternalKeeps DEF wake_lock_timeout
<1>6. ASSUME NEW k \in Locks, wake_lock_init(k) \/ wake_lock_destroy(k)
      PROVE  k = l /\ wake_lock_destroy(k)
  BY <1>6
  DEF wake_lock_init, wake_lock_destroy, Live, TypeOK, LockTypes, Locks
<1>7. CASE Operation
  BY <1>1, <1>3, <1>4, <1>5, <1>6, <1>7 DEF Operation
<1>8. CASE Timer
  <2>1. ASSUME run_timers PROVE FALSE
    BY <2>1 DEF run_timers, lockVars, Live
  <2>2. ASSUME expire_wake_locks PROVE FALSE
    <3>1. PICK r \in Results : has_wake_lock(r)
      BY <2>2 DEF expire_wake_locks
    <3> QED
      BY <3>1, ScanKeepsLive
  <2> QED
    BY <1>8, <2>1, <2>2 DEF Timer
<1>9. CASE Suspend
  BY <1>9, SuspendKeeps
<1>10. CASE UNCHANGED vars
  BY <1>10 DEF vars, Live
<1> QED
  BY <1>7, <1>8, <1>9, <1>10 DEF Next

\* No scan, no operation on another lock and no step of suspend() lets go of a
\* lock that is held (wakelock.c:245-262, 400-525).
THEOREM OwnersRelease == Spec => OnlyOwnerReleases
<1>1. TypeOK /\ [Next]_vars =>
        [\A l \in Live : l \notin Live' =>
           \/ Tick
           \/ wake_unlock(l) \/ wake_lock_destroy(l)
           \/ \E t \in Timeouts : wake_lock_timeout(l, t)]_vars
  BY OwnerStep
<1> QED
  BY <1>1, TypeCorrect, PTL DEF Spec, OnlyOwnerReleases

-----------------------------------------------------------------------------
(* Which locks are charged.                                                *)

\* What PreventingCharged says of a lock table (f) and its charges (p), and
\* that main_wake_lock is never held with a time-out.
ChargedIn(f, p) ==
  /\ p \subseteq ActiveIn(f, SuspendLocks)
  /\ f[Main] \in {"permanent", "inactive"}
  /\ f[Main] = "permanent" => p = {}
  /\ f[Main] = "inactive" => Permanent(f) \subseteq p

\* Moving timed locks to inactive_locks keeps the account.
LEMMA ChargeExpire ==
  ASSUME NEW f, NEW b, NEW x, NEW p, NEW E, expire_wake_lock(f, b, x, p, E),
         \A e \in E : f[e] = "timed", ChargedIn(f, p)
  PROVE  ChargedIn(flags', preventing')
<1>1. \A k \in SuspendLocks : flags'[k] = IF k \in E THEN "inactive" ELSE f[k]
  BY DEF expire_wake_lock, Locks
<1>2. preventing' = p \ E
  BY DEF expire_wake_lock
<1>3. Main \in SuspendLocks /\ Main \notin E
  BY DEF SuspendLocks, ChargedIn
<1>4. preventing' \subseteq ActiveIn(flags', SuspendLocks)
  BY <1>1, <1>2 DEF ChargedIn, ActiveIn
<1>5. Permanent(flags') = Permanent(f) /\ Permanent(f) \cap E = {}
  BY <1>1 DEF Permanent
<1> QED
  BY <1>1, <1>2, <1>3, <1>4, <1>5 DEF ChargedIn

\* Counting anew charges the locks on the list that have not run out.
LEMMA ChargeUpdate ==
  ASSUME NEW f, NEW x, NEW p, NEW done \in BOOLEAN,
         p \subseteq ActiveIn(f, SuspendLocks)
  PROVE  LET q == update_sleep_wait_stats_locked(f, x, p, done)
         IN  /\ q \subseteq ActiveIn(f, SuspendLocks)
             /\ done => q = {}
             /\ ~done => Permanent(f) \subseteq q
BY DEF update_sleep_wait_stats_locked, ActiveIn, IsActive, Permanent

\* Taking a lock keeps the account.
LEMMA InternalCharge ==
  ASSUME TypeOK, ChargedIn(flags, preventing), NEW l \in Locks, NEW t,
         NEW timed \in BOOLEAN, l = Main => ~timed,
         wake_lock_internal(l, t, timed)
  PROVE  ChargedIn(flags', preventing')
<1> DEFINE f == LockFlags(l, timed)
           x == LockLeft(l, t, timed)
           b == Relist(l, timed)
           p == LockPreventing(l, f, x)
           p0 == preventing \ {k \in {l} : IsExpired(k)}
<1>0. Main \in SuspendLocks /\ Main \in Locks /\ Main \notin IdleLocks
  BY LocksAssumption DEF SuspendLocks, Locks
<1>1. \A k \in Locks : f[k] = IF k = l THEN IF timed THEN "timed" ELSE "permanent"
                                      ELSE flags[k]
  BY DEF LockFlags, TypeOK, LockTypes
<1>2. p0 \subseteq ActiveIn(f, SuspendLocks) /\ p0 \subseteq preventing
  BY <1>1 DEF ChargedIn, ActiveIn, IsActive, Locks
<1>3. ChargedIn(f, p)
  <2>1. CASE l \in IdleLocks
    <3>1. \A k \in SuspendLocks : f[k] = flags[k]
      BY <1>1, <2>1, LocksAssumption DEF Locks
    <3>2. p = preventing
      BY <2>1, LocksAssumption DEF LockPreventing, TypeOK, LockTypes
    <3> QED
      BY <1>0, <3>1, <3>2 DEF ChargedIn, ActiveIn, Permanent
  <2>2. CASE l \notin IdleLocks /\ l # Main /\ flags[Main] = "permanent"
    <3>1. f[Main] = "permanent" /\ p = p0
      BY <1>0, <1>1, <2>2 DEF LockPreventing, IsActive
    <3> QED
      BY <1>2, <2>2, <3>1 DEF ChargedIn
  <2>3. CASE l \notin IdleLocks /\ l # Main /\ flags[Main] = "inactive"
    <3>1. f[Main] = "inactive"
      BY <1>0, <1>1, <2>3
    <3>2. p = update_sleep_wait_stats_locked(f, x, p0, FALSE)
      BY <2>3, <3>1 DEF LockPreventing, IsActive
    <3> HIDE DEF f, x, p0, p
    <3> QED
      BY <1>2, <3>1, <3>2, ChargeUpdate DEF ChargedIn
  <2>4. CASE l = Main
    <3>1. f[Main] = "permanent"
      BY <1>0, <1>1, <2>4
    <3>2. p = update_sleep_wait_stats_locked(f, x, p0, TRUE)
      BY <1>0, <2>4 DEF LockPreventing
    <3> HIDE DEF f, x, p0, p
    <3> QED
      BY <1>2, <3>1, <3>2, ChargeUpdate DEF ChargedIn
  <2> QED
    BY <2>1, <2>2, <2>3, <2>4 DEF ChargedIn
<1>4. \/ expire_wake_lock(f, b, x, p, {})
      \/ expire_wake_lock(f, b, x, p, Expired(f, b, x))
  BY Zenon DEF wake_lock_internal
<1> HIDE DEF f, x, b, p
<1> QED
  BY <1>3, <1>4, ChargeExpire, ExpiredOnly

\* Releasing a lock keeps the account.
LEMMA UnlockCharge ==
  ASSUME TypeOK, ChargedIn(flags, preventing), NEW l \in Locks, wake_unlock(l)
  PROVE  ChargedIn(flags', preventing')
<1> DEFINE f == [flags EXCEPT ![l] = "inactive"]
           x == [left EXCEPT ![l] = 0]
           b == list_del(before, {l})
<1>0. Main \in SuspendLocks /\ Main \in Locks /\ Main \notin IdleLocks
  BY LocksAssumption DEF SuspendLocks, Locks
<1>1. PICK E : /\ E = {} \/ E = Expired(f, b, x)
               /\ expire_wake_lock(f, b, x, UnlockPreventing(l, f, x, E), E)
  BY Zenon DEF wake_unlock
<1>2. \A e \in E : f[e] = "timed"
  <2> HIDE DEF f, b, x
  <2> QED
    BY <1>1, ExpiredOnly
<1>3. \A k \in Locks : f[k] = IF k = l THEN "inactive" ELSE flags[k]
  BY DEF TypeOK, LockTypes
<1>4. flags' = [k \in Locks |-> IF k \in E THEN "inactive" ELSE f[k]]
  BY <1>1 DEF expire_wake_lock
<1>5. preventing' = UnlockPreventing(l, f, x, E) \ E
  BY <1>1 DEF expire_wake_lock
<1> HIDE DEF f, b, x
<1>6. preventing \ ({l} \cup E) \subseteq ActiveIn(flags', SuspendLocks)
  BY <1>3, <1>4 DEF ChargedIn, ActiveIn, Locks
<1>7. Permanent(flags') \cap ({l} \cup E) = {}
  BY <1>3, <1>4 DEF Permanent, Locks
<1>8. CASE l = Main
  <2>1. flags'[Main] = "inactive"
    BY <1>0, <1>2, <1>3, <1>4, <1>8
  <2>2. UnlockPreventing(l, f, x, E) =
          update_sleep_wait_stats_locked(flags', x, preventing \ ({l} \cup E), FALSE)
    BY <1>4, <1>8 DEF UnlockPreventing
  <2>3. /\ UnlockPreventing(l, f, x, E) \subseteq ActiveIn(flags', SuspendLocks)
        /\ Permanent(flags') \subseteq UnlockPreventing(l, f, x, E)
    BY <1>6, <2>2
    DEF update_sleep_wait_stats_locked, ActiveIn, IsActive, Permanent
  <2> QED
    BY <1>5, <1>7, <2>1, <2>3 DEF ChargedIn
<1>9. CASE l # Main
  <2>1. flags'[Main] = flags[Main]
    BY <1>0, <1>2, <1>3, <1>4, <1>9 DEF ChargedIn
  <2>2. preventing' = preventing \ ({l} \cup E)
    BY <1>5, <1>9 DEF UnlockPreventing
  <2>3. Permanent(flags') \subseteq Permanent(flags)
    BY <1>3, <1>4 DEF Permanent, Locks
  <2> QED
    BY <1>6, <1>7, <2>1, <2>2, <2>3 DEF ChargedIn
<1> QED
  BY <1>8, <1>9

\* Every step keeps the account.
LEMMA ChargeStep ==
  ASSUME TypeOK, ChargedIn(flags, preventing), [Next]_vars
  PROVE  ChargedIn(flags', preventing')
<1>1. {Main, Unknown} \cup Clients \cup IdleLocks \subseteq Locks
  BY DEF Locks, SuspendLocks
<1>2. Main \notin Clients \cup IdleLocks /\ Main # Unknown /\ Main \in SuspendLocks
  BY LocksAssumption DEF SuspendLocks
<1>3. ASSUME NEW r \in Results, has_wake_lock(r)
      PROVE  ChargedIn(flags', preventing')
  BY <1>3, ChargeExpire, ExpiredOnly DEF has_wake_lock
<1>4. ASSUME UNCHANGED lockVars
      PROVE  ChargedIn(flags', preventing')
  BY <1>4 DEF lockVars
<1>5. CASE Operation
  <2>1. ASSUME NEW l \in {Main} \cup Clients \cup IdleLocks, wake_lock(l)
        PROVE  ChargedIn(flags', preventing')
    BY <1>1, <1>2, <2>1, InternalCharge DEF wake_lock
  <2>2. ASSUME NEW l \in {Main} \cup Clients \cup IdleLocks, wake_unlock(l)
        PROVE  ChargedIn(flags', preventing')
    BY <1>1, <2>2, UnlockCharge
  <2>3. ASSUME NEW l \in Clients \cup IdleLocks, NEW t \in Timeouts,
               wake_lock_timeout(l, t)
        PROVE  ChargedIn(flags', preventing')
    BY <1>1, <1>2, <2>3, InternalCharge DEF wake_lock_timeout
  <2>4. ASSUME NEW l \in Clients \cup IdleLocks,
               wake_lock_init(l) \/ wake_lock_destroy(l)
        PROVE  ChargedIn(flags', preventing')
    <3>1. /\ \A k \in Locks \ {l} : flags'[k] = flags[k]
          /\ flags'[l] \in {"inactive", "uninit"}
          /\ \/ preventing' = preventing /\ flags[l] = "uninit"
             \/ preventing' = preventing \ {l}
      BY <1>1, <2>4 DEF wake_lock_init, wake_lock_destroy, TypeOK, LockTypes
    <3>2. SuspendLocks \subseteq Locks /\ Main \in Locks \ {l}
      BY <1>1, <1>2 DEF Locks
    <3>3. preventing' \subseteq ActiveIn(flags', SuspendLocks)
      BY <3>1, <3>2 DEF ChargedIn, ActiveIn, IsActive
    <3>4. Permanent(flags') \subseteq Permanent(flags) \ {l}
      BY <3>1, <3>2 DEF Permanent
    <3> QED
      BY <3>1, <3>2, <3>3, <3>4 DEF ChargedIn
  <2> QED
    BY <1>5, <2>1, <2>2, <2>3, <2>4 DEF Operation
<1>6. CASE Timer
  <2>1. \/ UNCHANGED <<flags, preventing>>
        \/ \E r \in Results : has_wake_lock(r)
    BY <1>6 DEF Timer, Tick, run_timers, expire_wake_locks, lockVars
  <2> QED
    BY <1>3, <2>1
<1>7. CASE Suspend
  <2>1. CASE suspend_unknown
    <3>1. wake_lock_internal(Unknown, HalfSecond, TRUE)
      BY <2>1 DEF suspend_unknown
    <3> QED
      BY <1>1, <1>2, <3>1, InternalCharge
  <2>2. CASE suspend_check \/ try_to_freeze_tasks \/ power_suspend_late
    BY <1>3, <2>2 DEF suspend_check, try_to_freeze_tasks, power_suspend_late
  <2>3. CASE \/ run_workqueue \/ suspend_entry \/ suspend_prepare
             \/ tasks_frozen \/ suspend_devices \/ pm_suspend_fails
             \/ pm_enter \/ pm_wake \/ suspend_exit
    BY <1>4, <2>3
    DEF run_workqueue, suspend_entry, suspend_prepare, tasks_frozen,
        suspend_devices, pm_suspend_fails, pm_enter, pm_wake, suspend_exit
  <2> QED
    BY <1>7, <2>1, <2>2, <2>3, Zenon DEF Suspend
<1>8. CASE UNCHANGED vars
  BY <1>4, <1>8 DEF vars, lockVars
<1> QED
  BY <1>5, <1>6, <1>7, <1>8 DEF Next

\* While the user wants the system on no lock is charged with preventing
\* suspend, and while he does not every lock held without a time-out is,
\* whichever of the five places that touch the flag ran last.
THEOREM ChargesCorrect == Spec => []PreventingCharged
<1>1. Init => ChargedIn(flags, preventing)
  BY LocksAssumption
  DEF Init, ChargedIn, ActiveIn, IsActive, Permanent, Locks, SuspendLocks
<1>2. /\ TypeOK /\ ChargedIn(flags, preventing) /\ [Next]_vars
      => ChargedIn(flags, preventing)'
  BY ChargeStep
<1>3. ChargedIn(flags, preventing) => PreventingCharged
  BY DEF ChargedIn, PreventingCharged
<1> QED
  BY <1>1, <1>2, <1>3, TypeCorrect, PTL DEF Spec
=============================================================================
