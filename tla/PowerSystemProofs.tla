-------------------------- MODULE PowerSystemProofs -------------------------
(***************************************************************************)
(* The composition of early suspend with the wake-lock core: its steps are *)
(* steps of each of the two modules, so what is proved of them in          *)
(* EarlySuspendProofs and WakeLockProofs holds of the whole, and the views *)
(* they have of the shared state agree.                                    *)
(***************************************************************************)
EXTENDS PowerSystem, TLAPS

ESP == INSTANCE EarlySuspendProofs

WLP == INSTANCE WakeLockProofs WITH pc <- wl_pc

-----------------------------------------------------------------------------
(* The instances with the proofs are the instances of the composition.     *)

\* The assumptions of the two modules are those of the composition.
LEMMA EarlyAssumptions == ESP!LevelAssumption /\ ESP!HandlersAssumption
BY HandlersAssumption DEF ESP!LevelAssumption, ESP!HandlersAssumption

LEMMA CoreAssumptions == WLP!LocksAssumption /\ WLP!TimeAssumption
BY LocksAssumption, TimeAssumption
DEF WLP!LocksAssumption, WLP!TimeAssumption, WLP!SuspendLocks

LEMMA SameEarlyStates ==
  /\ ES!Init <=> ESP!Init
  /\ ES!TypeOK <=> ESP!TypeOK
  /\ ES!OnMeansHeld <=> ESP!OnMeansHeld
  /\ ES!AsleepMeansDown <=> ESP!AsleepMeansDown
  /\ ES!vars = ESP!vars
BY DEF ES!Init, ESP!Init, ES!TypeOK, ESP!TypeOK, ES!Works, ESP!Works,
       ES!Places, ESP!Places, ES!Free, ESP!Free, ES!Worker, ESP!Worker,
       ES!OnMeansHeld, ESP!OnMeansHeld, ES!AsleepMeansDown,
       ESP!AsleepMeansDown, ES!Listed, ESP!Listed, ES!vars, ESP!vars

LEMMA SameEarlySteps == [ES!Next]_(ES!vars) <=> [ESP!Next]_(ESP!vars)
BY DEF ES!state_store, ES!request_suspend_state, ES!queue_work,
         ES!valid_states, ES!Awake, ES!Registration,
         ES!register_early_suspend, ES!register_call,
         ES!unregister_early_suspend, ES!Listed, ES!Free, ES!Worker,
         ES!Insert, ES!Insertion, ES!list_del, ES!requestVars, ES!Work,
         ES!run_workqueue, ES!early_suspend, ES!early_suspend_call,
         ES!early_suspend_done, ES!late_resume, ES!late_resume_call,
         ES!suspend, ES!pm_suspend, ES!queue_suspend, ES!Queued, ES!wake,
         ES!Request, ES!Next, ES!vars, ESP!state_store,
         ESP!request_suspend_state, ESP!queue_work, ESP!valid_states,
         ESP!Awake, ESP!Registration, ESP!register_early_suspend,
         ESP!register_call, ESP!unregister_early_suspend, ESP!Listed,
         ESP!Free, ESP!Worker, ESP!Insert, ESP!Insertion, ESP!list_del,
         ESP!requestVars, ESP!Work, ESP!run_workqueue, ESP!early_suspend,
         ESP!early_suspend_call, ESP!early_suspend_done, ESP!late_resume,
         ESP!late_resume_call, ESP!suspend, ESP!pm_suspend, ESP!queue_suspend,
         ESP!Queued, ESP!wake, ESP!Request, ESP!Next, ESP!vars

LEMMA SameCoreStates ==
  /\ WL!Init <=> WLP!Init
  /\ WL!TypeOK <=> WLP!TypeOK
  /\ WL!NoSleepWhileHeld <=> WLP!NoSleepWhileHeld
  /\ WL!vars = WLP!vars
BY DEF WL!Init, WLP!Init, WL!TypeOK, WLP!TypeOK, WL!LockTypes, WLP!LockTypes,
       WL!TimerTypes, WLP!TimerTypes, WL!WorkerTypes, WLP!WorkerTypes,
       WL!Places, WLP!Places, WL!Modes, WLP!Modes, WL!Locks, WLP!Locks,
       WL!SuspendLocks, WLP!SuspendLocks, WL!NoSleepWhileHeld,
       WLP!NoSleepWhileHeld, WL!Live, WLP!Live, WL!vars, WLP!vars

LEMMA SameCoreSteps == [WL!Next]_(WL!vars) <=> [WLP!Next]_(WLP!vars)
BY DEF WL!Next, WL!Operation, WL!Timer, WL!Suspend, WL!wake_lock,
         WL!wake_unlock, WL!wake_lock_init, WL!wake_lock_destroy,
         WL!wake_lock_timeout, WL!wake_lock_internal, WL!LockFlags,
         WL!LockLeft, WL!Relist, WL!LockPreventing, WL!IsExpired,
         WL!update_sleep_wait_stats_locked, WL!ActiveIn, WL!IsActive,
         WL!SameType, WL!SuspendLocks, WL!Locks, WL!list_del, WL!Visited,
         WL!Permanent, WL!Expired, WL!has_wake_lock_locked, WL!Results,
         WL!expire_wake_lock, WL!has_wake_lock, WL!mod_timer, WL!del_timer,
         WL!queue_work, WL!Rearm, WL!timerVars, WL!lockVars, WL!CountEvent,
         WL!UnlockPreventing, WL!IrqsOff, WL!Wrap, WL!Tick, WL!run_timers,
         WL!expire_wake_locks, WL!Worker, WL!run_workqueue, WL!suspend_check,
         WL!suspend_entry, WL!suspend_prepare, WL!try_to_freeze_tasks,
         WL!tasks_frozen, WL!suspend_devices, WL!pm_suspend_fails,
         WL!power_suspend_late, WL!pm_enter, WL!pm_wake, WL!suspend_exit,
         WL!suspend_unknown, WL!vars, WLP!Next, WLP!Operation, WLP!Timer,
         WLP!Suspend, WLP!wake_lock, WLP!wake_unlock, WLP!wake_lock_init,
         WLP!wake_lock_destroy, WLP!wake_lock_timeout, WLP!wake_lock_internal,
         WLP!LockFlags, WLP!LockLeft, WLP!Relist, WLP!LockPreventing,
         WLP!IsExpired, WLP!update_sleep_wait_stats_locked, WLP!ActiveIn,
         WLP!IsActive, WLP!SameType, WLP!SuspendLocks, WLP!Locks,
         WLP!list_del, WLP!Visited, WLP!Permanent, WLP!Expired,
         WLP!has_wake_lock_locked, WLP!Results, WLP!expire_wake_lock,
         WLP!has_wake_lock, WLP!mod_timer, WLP!del_timer, WLP!queue_work,
         WLP!Rearm, WLP!timerVars, WLP!lockVars, WLP!CountEvent,
         WLP!UnlockPreventing, WLP!IrqsOff, WLP!Wrap, WLP!Tick,
         WLP!run_timers, WLP!expire_wake_locks, WLP!Worker, WLP!run_workqueue,
         WLP!suspend_check, WLP!suspend_entry, WLP!suspend_prepare,
         WLP!try_to_freeze_tasks, WLP!tasks_frozen, WLP!suspend_devices,
         WLP!pm_suspend_fails, WLP!power_suspend_late, WLP!pm_enter,
         WLP!pm_wake, WLP!suspend_exit, WLP!suspend_unknown, WLP!vars

-----------------------------------------------------------------------------
(* The wake-lock core.  Each step of the whole is one of its steps.        *)

LEMMA CoreStep == ASSUME [Next]_vars PROVE [WL!Next]_(WL!vars)
<1>1. UNCHANGED coreVars => UNCHANGED WL!vars
  BY DEF coreVars, WL!vars
<1>2. WL!Operation \/ WL!Timer \/ WL!Suspend => WL!Next
  BY DEF WL!Next
<1>3. WL!wake_lock(Main) \/ WL!wake_unlock(Main) => WL!Operation
  BY DEF WL!Operation
<1>4. WL!run_workqueue => WL!Suspend
  BY DEF WL!Suspend
<1>5. CASE \E s \in {"on"} \cup ES!valid_states : state_store(s)
  BY <1>1, <1>2, <1>3, <1>5 DEF state_store
<1>6. CASE Registration \/ Handle
  BY <1>1, <1>6 DEF Registration, Handle
<1>7. CASE run_workqueue
  BY <1>1, <1>2, <1>4, <1>7 DEF run_workqueue
<1>8. CASE early_suspend_done
  BY <1>1, <1>2, <1>3, <1>8 DEF early_suspend_done
<1>9. CASE Lock
  BY <1>2, <1>9 DEF Lock, WL!Operation
<1>10. CASE Suspend
  BY <1>2, <1>10 DEF Suspend
<1>11. CASE UNCHANGED vars
  BY <1>1, <1>11 DEF vars
<1> QED
  BY <1>5, <1>6, <1>7, <1>8, <1>9, <1>10, <1>11 DEF Next

\* The composition does with the wake locks only what wakelock.c does by itself:
\* no joint step with early suspend goes past a guard of the core.
THEOREM ImplementsCore == Spec => WL!Spec
<1>1. Init => WL!Init
  BY DEF Init
<1>2. [Next]_vars => [WL!Next]_(WL!vars)
  BY CoreStep
<1> QED
  BY <1>1, <1>2, PTL DEF Spec, WL!Spec

\* What WakeLockProofs proves of the core holds of it here.
LEMMA CoreInvariant ==
  Spec => [](WLP!TypeOK /\ WLP!SleepInv /\ WLP!NoSleepWhileHeld)
<1>1. WL!Spec => WLP!Spec
  BY SameCoreStates, SameCoreSteps, PTL DEF WL!Spec, WLP!Spec
<1>2. WLP!Spec => [](WLP!TypeOK /\ WLP!SleepInv)
  BY CoreAssumptions, WLP!SleepInvariant, PTL
  DEF WLP!LocksAssumption, WLP!TimeAssumption
<1>3. WLP!Spec => []WLP!NoSleepWhileHeld
  BY CoreAssumptions, WLP!SleepSafe, PTL
  DEF WLP!LocksAssumption, WLP!TimeAssumption
<1> QED
  BY <1>1, <1>2, <1>3, ImplementsCore, PTL

-----------------------------------------------------------------------------
(* What the operations do to the state that is shared.                     *)

MainPermanent == flags[Main] = "permanent"

\* The work is queued, at most, and then main_wake_lock is free.
QueuedRightly ==
  suspend_work' = suspend_work \/ (suspend_work' = TRUE /\ ~MainPermanent')

LEMMA MainLock ==
  /\ Main \in WL!Locks /\ Main \in WL!SuspendLocks
  /\ Main # Unknown /\ Main \notin Clients \cup IdleLocks
  /\ Unknown \in WL!Locks /\ Clients \cup IdleLocks \subseteq WL!Locks
BY LocksAssumption DEF WL!Locks, WL!SuspendLocks

\* A scan for expired locks leaves main_wake_lock, which has no time-out, alone
\* and finds it.
LEMMA MainExpire ==
  ASSUME NEW f, NEW b, NEW x, NEW p,
         NEW E, E = {} \/ E = WL!Expired(f, b, x),
         WL!expire_wake_lock(f, b, x, p, E)
  PROVE  MainPermanent' <=> f[Main] = "permanent"
<1>1. f[Main] = "permanent" => Main \notin E
  BY DEF WL!Expired, WL!Visited
<1>2. flags'[Main] = IF Main \in E THEN "inactive" ELSE f[Main]
  BY MainLock DEF WL!expire_wake_lock
<1> QED
  BY <1>1, <1>2 DEF MainPermanent

LEMMA MainFound ==
  ASSUME NEW f, NEW b, NEW x, NEW r, WL!has_wake_lock_locked(f, b, x, r), r = 0
  PROVE  f[Main] # "permanent"
BY MainLock DEF WL!has_wake_lock_locked, WL!Permanent

LEMMA ScanKeepsMain ==
  ASSUME NEW r, WL!has_wake_lock(r)
  PROVE  /\ MainPermanent' <=> MainPermanent
         /\ r = 0 => ~MainPermanent
BY MainExpire, MainFound DEF WL!has_wake_lock, MainPermanent

LEMMA RearmQueues ==
  ASSUME NEW r, WL!Rearm(r)
  PROVE  suspend_work' = suspend_work \/ (suspend_work' = TRUE /\ r = 0)
BY DEF WL!Rearm, WL!queue_work

LEMMA TakeMain ==
  ASSUME WL!TypeOK, WL!wake_lock(Main)
  PROVE  MainPermanent' /\ UNCHANGED <<suspend_work, wl_pc>>
<1> DEFINE f == WL!LockFlags(Main, FALSE)
           x == WL!LockLeft(Main, 0, FALSE)
           b == WL!Relist(Main, FALSE)
           p == WL!LockPreventing(Main, f, x)
<1>1. f[Main] = "permanent"
  BY MainLock DEF WL!LockFlags, WL!TypeOK, WL!LockTypes
<1>2. WL!expire_wake_lock(f, b, x, p, {})
  BY MainLock DEF WL!wake_lock, WL!wake_lock_internal
<1>3. WL!Rearm(-1)
  BY MainLock DEF WL!wake_lock, WL!wake_lock_internal
<1>4. UNCHANGED suspend_work
  BY <1>3 DEF WL!Rearm
<1>5. MainPermanent'
  BY <1>1, <1>2, MainExpire
<1> QED
  BY <1>4, <1>5 DEF WL!wake_lock

LEMMA TakeOther ==
  ASSUME WL!TypeOK, NEW l \in WL!Locks \ {Main}, NEW t, NEW timed \in BOOLEAN,
         WL!wake_lock_internal(l, t, timed)
  PROVE  (MainPermanent' <=> MainPermanent) /\ QueuedRightly
<1> DEFINE f == WL!LockFlags(l, timed)
           x == WL!LockLeft(l, t, timed)
           b == WL!Relist(l, timed)
           p == WL!LockPreventing(l, f, x)
           E == IF timed THEN WL!Expired(f, b, x) ELSE {}
<1>1. f[Main] = flags[Main]
  BY MainLock DEF WL!LockFlags, WL!TypeOK, WL!LockTypes
<1> HIDE DEF f, x, b, p
<1>2. CASE l \in IdleLocks
  <2>1. WL!expire_wake_lock(f, b, x, p, {}) /\ suspend_work' = suspend_work
    BY <1>2 DEF WL!wake_lock_internal, f, x, b, p
  <2> QED
    BY <1>1, <2>1, MainExpire DEF QueuedRightly, MainPermanent
<1>3. CASE l \notin IdleLocks
  <2>1. PICK r \in WL!Results :
          /\ IF timed THEN WL!has_wake_lock_locked(f, b, x, r) ELSE r = -1
          /\ WL!expire_wake_lock(f, b, x, p, E)
          /\ WL!Rearm(r)
    BY <1>3 DEF WL!wake_lock_internal, f, x, b, p
  <2>2. MainPermanent' <=> MainPermanent
    BY <1>1, <2>1, MainExpire DEF MainPermanent
  <2>3. r = 0 => f[Main] # "permanent"
    BY <2>1, MainFound
  <2> QED
    BY <1>1, <2>1, <2>2, <2>3, RearmQueues DEF QueuedRightly, MainPermanent
<1> QED
  BY <1>2, <1>3

LEMMA Release ==
  ASSUME WL!TypeOK, NEW l \in WL!Locks, WL!wake_unlock(l)
  PROVE  /\ MainPermanent' <=> MainPermanent /\ l # Main
         /\ QueuedRightly
         /\ UNCHANGED wl_pc
<1> DEFINE f == [flags EXCEPT ![l] = "inactive"]
           x == [left EXCEPT ![l] = 0]
           b == WL!list_del(before, {l})
           E == IF l \in IdleLocks THEN {} ELSE WL!Expired(f, b, x)
           p == WL!UnlockPreventing(l, f, x, E)
<1>1. f[Main] = "permanent" <=> MainPermanent /\ l # Main
  BY MainLock DEF WL!TypeOK, WL!LockTypes, MainPermanent
<1>2. /\ WL!expire_wake_lock(f, b, x, p, E)
      /\ \/ UNCHANGED suspend_work
         \/ \E r : WL!has_wake_lock_locked(f, b, x, r) /\ WL!Rearm(r)
      /\ UNCHANGED wl_pc
  BY DEF WL!wake_unlock
<1> HIDE DEF f, x, b, p
<1>3. MainPermanent' <=> MainPermanent /\ l # Main
  BY <1>1, <1>2, MainExpire
<1>4. QueuedRightly
  BY <1>1, <1>2, <1>3, MainFound, RearmQueues DEF QueuedRightly
<1> QED
  BY <1>2, <1>3, <1>4

\* An operation on another lock, or the timer.  None of them runs while the
\* worker has interrupts off.
LEMMA LockEffect ==
  ASSUME WL!TypeOK, timer_running => ~WL!IrqsOff, Lock
  PROVE  /\ (MainPermanent' <=> MainPermanent) /\ QueuedRightly
         /\ ~WL!IrqsOff /\ UNCHANGED wl_pc
<1>1. ASSUME NEW l \in Clients \cup IdleLocks,
             \/ WL!wake_lock(l) \/ \E t \in Timeouts : WL!wake_lock_timeout(l, t)
      PROVE  /\ (MainPermanent' <=> MainPermanent) /\ QueuedRightly
             /\ ~WL!IrqsOff /\ UNCHANGED wl_pc
  <2>1. l \in WL!Locks \ {Main}
    BY MainLock
  <2>2. \E t \in Timeouts \cup {0}, timed \in BOOLEAN :
          WL!wake_lock_internal(l, t, timed)
    BY <1>1 DEF WL!wake_lock, WL!wake_lock_timeout
  <2>3. (MainPermanent' <=> MainPermanent) /\ QueuedRightly
    BY <2>1, <2>2, TakeOther
  <2> QED
    BY <1>1, <2>3 DEF WL!wake_lock, WL!wake_lock_timeout
<1>2. ASSUME NEW l \in Clients \cup IdleLocks, WL!wake_unlock(l)
      PROVE  /\ (MainPermanent' <=> MainPermanent) /\ QueuedRightly
             /\ ~WL!IrqsOff /\ UNCHANGED wl_pc
  <2>1. l \in WL!Locks /\ l # Main
    BY MainLock
  <2>2. ~WL!IrqsOff
    BY <1>2 DEF WL!wake_unlock
  <2> QED
    BY <1>2, <2>1, <2>2, Release
<1>3. ASSUME NEW l \in Clients \cup IdleLocks,
             WL!wake_lock_init(l) \/ WL!wake_lock_destroy(l)
      PROVE  /\ (MainPermanent' <=> MainPermanent) /\ QueuedRightly
             /\ ~WL!IrqsOff /\ UNCHANGED wl_pc
  <2>1. flags'[Main] = flags[Main]
    BY <1>3, MainLock
    DEF WL!wake_lock_init, WL!wake_lock_destroy, WL!TypeOK, WL!LockTypes
  <2> QED
    BY <1>3, <2>1
    DEF WL!wake_lock_init, WL!wake_lock_destroy, MainPermanent, QueuedRightly
<1>4. CASE WL!Tick \/ WL!run_timers
  BY <1>4
  DEF WL!Tick, WL!run_timers, WL!lockVars, MainPermanent, QueuedRightly
<1>5. CASE WL!expire_wake_locks
  <2>1. PICK r \in WL!Results :
          /\ WL!has_wake_lock(r)
          /\ IF r = 0 THEN WL!queue_work ELSE UNCHANGED suspend_work
    BY <1>5 DEF WL!expire_wake_locks
  <2>2. QueuedRightly
    BY <2>1, ScanKeepsMain DEF QueuedRightly, WL!queue_work
  <2> QED
    BY <1>5, <2>1, <2>2, ScanKeepsMain DEF WL!expire_wake_locks
<1> QED
  BY <1>1, <1>2, <1>3, <1>4, <1>5 DEF Lock, WL!Timer

\* A step of suspend(): where it goes, and that it passes a look for locks only
\* while main_wake_lock is free.
LEMMA SuspendEffect ==
  ASSUME WL!TypeOK, Suspend
  PROVE  /\ (MainPermanent' <=> MainPermanent) /\ QueuedRightly
         /\ wl_pc # "unknown" => UNCHANGED suspend_work
         /\ \/ wl_pc = "check" /\ wl_pc' = "entry" /\ ~MainPermanent
            \/ wl_pc = "check" /\ wl_pc' = "idle"
            \/ /\ wl_pc \in {"entry", "prepare", "freeze", "devices"}
               /\ wl_pc' \in {"prepare", "freeze", "devices", "irqs_off"}
            \/ /\ wl_pc \in {"prepare", "freeze", "devices", "irqs_off", "late"}
               /\ wl_pc' = "exit"
            \/ wl_pc = "irqs_off" /\ wl_pc' = "late" /\ ~MainPermanent
            \/ wl_pc = "late" /\ wl_pc' = "asleep"
            \/ wl_pc = "asleep" /\ wl_pc' = "exit"
            \/ wl_pc = "exit" /\ wl_pc' \in {"unknown", "idle"}
            \/ wl_pc = "unknown" /\ wl_pc' = "idle"
<1> USE DEF WL!Worker
<1>1. CASE \/ WL!suspend_entry \/ WL!suspend_prepare \/ WL!tasks_frozen
           \/ WL!suspend_devices \/ WL!pm_suspend_fails \/ WL!pm_enter
           \/ WL!pm_wake \/ WL!suspend_exit
  <2>1. UNCHANGED <<flags, suspend_work>>
    BY <1>1
    DEF WL!suspend_entry, WL!suspend_prepare, WL!tasks_frozen,
        WL!suspend_devices, WL!pm_suspend_fails, WL!pm_enter, WL!pm_wake,
        WL!suspend_exit, WL!lockVars
  <2>2. /\ MainPermanent' <=> MainPermanent
        /\ QueuedRightly
    BY <2>1 DEF MainPermanent, QueuedRightly
  <2> QED
    BY <1>1, <2>1, <2>2
    DEF WL!suspend_entry, WL!suspend_prepare, WL!tasks_frozen,
        WL!suspend_devices, WL!pm_suspend_fails, WL!pm_enter, WL!pm_wake,
        WL!suspend_exit
<1>2. CASE WL!suspend_check
  BY <1>2, ScanKeepsMain DEF WL!suspend_check, QueuedRightly
<1>3. CASE WL!try_to_freeze_tasks
  BY <1>3, ScanKeepsMain DEF WL!try_to_freeze_tasks, QueuedRightly
<1>4. CASE WL!power_suspend_late
  BY <1>4, ScanKeepsMain DEF WL!power_suspend_late, QueuedRightly
<1>5. CASE WL!suspend_unknown
  <2>1. /\ wl_pc = "unknown" /\ wl_pc' = "idle"
        /\ WL!wake_lock_internal(Unknown, HalfSecond, TRUE)
    BY <1>5 DEF WL!suspend_unknown
  <2>2. (MainPermanent' <=> MainPermanent) /\ QueuedRightly
    BY <2>1, MainLock, TakeOther
  <2> QED
    BY <2>1, <2>2
<1>6. ~WL!run_workqueue
  BY DEF Suspend, InSuspend, WL!run_workqueue
<1> QED
  BY <1>1, <1>2, <1>3, <1>4, <1>5, <1>6 DEF Suspend, WL!Suspend

-----------------------------------------------------------------------------
(* The two views of the shared state agree.                                *)

\* What TypeOK says of the shared state, with what makes it inductive: outside
\* of suspend() the worker is not where EarlySuspend places suspend(), after
\* the last look for locks main_wake_lock is free, and the state that
\* pm_suspend is given is the one asked for.
Joined ==
  /\ main_held <=> MainPermanent
  /\ suspend_work <=> ES!Queued("suspend")
  /\ InSuspend => pc = Seen(wl_pc)
  /\ ~InSuspend => pc \notin {"suspend", "pm_suspend", "asleep"}
  /\ wl_pc \in {"late", "asleep"} => ~main_held
  /\ requested => requested_suspend_state # "on"

\* What the two components bring along.
Parts ==
  /\ ES!TypeOK /\ ES!OnMeansHeld
  /\ WL!TypeOK
  /\ timer_running => ~WL!IrqsOff

\* The list of the work queue and the pending bit of suspend_work.
LEMMA QueueEffect ==
  ASSUME worklist \in Seq(ES!Works), suspend_work \in BOOLEAN,
         suspend_work <=> ES!Queued("suspend"), QueuedRightly, QueueSuspend
  PROVE  /\ suspend_work' <=> ES!Queued("suspend")'
         /\ \/ suspend_work' = suspend_work /\ worklist' = worklist
            \/ /\ ~ES!Queued("suspend") /\ ~MainPermanent'
               /\ worklist' = ES!queue_work(worklist, "suspend")
<1>1. CASE suspend_work' = suspend_work
  BY <1>1 DEF QueueSuspend, ES!queue_work, ES!Queued
<1>2. CASE ~suspend_work /\ suspend_work' /\ ~MainPermanent'
  <2>1. worklist' = ES!queue_work(worklist, "suspend") /\ ~ES!Queued("suspend")
    BY <1>2 DEF QueueSuspend
  <2>2. worklist' = Append(worklist, "suspend")
    BY <2>1 DEF ES!queue_work, ES!Queued
  <2>3. /\ Len(worklist') \in 1 .. Len(worklist')
        /\ worklist'[Len(worklist')] = "suspend"
    BY <2>2
  <2> QED
    BY <1>2, <2>1, <2>3 DEF ES!Queued
<1> QED
  BY <1>1, <1>2 DEF QueuedRightly

LEMMA QueueOther ==
  ASSUME worklist \in Seq(ES!Works), NEW w, w # "suspend",
         worklist' = ES!queue_work(worklist, w)
  PROVE  ES!Queued("suspend")' <=> ES!Queued("suspend")
<1>1. CASE worklist' = worklist
  BY <1>1 DEF ES!Queued
<1>2. CASE worklist' = Append(worklist, w)
  <2>1. /\ Len(worklist') = Len(worklist) + 1 /\ Len(worklist) \in Nat
        /\ worklist'[Len(worklist) + 1] = w
        /\ \A i \in 1 .. Len(worklist) : worklist'[i] = worklist[i]
    BY <1>2
  <2> QED
    BY <2>1 DEF ES!Queued
<1> QED
  BY <1>1, <1>2 DEF ES!queue_work

LEMMA TailEffect ==
  ASSUME ES!TypeOK, worklist # <<>>, worklist' = Tail(worklist)
  PROVE  ES!Queued("suspend")' <=>
           ES!Queued("suspend") /\ Head(worklist) # "suspend"
<1>1. /\ worklist \in Seq(ES!Works)
      /\ \A i, j \in 1 .. Len(worklist) : worklist[i] = worklist[j] => i = j
  BY DEF ES!TypeOK
<1>2. /\ Len(worklist') = Len(worklist) - 1 /\ Len(worklist) \in Nat \ {0}
      /\ Head(worklist) = worklist[1]
      /\ \A i \in 1 .. Len(worklist') : worklist'[i] = worklist[i + 1]
  BY <1>1
<1>3. ASSUME NEW i \in 1 .. Len(worklist'), worklist'[i] = "suspend"
      PROVE  ES!Queued("suspend") /\ Head(worklist) # "suspend"
  <2>1. i + 1 \in 1 .. Len(worklist) /\ 1 \in 1 .. Len(worklist) /\ i + 1 # 1
    BY <1>2
  <2> QED
    BY <1>1, <1>2, <1>3, <2>1 DEF ES!Queued
<1>4. ASSUME NEW i \in 1 .. Len(worklist), worklist[i] = "suspend",
             Head(worklist) # "suspend"
      PROVE  ES!Queued("suspend")'
  <2>1. i # 1
    BY <1>2, <1>4
  <2>2. i - 1 \in 1 .. Len(worklist') /\ (i - 1) + 1 = i
    BY <1>2, <2>1
  <2> QED
    BY <1>2, <1>4, <2>2 DEF ES!Queued
<1> QED
  BY <1>3, <1>4 DEF ES!Queued

-----------------------------------------------------------------------------
(* Each step of the whole keeps Joined and is a step of EarlySuspend, which *)
(* abstracts the core to queue_suspend, suspend, pm_suspend and wake.      *)

\* Everything the core shares is left alone.
LEMMA CoreSame ==
  ASSUME UNCHANGED coreVars
  PROVE  UNCHANGED <<MainPermanent, suspend_work, wl_pc, InSuspend>>
BY DEF coreVars, MainPermanent, InSuspend

LEMMA JoinedRequest ==
  ASSUME Joined, Parts, NEW s \in {"on"} \cup ES!valid_states, state_store(s)
  PROVE  Joined'
<1> DEFINE sleep == s # "on"
<1>1. /\ requested_suspend_state' = s /\ requested' = sleep
      /\ main_held' = (main_held \/ (requested /\ ~sleep))
      /\ \/ worklist' = worklist
         \/ \E w : w # "suspend" /\ worklist' = ES!queue_work(worklist, w)
      /\ UNCHANGED pc /\ ~WL!IrqsOff
  BY DEF state_store, ES!state_store, ES!request_suspend_state
<1>2. ES!Queued("suspend")' <=> ES!Queued("suspend")
  BY <1>1, QueueOther DEF Parts, ES!TypeOK, ES!Queued
<1>3. /\ UNCHANGED <<suspend_work, wl_pc>>
      /\ MainPermanent' <=> MainPermanent \/ (requested /\ s = "on")
  BY TakeMain, CoreSame DEF state_store, Parts
<1>4. wl_pc' \notin {"late", "asleep"}
  BY <1>1, <1>3 DEF WL!IrqsOff
<1>5. requested' => requested_suspend_state' # "on"
  BY <1>1
<1>6. main_held' <=> MainPermanent'
  BY <1>1, <1>3 DEF Joined
<1>7. /\ InSuspend' => pc' = Seen(wl_pc)'
      /\ ~InSuspend' => pc' \notin {"suspend", "pm_suspend", "asleep"}
  BY <1>1, <1>3 DEF Joined, InSuspend, Seen
<1> QED
  BY <1>2, <1>3, <1>4, <1>5, <1>6, <1>7 DEF Joined

\* Registrations and the calls of handlers do not touch what is shared.
LEMMA JoinedHandlers ==
  ASSUME Joined, Parts, Registration \/ Handle
  PROVE  Joined'
<1>1. UNCHANGED <<MainPermanent, suspend_work, wl_pc, InSuspend>>
  BY CoreSame DEF Registration, Handle
<1>2. UNCHANGED <<worklist, main_held, requested, requested_suspend_state>>
  BY DEF Registration, Handle, ES!Registration, ES!register_early_suspend,
         ES!register_call, ES!unregister_early_suspend, ES!early_suspend,
         ES!early_suspend_call, ES!late_resume, ES!late_resume_call,
         ES!requestVars
<1>3. \/ UNCHANGED pc
      \/ /\ pc \in {"early_lock", "early_call", "late_lock", "late_call"}
         /\ pc' \in {"early_call", "early_done", "late_call", "idle"}
  BY DEF Registration, Handle, ES!Registration, ES!register_early_suspend,
         ES!register_call, ES!unregister_early_suspend, ES!early_suspend,
         ES!early_suspend_call, ES!late_resume, ES!late_resume_call
<1>4. /\ InSuspend' => pc' = Seen(wl_pc)'
      /\ ~InSuspend' => pc' \notin {"suspend", "pm_suspend", "asleep"}
  BY <1>1, <1>3 DEF Joined, Seen
<1> QED
  BY <1>1, <1>2, <1>4 DEF Joined, ES!Queued

LEMMA JoinedRun ==
  ASSUME Joined, Parts, run_workqueue
  PROVE  Joined'
<1>1. /\ ~InSuspend /\ worklist # <<>> /\ worklist' = Tail(worklist)
      /\ UNCHANGED <<main_held, requested, requested_suspend_state>>
      /\ pc' = IF Head(worklist) = "early_suspend" THEN "early_lock"
               ELSE IF Head(worklist) = "late_resume" THEN "late_lock"
                    ELSE "suspend"
  BY DEF run_workqueue, ES!run_workqueue, ES!requestVars
<1>2. ES!Queued("suspend")' <=>
        ES!Queued("suspend") /\ Head(worklist) # "suspend"
  BY <1>1, TailEffect DEF Parts
<1>3. CASE Head(worklist) = "suspend"
  <2>1. /\ wl_pc' = "check" /\ suspend_work' = FALSE
        /\ MainPermanent' <=> MainPermanent
    BY <1>3
    DEF run_workqueue, WL!run_workqueue, WL!Worker, WL!lockVars, MainPermanent
  <2> QED
    BY <1>1, <1>2, <1>3, <2>1 DEF Joined, InSuspend, Seen
<1>4. CASE Head(worklist) # "suspend"
  <2>1. UNCHANGED <<MainPermanent, suspend_work, wl_pc, InSuspend>>
    BY <1>4, CoreSame DEF run_workqueue
  <2>2. Head(worklist) \in ES!Works
    BY <1>1 DEF Parts, ES!TypeOK
  <2>3. pc' \in {"early_lock", "late_lock"}
    BY <1>1, <1>4, <2>2 DEF ES!Works
  <2> QED
    BY <1>1, <1>2, <1>4, <2>1, <2>3 DEF Joined, InSuspend
<1> QED
  BY <1>3, <1>4

LEMMA JoinedDone ==
  ASSUME Joined, Parts, early_suspend_done
  PROVE  Joined'
<1>1. /\ pc = "early_done" /\ pc' = "idle"
      /\ main_held' = (main_held /\ ~(requested /\ suspended))
      /\ UNCHANGED <<requested, requested_suspend_state>>
  BY DEF early_suspend_done, ES!early_suspend_done, ES!requestVars
<1>2. ~InSuspend
  BY <1>1 DEF Joined, Seen
<1>3. /\ MainPermanent' <=> MainPermanent /\ ~(requested /\ suspended)
      /\ QueuedRightly /\ UNCHANGED wl_pc
  <2>1. CASE requested /\ suspended
    BY <2>1, MainLock, Release DEF early_suspend_done, Parts
  <2>2. CASE ~(requested /\ suspended)
    BY <2>2, CoreSame DEF early_suspend_done, QueuedRightly
  <2> QED
    BY <2>1, <2>2
<1>4. suspend_work' <=> ES!Queued("suspend")'
  BY <1>3, QueueEffect
  DEF early_suspend_done, Joined, Parts, ES!TypeOK, WL!TypeOK, WL!WorkerTypes
<1>5. main_held' <=> MainPermanent'
  BY <1>1, <1>3 DEF Joined
<1> QED
  BY <1>1, <1>2, <1>3, <1>4, <1>5 DEF Joined, InSuspend

\* Another lock, or the timer: nothing that EarlySuspend sees, or the work is
\* queued.
LEMMA JoinedLock ==
  ASSUME Joined, Parts, Lock
  PROVE  Joined' /\ [ES!Next]_(ES!vars)
<1>1. /\ (MainPermanent' <=> MainPermanent) /\ QueuedRightly
      /\ ~WL!IrqsOff /\ UNCHANGED wl_pc
  BY LockEffect DEF Parts
<1>2. QueueSuspend /\ UNCHANGED <<earlyVars, pc>>
  BY DEF Lock
<1>3. /\ suspend_work' <=> ES!Queued("suspend")'
      /\ \/ suspend_work' = suspend_work /\ worklist' = worklist
         \/ /\ ~ES!Queued("suspend") /\ ~MainPermanent'
            /\ worklist' = ES!queue_work(worklist, "suspend")
  BY <1>1, <1>2, QueueEffect
  DEF Joined, Parts, ES!TypeOK, WL!TypeOK, WL!WorkerTypes
<1>4. Joined'
  BY <1>1, <1>2, <1>3 DEF Joined, InSuspend, Seen, earlyVars
<1>5. pc # "asleep"
  BY <1>1 DEF Joined, Seen, WL!IrqsOff
<1>6. CASE worklist' = worklist
  BY <1>2, <1>4, <1>6 DEF ES!vars, earlyVars
<1>7. CASE /\ ~ES!Queued("suspend") /\ ~MainPermanent'
           /\ worklist' = ES!queue_work(worklist, "suspend")
  <2>1. ~main_held
    BY <1>1, <1>7 DEF Joined
  <2>2. ES!queue_suspend
    BY <1>2, <1>5, <1>7, <2>1
    DEF ES!queue_suspend, ES!Awake, ES!requestVars, earlyVars
  <2> QED
    BY <1>4, <2>2 DEF ES!Next
<1> QED
  BY <1>3, <1>6, <1>7

\* suspend(): what EarlySuspend assumes of it is what it does.
LEMMA JoinedSuspend ==
  ASSUME Joined, Parts, Suspend
  PROVE  Joined' /\ [ES!Next]_(ES!vars)
<1> DEFINE table ==
      \/ wl_pc = "check" /\ wl_pc' = "entry" /\ ~MainPermanent
      \/ wl_pc = "check" /\ wl_pc' = "idle"
      \/ /\ wl_pc \in {"entry", "prepare", "freeze", "devices"}
         /\ wl_pc' \in {"prepare", "freeze", "devices", "irqs_off"}
      \/ /\ wl_pc \in {"prepare", "freeze", "devices", "irqs_off", "late"}
         /\ wl_pc' = "exit"
      \/ wl_pc = "irqs_off" /\ wl_pc' = "late" /\ ~MainPermanent
      \/ wl_pc = "late" /\ wl_pc' = "asleep"
      \/ wl_pc = "asleep" /\ wl_pc' = "exit"
      \/ wl_pc = "exit" /\ wl_pc' \in {"unknown", "idle"}
      \/ wl_pc = "unknown" /\ wl_pc' = "idle"
<1>1. /\ MainPermanent' <=> MainPermanent
      /\ QueuedRightly
      /\ wl_pc # "unknown" => UNCHANGED suspend_work
      /\ table
  BY SuspendEffect DEF Parts
<1>2. /\ InSuspend /\ QueueSuspend
      /\ pc' = Seen(wl_pc') /\ UNCHANGED earlyVars
  BY DEF Suspend
<1>3. pc = Seen(wl_pc)
  BY <1>2 DEF Joined
<1>4. /\ suspend_work' <=> ES!Queued("suspend")'
      /\ \/ suspend_work' = suspend_work /\ worklist' = worklist
         \/ /\ ~ES!Queued("suspend") /\ ~MainPermanent'
            /\ worklist' = ES!queue_work(worklist, "suspend")
  BY <1>1, <1>2, QueueEffect
  DEF Joined, Parts, ES!TypeOK, WL!TypeOK, WL!WorkerTypes
<1>5. UNCHANGED <<requested, requested_suspend_state, main_held, suspended,
                  handlers, down, mutex, pos, global_state>>
  BY <1>2 DEF earlyVars
<1>6. wl_pc' \in {"late", "asleep"} => ~main_held'
  BY <1>1, <1>5 DEF Joined
<1>7. ~InSuspend' => pc' \notin {"suspend", "pm_suspend", "asleep"}
  BY <1>2 DEF InSuspend, Seen
<1>8. Joined'
  BY <1>1, <1>2, <1>4, <1>5, <1>6, <1>7 DEF Joined, Seen
<1> HIDE DEF table
<1>9. CASE wl_pc = "unknown"
  <2>1. pc = "idle" /\ pc' = "idle"
    BY <1>1, <1>2, <1>3, <1>9 DEF table, Seen
  <2>2. CASE worklist' = worklist
    BY <1>5, <1>8, <2>1, <2>2 DEF ES!vars
  <2>3. CASE /\ ~ES!Queued("suspend") /\ ~MainPermanent'
             /\ worklist' = ES!queue_work(worklist, "suspend")
    <3>1. ~main_held
      BY <1>1, <2>3 DEF Joined
    <3>2. ES!queue_suspend
      BY <1>5, <2>1, <2>3, <3>1 DEF ES!queue_suspend, ES!Awake, ES!requestVars
    <3> QED
      BY <1>8, <3>2 DEF ES!Next
  <2> QED
    BY <1>4, <2>2, <2>3
<1>10. CASE wl_pc # "unknown"
  <2>1. worklist' = worklist
    BY <1>1, <1>2, <1>10 DEF QueueSuspend, Joined, ES!queue_work, ES!Queued
  <2>2. \/ pc' = pc
        \/ pc = "suspend" /\ pc' = "pm_suspend" /\ ~main_held
        \/ pc = "suspend" /\ pc' = "idle"
        \/ pc = "pm_suspend" /\ pc' = "idle"
        \/ pc = "pm_suspend" /\ pc' = "asleep" /\ ~main_held
        \/ pc = "asleep" /\ pc' = "idle"
    BY <1>1, <1>2, <1>3, <1>10 DEF table, Seen, Joined
  <2>3. ~main_held => requested_suspend_state # "on"
    BY DEF Joined, Parts, ES!OnMeansHeld
  <2>4. CASE pc' = pc
    BY <1>5, <1>8, <2>1, <2>4 DEF ES!vars
  <2>5. CASE pc = "suspend" /\ pc' \in {"pm_suspend", "idle"} /\ pc' # pc
    <3>1. ES!suspend
      BY <1>5, <2>1, <2>2, <2>3, <2>5 DEF ES!suspend, ES!requestVars
    <3> QED
      BY <1>8, <3>1 DEF ES!Next, ES!Work
  <2>6. CASE pc = "pm_suspend" /\ pc' # pc
    <3>1. ES!pm_suspend
      BY <1>5, <2>1, <2>2, <2>6 DEF ES!pm_suspend, ES!requestVars
    <3> QED
      BY <1>8, <3>1 DEF ES!Next, ES!Work
  <2>7. CASE pc = "asleep" /\ pc' = "idle"
    <3>1. ES!wake
      BY <1>5, <2>1, <2>7 DEF ES!wake, ES!requestVars
    <3> QED
      BY <1>8, <3>1 DEF ES!Next
  <2> QED
    BY <2>2, <2>4, <2>5, <2>6, <2>7
<1> QED
  BY <1>9, <1>10

LEMMA JoinedStep ==
  ASSUME Joined, Parts, [Next]_vars
  PROVE  Joined' /\ [ES!Next]_(ES!vars)
<1>1. ASSUME NEW s \in {"on"} \cup ES!valid_states, state_store(s)
      PROVE  Joined' /\ ES!Next
  BY <1>1, JoinedRequest DEF state_store, ES!Next, ES!Request
<1>2. CASE Registration \/ Handle
  BY <1>2, JoinedHandlers DEF Registration, Handle, ES!Next, ES!Work
<1>3. CASE run_workqueue
  BY <1>3, JoinedRun DEF run_workqueue, ES!Next, ES!Work
<1>4. CASE early_suspend_done
  BY <1>4, JoinedDone DEF early_suspend_done, ES!Next, ES!Work
<1>5. CASE Lock
  BY <1>5, JoinedLock
<1>6. CASE Suspend
  BY <1>6, JoinedSuspend
<1>7. CASE UNCHANGED vars
  <2>1. UNCHANGED coreVars /\ UNCHANGED <<earlyVars, worklist, pc>>
    BY <1>7 DEF vars
  <2>2. UNCHANGED ES!vars
    BY <2>1 DEF earlyVars, ES!vars
  <2> QED
    BY <2>1, <2>2, CoreSame DEF Joined, ES!Queued, Seen, earlyVars
<1> QED
  BY <1>1, <1>2, <1>3, <1>4, <1>5, <1>6, <1>7 DEF Next

LEMMA JoinedInit == Init => Joined
BY MainLock
DEF Init, ES!Init, WL!Init, Joined, MainPermanent, ES!Queued, InSuspend

-----------------------------------------------------------------------------
(* The theorems.                                                           *)

\* The invariants of the two components and Joined, in one induction: Joined
\* needs the types and OnMeansHeld of EarlySuspend, which hold of the whole
\* because Joined makes each step a step of EarlySuspend.
LEMMA JoinedInvariant ==
  Spec => [](Joined /\ ESP!IInv) /\ [][[ES!Next]_(ES!vars)]_vars
<1>1. Init => Joined /\ ESP!IInv
  <2>1. ESP!Init => ESP!IInv
    BY EarlyAssumptions, ESP!InitInv
    DEF ESP!IInv, ESP!LevelAssumption, ESP!HandlersAssumption
  <2> QED
    BY <2>1, JoinedInit, SameEarlyStates DEF Init
<1>2. ESP!IInv /\ WLP!TypeOK /\ WLP!SleepInv => Parts
  <2>1. ESP!IInv => ES!TypeOK /\ ES!OnMeansHeld
    BY SameEarlyStates DEF ESP!IInv, ESP!HoldInv
  <2>2. WLP!TypeOK /\ WLP!SleepInv => WL!TypeOK /\ (timer_running => ~WL!IrqsOff)
    BY SameCoreStates DEF WLP!SleepInv, WLP!IrqsOff, WL!IrqsOff
  <2> QED
    BY <2>1, <2>2 DEF Parts
<1>3. ESP!IInv /\ [ES!Next]_(ES!vars) => ESP!IInv'
  <2> SUFFICES ASSUME ESP!IInv, [ESP!Next]_(ESP!vars) PROVE ESP!IInv'
    BY SameEarlySteps
  <2>1. ESP!LevelAssumption /\ ESP!HandlersAssumption
    BY EarlyAssumptions
  <2>2. /\ ESP!TypeOK /\ ESP!MutexInv /\ ESP!ListInv /\ ESP!CallInv
        /\ ESP!HoldInv
    BY DEF ESP!IInv
  <2>3. ESP!TypeOK' /\ ESP!MutexInv'
    BY <2>1, <2>2, ESP!TypeStep DEF ESP!LevelAssumption, ESP!HandlersAssumption
  <2>4. ESP!HoldInv'
    BY <2>1, <2>2, ESP!HoldStep DEF ESP!LevelAssumption, ESP!HandlersAssumption
  <2>5. ESP!ListInv' /\ ESP!CallInv'
    BY <2>1, <2>2, ESP!CallStep DEF ESP!LevelAssumption, ESP!HandlersAssumption
  <2> QED
    BY <2>3, <2>4, <2>5 DEF ESP!IInv
<1>4. Joined /\ Parts /\ [Next]_vars => Joined' /\ [ES!Next]_(ES!vars)
  BY JoinedStep
<1> QED
  BY <1>1, <1>2, <1>3, <1>4, CoreInvariant, PTL DEF Spec

\* Early suspend with the real wake-lock core does only what its own
\* specification allows: what earlysuspend.c takes for granted of suspend(),
\* of the queue and of main_wake_lock, wakelock.c delivers.
THEOREM EarlySuspendImplemented == Spec => ImplementsEarlySuspend
<1>1. Init => ES!Init
  BY DEF Init
<1>2. UNCHANGED vars => UNCHANGED ES!vars
  BY DEF vars, earlyVars, ES!vars
<1> QED
  BY <1>1, <1>2, JoinedInvariant, PTL DEF Spec, ES!Spec, ImplementsEarlySuspend

\* The system sleeps only when the user asked for it last, every handler has
\* been called and no lock is held, for any number of handlers and locks.
THEOREM SleepAsked == Spec => []SleepsOnlyAsked
<1>1. /\ Joined /\ ESP!IInv /\ WLP!TypeOK /\ WLP!NoSleepWhileHeld
      => SleepsOnlyAsked
  <2> SUFFICES ASSUME Joined, ESP!IInv, WLP!TypeOK, WLP!NoSleepWhileHeld
               PROVE  SleepsOnlyAsked
    OBVIOUS
  <2>1. ESP!AsleepMeansDown /\ ESP!TypeOK /\ ESP!OnMeansHeld
    BY EarlyAssumptions, ESP!AsleepInvariant
    DEF ESP!LevelAssumption, ESP!HandlersAssumption, ESP!IInv, ESP!HoldInv
  <2>2. ES!TypeOK /\ ES!OnMeansHeld /\ ES!AsleepMeansDown
    BY <2>1, SameEarlyStates
  <2>3. WL!TypeOK /\ WL!NoSleepWhileHeld
    BY SameCoreStates
  <2>4. TypeOK
    BY <2>2, <2>3 DEF TypeOK, Joined, MainPermanent
  <2>5. ASSUME wl_pc = "asleep"
        PROVE  requested /\ pc = "asleep" /\ WL!Live = {}
    BY <2>2, <2>3, <2>5
    DEF Joined, InSuspend, Seen, ES!OnMeansHeld, WL!NoSleepWhileHeld
  <2> QED
    BY <2>2, <2>4, <2>5 DEF SleepsOnlyAsked, ES!AsleepMeansDown
<1> QED
  BY <1>1, JoinedInvariant, CoreInvariant, PTL
=============================================================================
