---------------------------- MODULE PowerSystem -----------------------------
(***************************************************************************)
(* Early suspend and the wake-lock core together, as they run: requests     *)
(* take and release main_wake_lock, and the single thread of                *)
(* suspend_work_queue serves the work items of both, in the order they were *)
(* queued.                                                                  *)
(*                                                                         *)
(* The actions are those of EarlySuspend (ES) and WakeLock (WL), joined     *)
(* where one calls the other.  The two modules see the shared state under   *)
(* names of their own: main_held is flags[Main], suspend_work is the        *)
(* "suspend" item of worklist, and pc is what EarlySuspend calls the place  *)
(* wl_pc of suspend().                                                      *)
(***************************************************************************)
EXTENDS Integers, Sequences, FiniteSets

CONSTANTS
  Handlers, Level,
  Main, Unknown, Clients, IdleLocks, Timeouts, HalfSecond, H, MaxLate, EventMod

VARIABLES
  requested, suspended, requested_suspend_state, global_state, handlers, down,
  mutex, worklist, pc, pos, main_held,
  flags, left, before, preventing, wait_for_wakeup, timer_pending,
  timer_running, timer_left, suspend_work, wl_pc, events, dropped

ES == INSTANCE EarlySuspend

WL == INSTANCE WakeLock WITH pc <- wl_pc

ASSUME HandlersAssumption ==
  /\ Level \in [Handlers -> Nat]
  /\ Handlers \cap {"free", "worker"} = {}

ASSUME LocksAssumption ==
  /\ Main # Unknown
  /\ Main \notin Clients
  /\ Unknown \notin Clients
  /\ ({Main, Unknown} \cup Clients) \cap IdleLocks = {}

ASSUME TimeAssumption ==
  /\ H \in Nat /\ H > 1
  /\ Timeouts \subseteq -H .. (H - 1)
  /\ HalfSecond \in 1 .. (H - 1)
  /\ MaxLate \in 0 .. (H - 1)
  /\ EventMod \in Nat /\ EventMod > 1

coreVars == <<flags, left, before, preventing, wait_for_wakeup, timer_pending,
              timer_running, timer_left, suspend_work, wl_pc, events, dropped>>

\* The state of EarlySuspend that the wake-lock core does not touch.
earlyVars == <<requested, suspended, requested_suspend_state, global_state,
               handlers, down, mutex, pos, main_held>>

vars == <<earlyVars, worklist, pc, coreVars>>

-----------------------------------------------------------------------------
(* The shared state.                                                       *)

\* Wrong: suspend() goes before the items that wait already.
QueueSuspend_first ==
  worklist' = IF suspend_work' /\ ~suspend_work THEN <<"suspend">> \o worklist
                                                ELSE worklist

\* queue_work on the queue that both use.
QueueSuspend ==
  worklist' = IF suspend_work' THEN ES!queue_work(worklist, "suspend")
                               ELSE worklist

\* What EarlySuspend calls the place of suspend(); it takes no interest in the
\* way out.
Seen(place) ==
  IF place = "check" THEN "suspend"
  ELSE IF place = "asleep" THEN "asleep"
  ELSE IF place \in {"exit", "unknown", "idle"} THEN "idle" ELSE "pm_suspend"

\* The worker is inside suspend().
InSuspend == wl_pc # "idle"

-----------------------------------------------------------------------------
(* A step of EarlySuspend, with the calls it makes.                        *)

\* Wrong: main_wake_lock is taken by the work item, not by the request.
state_store_late(s) ==
  /\ ~WL!IrqsOff
  /\ ES!state_store(s)
  /\ UNCHANGED coreVars

\* request_suspend_state takes main_wake_lock.
state_store(s) ==
  /\ ~WL!IrqsOff
  /\ ES!state_store(s)
  /\ IF requested /\ s = "on" THEN WL!wake_lock(Main) ELSE UNCHANGED coreVars

Registration == ~WL!IrqsOff /\ ES!Registration /\ UNCHANGED coreVars

run_workqueue ==
  /\ ~InSuspend /\ ~timer_running
  /\ ES!run_workqueue
  /\ IF Head(worklist) = "suspend" THEN WL!run_workqueue ELSE UNCHANGED coreVars

\* The worker calls handlers.  It does not run under the timer softirq.
Handle ==
  /\ ~timer_running
  /\ \/ ES!early_suspend \/ ES!early_suspend_call
     \/ ES!late_resume \/ ES!late_resume_call
  /\ UNCHANGED coreVars

\* early_suspend releases main_wake_lock.
early_suspend_done ==
  /\ ~timer_running
  /\ IF requested /\ suspended THEN WL!wake_unlock(Main) ELSE UNCHANGED coreVars
  /\ QueueSuspend
  /\ ES!early_suspend_done

-----------------------------------------------------------------------------
(* A step of the wake-lock core.                                           *)

\* The operations of drivers and programs, and the timer.
Lock ==
  /\ \/ \E l \in Clients \cup IdleLocks :
          \/ WL!wake_lock(l) \/ WL!wake_unlock(l)
          \/ WL!wake_lock_init(l) \/ WL!wake_lock_destroy(l)
          \/ \E t \in Timeouts : WL!wake_lock_timeout(l, t)
     \/ WL!Timer
  /\ QueueSuspend
  /\ UNCHANGED <<earlyVars, pc>>

\* suspend(), which hands requested_suspend_state to pm_suspend.
Suspend ==
  /\ InSuspend
  /\ WL!Suspend
  /\ wl_pc' = "freeze" /\ wl_pc = "prepare" => requested_suspend_state # "on"
  /\ QueueSuspend
  /\ pc' = Seen(wl_pc')
  /\ UNCHANGED earlyVars

-----------------------------------------------------------------------------

Init == ES!Init /\ WL!Init

Next ==
  \/ \E s \in {"on"} \cup ES!valid_states : state_store(s)
  \/ Registration
  \/ run_workqueue \/ Handle \/ early_suspend_done
  \/ Lock
  \/ Suspend

Spec == Init /\ [][Next]_vars

\* The worker gets the CPU in suspend(), where the freezer gives up after its
\* time-out, and elsewhere, where handlers return; so does a registering
\* driver.  Timers fire.  Nothing obliges the system to wake up.
Fairness ==
  /\ SF_vars(run_workqueue \/ Handle \/ early_suspend_done)
  /\ SF_vars(Suspend /\ WL!SuspendProgress)
  /\ WF_vars(Lock /\ WL!Tick)
  /\ WF_vars(Lock /\ WL!run_timers)
  /\ WF_vars(Lock /\ WL!expire_wake_locks)
  /\ \A h \in Handlers : WF_vars(Registration /\ ES!register_call(h))

FairSpec == Spec /\ Fairness

-----------------------------------------------------------------------------
(* Properties.                                                             *)

\* The two modules agree on the state they share, and each keeps its types.
TypeOK ==
  /\ ES!TypeOK /\ WL!TypeOK
  /\ main_held <=> (flags[Main] = "permanent")
  /\ suspend_work <=> ES!Queued("suspend")
  /\ InSuspend => pc = Seen(wl_pc)

\* Early suspend, with the real wake-lock core in place of the one it assumes,
\* still does only what its own specification allows: its assumption about
\* suspend() is met (earlysuspend.c:111, 168; wakelock.c:262-310).
ImplementsEarlySuspend == ES!Spec

\* The system sleeps only if the user has asked for it last, every handler has
\* been called, and nobody holds a lock: across both modules and every order in
\* which requests, work items, locks and the timer interleave.  It rests on the
\* agreement of the two views of the shared state, which TypeOK states.
SleepsOnlyAsked ==
  /\ TypeOK
  /\ wl_pc = "asleep" =>
       /\ requested
       /\ WL!Live = {}
       /\ \A h \in ES!Listed \ {mutex} : down[h] = 1

\* If the user goes on asking for sleep and from some time on no lock but
\* main_wake_lock and unknown_wakeup is held, the system tries to sleep, again
\* and again: the handshake over main_wake_lock, the shared queue and the timer
\* lose no request.  It supposes that the last of the others was not destroyed
\* while it was held, without a lock being taken or released since.
KeepsTrying ==
  <>[](requested /\ ~dropped /\ \A l \in Clients : ~WL!IsActive(flags[l]))
    => []<>(wl_pc \in {"prepare", "asleep"})

\* If the user wants the system on, the handlers are finally resumed, although
\* suspend() occupies the same thread.
OnAtLast == <>[]~requested => <>[](~suspended /\ mutex # ES!Worker)
=============================================================================
