---------------------------- MODULE EarlySuspend ----------------------------
(***************************************************************************)
(* Early suspend and late resume (kernel/power/earlysuspend.c) and the     *)
(* /sys/power/state file that drives them (kernel/power/main.c): drivers   *)
(* register handlers that are called, in the order of their levels, when   *)
(* the user asks for sleep and, in the opposite order, when he asks for    *)
(* the system to be on again.                                              *)
(*                                                                         *)
(* Requests come at any time; the handlers are called by two work items of *)
(* the single thread of suspend_work_queue, which also runs suspend() of   *)
(* wakelock.c.  A handler may sleep, so each call is a step of its own.    *)
(* suspend() appears here as module SuspendBlocker promises it: it may run *)
(* whenever it is queued and reaches sleep only while main_wake_lock, and  *)
(* every other lock, is free.                                              *)
(***************************************************************************)
EXTENDS Integers, Sequences, FiniteSets

CONSTANTS
  Handlers,  \* the early_suspend structures of the drivers
  Level      \* the level of each

ASSUME LevelAssumption == Level \in [Handlers -> Nat]

ASSUME HandlersAssumption == Handlers \cap {"free", "worker"} = {}

VARIABLES
  requested,               \* state & SUSPEND_REQUESTED
  suspended,               \* state & SUSPENDED
  requested_suspend_state, \* "on" or "mem"
  global_state,            \* what state_store saw last
  handlers,                \* early_suspend_handlers, in list order
  down,                    \* per handler: suspend() calls minus resume() calls
  mutex,                   \* who holds early_suspend_lock
  worklist,                \* the work items queued on suspend_work_queue
  pc,                      \* what the worker is doing
  pos,                     \* the next handler of the loop, as an index
  main_held                \* main_wake_lock is active

vars == <<requested, suspended, requested_suspend_state, global_state,
          handlers, down, mutex, worklist, pc, pos, main_held>>

requestVars == <<requested, requested_suspend_state, global_state>>

Works == {"early_suspend", "late_resume", "suspend"}

Places == {"idle", "early_lock", "early_call", "early_done", "late_lock",
           "late_call", "suspend", "pm_suspend", "asleep"}

Free == "free"

Worker == "worker"

Listed == {handlers[i] : i \in 1 .. Len(handlers)}

Queued(w) == \E i \in 1 .. Len(worklist) : worklist[i] = w

\* queue_work does nothing when the item is pending already.
queue_work(list, w) ==
  IF \E i \in 1 .. Len(list) : list[i] = w THEN list ELSE Append(list, w)

Awake == pc # "asleep"

-----------------------------------------------------------------------------
(* Requests: a write to /sys/power/state.                                  *)

request_suspend_state(new_state) ==
  LET sleep == new_state # "on"
  IN  /\ requested_suspend_state' = new_state
      /\ requested' = sleep
      /\ worklist' = IF requested = sleep THEN worklist
                     ELSE queue_work(worklist, IF sleep THEN "early_suspend"
                                                        ELSE "late_resume")
      /\ main_held' = (main_held \/ (requested /\ ~sleep))

\* The platform's valid() accepts "mem" only; "standby" is refused.
valid_states == {"mem"}

state_store(new_state) ==
  /\ Awake
  /\ new_state = "on" \/ new_state \in valid_states
  /\ global_state' = new_state
  /\ request_suspend_state(new_state)
  /\ UNCHANGED <<suspended, handlers, down, mutex, pc, pos>>

\* The states a read of the file lists.
state_show == {global_state}

-----------------------------------------------------------------------------
(* Registration.  The direct call of the handler may sleep under the mutex. *)

\* Wrong: the handler goes before the first one of a smaller level.
Insertion_reversed(list, h) ==
  LET smaller == {i \in 1 .. Len(list) : Level[list[i]] < Level[h]}
  IN  IF smaller = {}
      THEN Len(list) + 1
      ELSE CHOOSE i \in smaller : \A j \in smaller : i <= j

\* The handler goes before the first one of a greater level.
Insertion(list, h) ==
  LET greater == {i \in 1 .. Len(list) : Level[list[i]] > Level[h]}
  IN  IF greater = {}
      THEN Len(list) + 1
      ELSE CHOOSE i \in greater : \A j \in greater : i <= j

Insert(list, h) ==
  LET i == Insertion(list, h)
  IN  [j \in 1 .. (Len(list) + 1) |->
         IF j < i THEN list[j] ELSE IF j = i THEN h ELSE list[j - 1]]

list_del(list, h) ==
  LET i == CHOOSE k \in 1 .. Len(list) : list[k] = h
  IN  [j \in 1 .. (Len(list) - 1) |-> IF j < i THEN list[j] ELSE list[j + 1]]

\* Wrong: a handler registered late is not called.
register_early_suspend_silent(h) ==
  /\ Awake
  /\ mutex = Free
  /\ h \notin Listed
  /\ handlers' = Insert(handlers, h)
  /\ down' = [down EXCEPT ![h] = 0]
  /\ UNCHANGED <<requestVars, suspended, mutex, worklist, pc, pos, main_held>>

register_early_suspend(h) ==
  /\ Awake
  /\ mutex = Free
  /\ h \notin Listed
  /\ handlers' = Insert(handlers, h)
  /\ down' = [down EXCEPT ![h] = 0]
  /\ mutex' = IF suspended THEN h ELSE Free
  /\ UNCHANGED <<requestVars, suspended, worklist, pc, pos, main_held>>

\* handler->suspend(handler) returns; mutex_unlock.
register_call(h) ==
  /\ Awake
  /\ mutex = h
  /\ down' = [down EXCEPT ![h] = @ + 1]
  /\ mutex' = Free
  /\ UNCHANGED <<requestVars, suspended, handlers, worklist, pc, pos, main_held>>

unregister_early_suspend(h) ==
  /\ Awake
  /\ mutex = Free
  /\ h \in Listed
  /\ handlers' = list_del(handlers, h)
  /\ UNCHANGED <<requestVars, suspended, down, mutex, worklist, pc, pos,
                 main_held>>

-----------------------------------------------------------------------------
(* The worker.                                                             *)

\* run_workqueue takes the first item and clears its pending bit.
run_workqueue ==
  /\ pc = "idle"
  /\ worklist # <<>>
  /\ worklist' = Tail(worklist)
  /\ pc' = IF Head(worklist) = "early_suspend" THEN "early_lock"
           ELSE IF Head(worklist) = "late_resume" THEN "late_lock"
                ELSE "suspend"
  /\ UNCHANGED <<requestVars, suspended, handlers, down, mutex, pos, main_held>>

\* Wrong: SUSPENDED is not tested.
early_suspend_again ==
  /\ pc = "early_lock"
  /\ mutex = Free
  /\ IF requested
     THEN suspended' = TRUE /\ mutex' = Worker /\ pc' = "early_call" /\ pos' = 1
     ELSE pc' = "early_done" /\ UNCHANGED <<suspended, mutex, pos>>
  /\ UNCHANGED <<requestVars, handlers, down, worklist, main_held>>

\* Wrong: an aborted early_suspend returns at once.
early_suspend_returns ==
  /\ pc = "early_lock"
  /\ mutex = Free
  /\ IF requested /\ ~suspended
     THEN suspended' = TRUE /\ mutex' = Worker /\ pc' = "early_call" /\ pos' = 1
     ELSE pc' = "idle" /\ UNCHANGED <<suspended, mutex, pos>>
  /\ UNCHANGED <<requestVars, handlers, down, worklist, main_held>>

\* Wrong: a request that was taken back is acted on.
early_suspend_unasked ==
  /\ pc = "early_lock"
  /\ mutex = Free
  /\ IF ~suspended
     THEN suspended' = TRUE /\ mutex' = Worker /\ pc' = "early_call" /\ pos' = 1
     ELSE pc' = "early_done" /\ UNCHANGED <<suspended, mutex, pos>>
  /\ UNCHANGED <<requestVars, handlers, down, worklist, main_held>>

\* early_suspend: lock the mutex and test the state.
early_suspend ==
  /\ pc = "early_lock"
  /\ mutex = Free
  /\ IF requested /\ ~suspended
     THEN /\ suspended' = TRUE
          /\ mutex' = Worker
          /\ pc' = "early_call"
          /\ pos' = 1
     ELSE /\ pc' = "early_done"
          /\ UNCHANGED <<suspended, mutex, pos>>
  /\ UNCHANGED <<requestVars, handlers, down, worklist, main_held>>

early_suspend_call ==
  /\ pc = "early_call"
  /\ IF pos <= Len(handlers)
     THEN /\ down' = [down EXCEPT ![handlers[pos]] = @ + 1]
          /\ pos' = pos + 1
          /\ UNCHANGED <<mutex, pc>>
     ELSE /\ mutex' = Free
          /\ pc' = "early_done"
          /\ pos' = 0
          /\ UNCHANGED down
  /\ UNCHANGED <<requestVars, suspended, handlers, worklist, main_held>>

\* Wrong: main_wake_lock is released whatever the state is now.
early_suspend_done_always ==
  /\ pc = "early_done"
  /\ pc' = "idle"
  /\ main_held' = FALSE
  /\ UNCHANGED <<requestVars, suspended, handlers, down, mutex, worklist, pos>>

\* Wrong: only the request is tested.
early_suspend_done_requested ==
  /\ pc = "early_done"
  /\ pc' = "idle"
  /\ main_held' = (main_held /\ ~requested)
  /\ UNCHANGED <<requestVars, suspended, handlers, down, mutex, worklist, pos>>

\* After sys_sync, and on the abort path too: release main_wake_lock if sleep
\* is still wanted; wake_unlock queues suspend() if it was the last lock.
early_suspend_done ==
  /\ pc = "early_done"
  /\ pc' = "idle"
  /\ main_held' = (main_held /\ ~(requested /\ suspended))
  /\ \/ UNCHANGED worklist
     \/ requested /\ suspended /\ worklist' = queue_work(worklist, "suspend")
  /\ UNCHANGED <<requestVars, suspended, handlers, down, mutex, pos>>

late_resume ==
  /\ pc = "late_lock"
  /\ mutex = Free
  /\ IF suspended /\ ~requested
     THEN /\ suspended' = FALSE
          /\ mutex' = Worker
          /\ pc' = "late_call"
          /\ pos' = Len(handlers)
     ELSE /\ pc' = "idle"
          /\ UNCHANGED <<suspended, mutex, pos>>
  /\ UNCHANGED <<requestVars, handlers, down, worklist, main_held>>

late_resume_call ==
  /\ pc = "late_call"
  /\ IF pos >= 1
     THEN /\ down' = [down EXCEPT ![handlers[pos]] = @ - 1]
          /\ pos' = pos - 1
          /\ UNCHANGED <<mutex, pc>>
     ELSE /\ mutex' = Free
          /\ pc' = "idle"
          /\ UNCHANGED <<down, pos>>
  /\ UNCHANGED <<requestVars, suspended, handlers, worklist, main_held>>

\* The wake-lock core queues suspend() when another lock was the last.
queue_suspend ==
  /\ Awake
  /\ ~main_held
  /\ ~Queued("suspend")
  /\ worklist' = queue_work(worklist, "suspend")
  /\ UNCHANGED <<requestVars, suspended, handlers, down, mutex, pc, pos,
                 main_held>>

\* suspend() gives up when a lock is held, and calls
\* pm_suspend(requested_suspend_state), which refuses "on".
suspend ==
  /\ pc = "suspend"
  /\ \/ ~main_held /\ requested_suspend_state # "on" /\ pc' = "pm_suspend"
     \/ pc' = "idle"
  /\ UNCHANGED <<requestVars, suspended, handlers, down, mutex, worklist, pos,
                 main_held>>

\* The last test of the locks (power_suspend_late) and the sleep.
pm_suspend ==
  /\ pc = "pm_suspend"
  /\ \/ ~main_held /\ pc' = "asleep"
     \/ pc' = "idle"
  /\ UNCHANGED <<requestVars, suspended, handlers, down, mutex, worklist, pos,
                 main_held>>

wake ==
  /\ pc = "asleep"
  /\ pc' = "idle"
  /\ UNCHANGED <<requestVars, suspended, handlers, down, mutex, worklist, pos,
                 main_held>>

-----------------------------------------------------------------------------

Init ==
  /\ requested = FALSE
  /\ suspended = FALSE
  /\ requested_suspend_state = "mem"
  /\ global_state = "on"
  /\ handlers = <<>>
  /\ down = [h \in Handlers |-> 0]
  /\ mutex = Free
  /\ worklist = <<>>
  /\ pc = "idle"
  /\ pos = 0
  /\ main_held = TRUE

Request == \E s \in {"on"} \cup valid_states : state_store(s)

Registration ==
  \E h \in Handlers : \/ register_early_suspend(h)
                      \/ register_call(h)
                      \/ unregister_early_suspend(h)

Work ==
  \/ run_workqueue
  \/ early_suspend \/ early_suspend_call \/ early_suspend_done
  \/ late_resume \/ late_resume_call
  \/ suspend \/ pm_suspend

Next == Request \/ Registration \/ Work \/ queue_suspend \/ wake

Spec == Init /\ [][Next]_vars

\* The worker thread and a registering driver get the CPU, and handlers return.
\* Nobody has to make a request or to wake the system up, and the wake-lock
\* core may have other locks that keep suspend() away.
Fairness ==
  /\ WF_vars(Work)
  /\ \A h \in Handlers : WF_vars(register_call(h))
  /\ SF_vars(early_suspend)
  /\ SF_vars(late_resume)

FairSpec == Spec /\ Fairness

-----------------------------------------------------------------------------
(* Properties.                                                             *)

\* Every variable keeps its type; a work item is queued at most once.
TypeOK ==
  /\ requested \in BOOLEAN
  /\ suspended \in BOOLEAN
  /\ requested_suspend_state \in {"on", "mem"}
  /\ global_state \in {"on", "mem"}
  /\ handlers \in Seq(Handlers)
  /\ down \in [Handlers -> Int]
  /\ mutex \in {Free, Worker} \cup Handlers
  /\ worklist \in Seq(Works)
  /\ \A i, j \in 1 .. Len(worklist) : worklist[i] = worklist[j] => i = j
  /\ pc \in Places
  /\ pos \in 0 .. (Len(handlers) + 1)
  /\ main_held \in BOOLEAN

\* While the user wants the system on, main_wake_lock is held, however requests
\* overtake the work items that act on them (earlysuspend.c:107-110, 168).
OnMeansHeld == ~requested => main_held

\* main_wake_lock is given up only after every handler has been called: without
\* it the screen and the other early-suspend devices are down.
ReleasedMeansDown == ~main_held => suspended /\ pc # "early_call"

\* No handler is ever suspended twice or resumed twice, whatever mixture of
\* requests, aborted work items and registrations there is.
CallsAlternate == \A h \in Listed : down[h] \in {0, 1}

\* Whenever nobody holds early_suspend_lock the handlers agree with the
\* SUSPENDED bit: all of them are suspended, or none is (earlysuspend.h:25-28).
HandlersFollowState ==
  mutex = Free => \A h \in Listed : (down[h] = 1) <=> suspended

\* The system sleeps only with every registered handler suspended, apart from
\* one whose registration is still calling it.
AsleepMeansDown ==
  pc = "asleep" => \A h \in Listed \ {mutex} : down[h] = 1

\* The handlers are suspended in low to high level order and resumed in the
\* opposite order (earlysuspend.h:23-25): in the middle of a run of calls, no
\* handler is up whose level is below that of one that is down.
LevelOrder ==
  mutex = Worker =>
    \A h, k \in Listed : Level[h] < Level[k] /\ down[k] = 1 => down[h] = 1

\* The last request wins: if sleep stays requested, main_wake_lock is finally
\* released with the handlers down; if it stays not requested, every handler is
\* finally up, although work items abort when requests overtake them.
LastRequestWins ==
  /\ <>[]requested => <>[](suspended /\ ~main_held)
  /\ <>[]~requested => <>[](~suspended /\ mutex # Worker)
=============================================================================
