------------------------------ MODULE Freezer -------------------------------
(***************************************************************************)
(* The freezer of tasks (kernel/power/process.c, kernel/freezer.c), the    *)
(* tasks it freezes, and the gate that keeps the kernel from starting user  *)
(* processes meanwhile (kernel/kmod.c).                                     *)
(*                                                                         *)
(* One thread, in suspend_prepare and suspend_finish, closes the gate,      *)
(* freezes, works, thaws and opens the gate.  With one CPU and no           *)
(* preemption the tasks run only where that thread waits or yields; a scan  *)
(* of the task list is one step.                                           *)
(***************************************************************************)
EXTENDS Integers, Sequences, FiniteSets

CONSTANTS
  Slots,       \* places for user processes
  Threads,     \* the kernel threads that called set_freezable
  NoTask,      \* a null pointer
  MaxRequests  \* bound: requests for helpers in the queue of khelper

Tasks == Slots \cup Threads

ASSUME TasksAssumption ==
  /\ Slots \cap Threads = {}
  /\ NoTask \notin Tasks
  /\ MaxRequests \in Nat

VARIABLES
  kind,    \* "none", "user", "kthread", or "helper": a user process that
           \* khelper started, with the PF_NOFREEZE of its ancestor kthreadd
  where,   \* what the task is doing
  child,   \* the child that a vfork parent waits for
  freeze,  \* TIF_FREEZE
  frozen,  \* PF_FROZEN
  pc,      \* the place of the suspending thread
  todo,    \* try_to_freeze_tasks: a task was not frozen yet
  usermodehelper_disabled,
  running_helpers,
  khelper, \* the requests queued for khelper
  waits    \* the helpers whose exit somebody waits for

taskVars == <<kind, where, child, freeze, frozen>>

helperVars == <<usermodehelper_disabled, running_helpers, khelper, waits>>

vars == <<taskVars, pc, todo, helperVars>>

\* "vforked": the child is done, the parent has not called freezer_count yet.
Where == {"run", "vfork", "vforked", "stopped", "fridge", "exiting"}

\* enum umh_wait
Waits == {"UMH_NO_WAIT", "UMH_WAIT_EXEC", "UMH_WAIT_PROC"}

Places == {"idle", "disable", "scan_user", "user_scanned", "scan_all",
           "all_scanned", "frozen", "cancelled"}

\* The tasks get the CPU: the suspending thread waits, yields or does work in
\* which it sleeps.
Scheduled == pc # "cancelled"

\* A task can run arbitrary code.
Running(t) == kind[t] # "none" /\ where[t] = "run"

-----------------------------------------------------------------------------
(* What the tasks do.                                                      *)

\* refrigerator(), called through try_to_freeze when TIF_FREEZE is set.
EnterFridge(t) ==
  /\ where' = [where EXCEPT ![t] = "fridge"]
  /\ frozen' = [frozen EXCEPT ![t] = TRUE]
  /\ freeze' = [freeze EXCEPT ![t] = FALSE]

\* A task comes to a try_to_freeze on its way back to work.
try_to_freeze(t) ==
  IF freeze[t] THEN EnterFridge(t)
  ELSE /\ where' = [where EXCEPT ![t] = "run"]
       /\ UNCHANGED <<freeze, frozen>>

\* The signal code of a user process, or the loop of a kernel thread.
refrigerator(t) ==
  /\ Scheduled
  /\ Running(t) /\ freeze[t]
  /\ EnterFridge(t)
  /\ UNCHANGED <<kind, child, pc, todo, helperVars>>

leave_refrigerator(t) ==
  /\ Scheduled
  /\ where[t] = "fridge" /\ ~frozen[t]
  /\ where' = [where EXCEPT ![t] = "run"]
  /\ UNCHANGED <<kind, child, freeze, frozen, pc, todo, helperVars>>

\* copy_flags: the child inherits PF_NOFREEZE; TIF_FREEZE is cleared.
NewTask(t, c) ==
  /\ kind' = [kind EXCEPT ![c] = kind[t]]
  /\ freeze' = [freeze EXCEPT ![c] = FALSE]
  /\ frozen' = [frozen EXCEPT ![c] = FALSE]

\* copy_process gives up when a signal is pending, as it is after a request to
\* freeze.
do_fork(t, c) ==
  /\ Scheduled
  /\ Running(t) /\ kind[t] \in {"user", "helper"} /\ ~freeze[t]
  /\ kind[c] = "none"
  /\ NewTask(t, c)
  /\ where' = [where EXCEPT ![c] = "run"]
  /\ UNCHANGED <<child, pc, todo, helperVars>>

\* vfork: freezer_do_not_count, wait for the child.
do_vfork(t, c) ==
  /\ Scheduled
  /\ Running(t) /\ kind[t] = "user" /\ ~freeze[t]
  /\ kind[c] = "none"
  /\ NewTask(t, c)
  /\ where' = [where EXCEPT ![t] = "vfork", ![c] = "run"]
  /\ child' = [child EXCEPT ![t] = c]
  /\ UNCHANGED <<pc, todo, helperVars>>

\* mm_release wakes the vfork parent of t, if there is one.
Release(t, w) ==
  /\ where' = [p \in Tasks |-> IF p = t THEN w
                               ELSE IF child[p] = t THEN "vforked" ELSE where[p]]
  /\ child' = [p \in Tasks |-> IF child[p] = t THEN NoTask ELSE child[p]]

\* The child of a vfork replaces its address space.
exec(t) ==
  /\ Scheduled
  /\ Running(t) /\ \E p \in Tasks : child[p] = t
  /\ Release(t, "run")
  /\ UNCHANGED <<kind, freeze, frozen, pc, todo, helperVars>>

\* The vfork parent goes on.
freezer_count(t) ==
  /\ Scheduled
  /\ where[t] = "vforked"
  /\ try_to_freeze(t)
  /\ UNCHANGED <<kind, child, pc, todo, helperVars>>

\* exit_mm: the process is past its last try_to_freeze.
exit_mm(t) ==
  /\ Scheduled
  /\ Running(t) /\ kind[t] \in {"user", "helper"}
  /\ Release(t, "exiting")
  /\ freeze' = [freeze EXCEPT ![t] = FALSE]
  /\ UNCHANGED <<kind, frozen, pc, todo, helperVars>>

\* exit_notify sets exit_state; wait_for_helper reaps a helper and completes.
exit_notify(t) ==
  /\ Scheduled
  /\ where[t] = "exiting"
  /\ kind' = [kind EXCEPT ![t] = "none"]
  /\ where' = [where EXCEPT ![t] = "run"]
  /\ freeze' = [freeze EXCEPT ![t] = FALSE]
  /\ waits' = waits \ {t}
  /\ running_helpers' = IF t \in waits THEN running_helpers - 1
                                       ELSE running_helpers
  /\ UNCHANGED <<child, frozen, pc, todo, usermodehelper_disabled, khelper>>

\* SIGSTOP: the signal code looks for a request to freeze first.
do_signal_stop(t) ==
  /\ Scheduled
  /\ Running(t) /\ kind[t] = "user" /\ ~freeze[t]
  /\ where' = [where EXCEPT ![t] = "stopped"]
  /\ UNCHANGED <<kind, child, freeze, frozen, pc, todo, helperVars>>

\* SIGCONT, which may come from the kernel or a helper: finish_stop goes on.
finish_stop(t) ==
  /\ Scheduled
  /\ where[t] = "stopped"
  /\ try_to_freeze(t)
  /\ UNCHANGED <<kind, child, pc, todo, helperVars>>

-----------------------------------------------------------------------------
(* Helpers.                                                                *)

\* helper_lock; -EBUSY while the gate is closed.  A caller that does not wait
\* unlocks at once.
call_usermodehelper_exec(w) ==
  /\ Scheduled
  /\ ~usermodehelper_disabled
  /\ Len(khelper) < MaxRequests
  /\ khelper' = Append(khelper, w)
  /\ running_helpers' = IF w = "UMH_NO_WAIT" THEN running_helpers
                                             ELSE running_helpers + 1
  /\ UNCHANGED <<taskVars, pc, todo, usermodehelper_disabled, waits>>

\* khelper starts the process, which executes its program; with UMH_WAIT_EXEC
\* khelper sleeps in between (CLONE_VFORK), which this step leaves out.
__call_usermodehelper(c) ==
  /\ Scheduled
  /\ khelper # <<>>
  /\ kind[c] = "none"
  /\ kind' = [kind EXCEPT ![c] = "helper"]
  /\ where' = [where EXCEPT ![c] = "run"]
  /\ khelper' = Tail(khelper)
  /\ waits' = IF Head(khelper) = "UMH_WAIT_PROC" THEN waits \cup {c} ELSE waits
  /\ running_helpers' = IF Head(khelper) = "UMH_WAIT_EXEC"
                        THEN running_helpers - 1 ELSE running_helpers
  /\ UNCHANGED <<child, freeze, frozen, pc, todo, usermodehelper_disabled>>

\* kernel_thread fails, in khelper or in wait_for_helper: a caller that waits is
\* told at once.
kernel_thread_fails ==
  /\ Scheduled
  /\ khelper # <<>>
  /\ khelper' = Tail(khelper)
  /\ running_helpers' = IF Head(khelper) = "UMH_NO_WAIT"
                        THEN running_helpers ELSE running_helpers - 1
  /\ UNCHANGED <<taskVars, pc, todo, usermodehelper_disabled, waits>>

-----------------------------------------------------------------------------
(* The suspending thread.                                                  *)

Suspender(from, to) ==
  /\ pc = from
  /\ pc' = to

usermodehelper_disable ==
  /\ Suspender("idle", "disable")
  /\ usermodehelper_disabled' = TRUE
  /\ UNCHANGED <<taskVars, todo, running_helpers, khelper, waits>>

\* Wrong: the count is not looked at.
helpers_done_unchecked ==
  /\ Suspender("disable", "scan_user")
  /\ UNCHANGED <<taskVars, todo, helperVars>>

helpers_done ==
  /\ Suspender("disable", "scan_user")
  /\ running_helpers = 0
  /\ UNCHANGED <<taskVars, todo, helperVars>>

\* RUNNING_HELPERS_TIMEOUT
helpers_timeout ==
  /\ Suspender("disable", "idle")
  /\ running_helpers > 0
  /\ usermodehelper_disabled' = FALSE
  /\ UNCHANGED <<taskVars, todo, running_helpers, khelper, waits>>

\* freezeable(p): neither PF_NOFREEZE nor exit_state is set.
freezeable(t) == kind[t] \in {"user", "kthread"}

\* The tasks for which freeze_task returns true; it sets TIF_FREEZE and
\* signals or wakes them.  With sig_only kernel threads are left alone.
Asked(sig_only) ==
  {t \in Tasks : /\ freezeable(t) /\ ~frozen[t]
                 /\ sig_only => kind[t] = "user"}

\* Wrong: the scan does not count tasks that have been asked already.
try_to_freeze_tasks_once(sig_only, from, to) ==
  /\ Suspender(from, to)
  /\ freeze' = [t \in Tasks |-> freeze[t] \/ t \in Asked(sig_only)]
  /\ todo' = \E t \in Asked(sig_only) :
               ~freeze[t] /\ where[t] \notin {"stopped", "vfork", "vforked"}
  /\ UNCHANGED <<kind, where, child, frozen, helperVars>>

\* A scan.  Stopped tasks and vfork parents are asked but not waited for.
try_to_freeze_tasks(sig_only, from, to) ==
  /\ Suspender(from, to)
  /\ freeze' = [t \in Tasks |-> freeze[t] \/ t \in Asked(sig_only)]
  /\ todo' = \E t \in Asked(sig_only) :
               where[t] \notin {"stopped", "vfork", "vforked"}
  /\ UNCHANGED <<kind, where, child, frozen, helperVars>>

\* After the yield: another round, or the next loop.
freeze_processes ==
  /\ \/ todo /\ Suspender("user_scanned", "scan_user")
     \/ ~todo /\ Suspender("user_scanned", "scan_all")
     \/ todo /\ Suspender("all_scanned", "scan_all")
     \/ ~todo /\ Suspender("all_scanned", "frozen")
  /\ todo' = FALSE
  /\ UNCHANGED <<taskVars, helperVars>>

\* A wake lock was taken, or TIMEOUT has passed: cancel_freezing for all tasks.
\* The tasks that are frozen stay so.
freezing_fails ==
  /\ todo
  /\ \E from \in {"user_scanned", "all_scanned"} : Suspender(from, "cancelled")
  /\ freeze' = [t \in Tasks |-> FALSE]
  /\ todo' = FALSE
  /\ UNCHANGED <<kind, where, child, frozen, helperVars>>

\* Wrong: a task that is not frozen is passed over, its request kept.
thaw_processes_frozen ==
  /\ \E from \in {"frozen", "cancelled"} : Suspender(from, "idle")
  /\ frozen' = [t \in Tasks |-> IF freezeable(t) THEN FALSE ELSE frozen[t]]
  /\ usermodehelper_disabled' = FALSE
  /\ UNCHANGED <<kind, where, child, freeze, todo, running_helpers, khelper, waits>>

\* Wrong: kernel threads only.
thaw_processes_nosig ==
  /\ \E from \in {"frozen", "cancelled"} : Suspender(from, "idle")
  /\ frozen' = [t \in Tasks |-> IF kind[t] = "kthread" THEN FALSE ELSE frozen[t]]
  /\ freeze' = [t \in Tasks |-> IF freezeable(t) THEN FALSE ELSE freeze[t]]
  /\ usermodehelper_disabled' = FALSE
  /\ UNCHANGED <<kind, where, child, todo, running_helpers, khelper, waits>>

\* thaw_tasks twice, kernel threads first, then usermodehelper_enable.
thaw_processes ==
  /\ \E from \in {"frozen", "cancelled"} : Suspender(from, "idle")
  /\ frozen' = [t \in Tasks |-> IF freezeable(t) THEN FALSE ELSE frozen[t]]
  /\ freeze' = [t \in Tasks |-> IF freezeable(t) THEN FALSE ELSE freeze[t]]
  /\ usermodehelper_disabled' = FALSE
  /\ UNCHANGED <<kind, where, child, todo, running_helpers, khelper, waits>>

-----------------------------------------------------------------------------

\* At least init runs; processes and helpers come and go.
Init ==
  /\ \E s \in Slots :
       kind = [t \in Tasks |-> IF t \in Threads THEN "kthread"
                               ELSE IF t = s THEN "user" ELSE "none"]
  /\ where = [t \in Tasks |-> "run"]
  /\ child = [t \in Tasks |-> NoTask]
  /\ freeze = [t \in Tasks |-> FALSE]
  /\ frozen = [t \in Tasks |-> FALSE]
  /\ pc = "idle"
  /\ todo = FALSE
  /\ usermodehelper_disabled = FALSE
  /\ running_helpers = 0
  /\ khelper = <<>>
  /\ waits = {}

TaskStep ==
  \E t \in Tasks :
    \/ refrigerator(t) \/ leave_refrigerator(t)
    \/ exec(t) \/ freezer_count(t) \/ exit_mm(t) \/ exit_notify(t)
    \/ do_signal_stop(t) \/ finish_stop(t)
    \/ \E c \in Slots : do_fork(t, c) \/ do_vfork(t, c)

HelperStep ==
  \/ \E w \in Waits : call_usermodehelper_exec(w)
  \/ \E c \in Slots : __call_usermodehelper(c)
  \/ kernel_thread_fails

Freeze ==
  \/ usermodehelper_disable \/ helpers_done \/ helpers_timeout
  \/ try_to_freeze_tasks(TRUE, "scan_user", "user_scanned")
  \/ try_to_freeze_tasks(FALSE, "scan_all", "all_scanned")
  \/ freeze_processes \/ freezing_fails \/ thaw_processes

Next == TaskStep \/ HelperStep \/ Freeze

Spec == Init /\ [][Next]_vars

\* The suspending thread goes on: its waits are bounded by time-outs, and the
\* freezer does not scan for ever.  A thawed task gets the CPU.
Fairness ==
  /\ WF_vars(usermodehelper_disable \/ helpers_done \/ helpers_timeout
             \/ thaw_processes)
  /\ WF_vars(try_to_freeze_tasks(TRUE, "scan_user", "user_scanned"))
  /\ WF_vars(try_to_freeze_tasks(FALSE, "scan_all", "all_scanned"))
  /\ WF_vars(freeze_processes)
  /\ SF_vars(freezing_fails)
  /\ \A t \in Tasks : SF_vars(leave_refrigerator(t))

FairSpec == Spec /\ Fairness

-----------------------------------------------------------------------------
(* Properties.                                                             *)

\* Every variable keeps its type; running_helpers counts the requests somebody
\* waits for, in the queue or started.
TypeOK ==
  /\ kind \in [Tasks -> {"none", "user", "kthread", "helper"}]
  /\ where \in [Tasks -> Where]
  /\ child \in [Tasks -> Slots \cup {NoTask}]
  /\ freeze \in [Tasks -> BOOLEAN]
  /\ frozen \in [Tasks -> BOOLEAN]
  /\ pc \in Places
  /\ todo \in BOOLEAN
  /\ usermodehelper_disabled \in BOOLEAN
  /\ khelper \in Seq(Waits) /\ Len(khelper) <= MaxRequests
  /\ waits \subseteq Slots
  /\ running_helpers = Cardinality(waits)
       + Cardinality({i \in 1 .. Len(khelper) : khelper[i] # "UMH_NO_WAIT"})

\* Kernel threads are frozen after the user processes and thawed with them:
\* none is asked or frozen while a user process can still run and need it
\* (freezing-of-tasks.txt: "User space processes are generally frozen before
\* kernel threads").
KernelThreadsLast ==
  \A k \in Threads, t \in Tasks :
    freeze[k] \/ frozen[k] => ~(kind[t] = "user" /\ Running(t))

\* When freeze_processes has succeeded no freezable task runs, and none can:
\* it is in the refrigerator, or it is stopped or in vfork with TIF_FREEZE set
\* and will go there before it does anything else (process.c:60-65).  On the
\* way there the order of KernelThreadsLast is kept.
FrozenMeansStopped ==
  /\ KernelThreadsLast
  /\ pc = "frozen" =>
       \A t \in Tasks : freezeable(t) =>
         \/ where[t] = "fridge" /\ frozen[t]
         \/ where[t] \in {"vfork", "vforked", "stopped"} /\ freeze[t]

\* When the attempt is over nothing is left of it: no task is frozen and no
\* request is pending that would freeze one later with nobody to thaw it
\* (freezer.c:136-145).
NoneLeftFrozen ==
  pc = "idle" => \A t \in Tasks : ~frozen[t] /\ ~freeze[t]

\* Once usermodehelper_disable has succeeded no helper that somebody waits for
\* is queued or running until the thaw: a waiter that the freezer stops, or a
\* request made in a race with the gate, cannot leave one behind (kmod.c:311).
\* It rests on the count of running_helpers, which TypeOK states.
HelpersGated ==
  /\ TypeOK
  /\ pc \in {"scan_user", "user_scanned", "scan_all", "all_scanned", "frozen"} =>
       /\ waits = {}
       /\ \A i \in 1 .. Len(khelper) : khelper[i] = "UMH_NO_WAIT"

\* A task that goes into the refrigerator comes out again, whether the freezing
\* succeeds, is aborted by a wake lock or times out.
FridgeIsLeft ==
  \A t \in Tasks : where[t] = "fridge" ~> where[t] # "fridge"
=============================================================================
