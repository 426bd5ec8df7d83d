--------------------------- MODULE FreezerProofs ----------------------------
(* Proofs about the freezer of tasks and the gate for helpers.             *)
EXTENDS Freezer, FiniteSetTheorems, TLAPS

-----------------------------------------------------------------------------
(* The inductive invariant.                                                *)

\* The types without the count of helpers.
Types ==
  /\ kind \in [Tasks -> {"none", "user", "kthread", "helper"}]
  /\ where \in [Tasks -> Where]
  /\ child \in [Tasks -> Slots \cup {NoTask}]
  /\ freeze \in [Tasks -> BOOLEAN]
  /\ frozen \in [Tasks -> BOOLEAN]
  /\ pc \in Places
  /\ todo \in BOOLEAN
  /\ usermodehelper_disabled \in BOOLEAN

\* What a task can be doing: only freezable tasks are asked or frozen, only a
\* task in the refrigerator is frozen, and a vfork parent waits.
TasksOK ==
  \A t \in Tasks :
    /\ t \in Threads <=> kind[t] = "kthread"
    /\ kind[t] = "none" => where[t] = "run"
    /\ where[t] = "exiting" => kind[t] \in {"user", "helper"}
    /\ frozen[t] => where[t] = "fridge" /\ freezeable(t)
    /\ freeze[t] => freezeable(t)
    /\ child[t] # NoTask => where[t] = "vfork"

\* The task is stopped, and goes to the refrigerator before it does anything.
Stopped(t) ==
  \/ where[t] = "fridge" /\ frozen[t]
  \/ where[t] \in {"vfork", "vforked", "stopped"} /\ freeze[t]

\* The first loop is over, the second is over.
UsersDone ==
  \/ pc = "user_scanned" /\ ~todo
  \/ pc \in {"scan_all", "all_scanned", "frozen"}

AllDone == (pc = "all_scanned" /\ ~todo) \/ pc = "frozen"

\* What each place of the suspending thread owes to the scans before it.
PhasesOK ==
  /\ pc \in {"idle", "disable"} => \A t \in Tasks : ~frozen[t] /\ ~freeze[t]
  /\ UsersDone => \A t \in Tasks : kind[t] = "user" => Stopped(t)
  /\ AllDone => \A t \in Tasks : freezeable(t) => Stopped(t)
  /\ \A k \in Threads :
       freeze[k] \/ frozen[k] =>
         pc \in {"scan_all", "all_scanned", "frozen", "cancelled"}
  /\ KernelThreadsLast

TaskInv == Types /\ TasksOK /\ PhasesOK

\* The requests in a queue that somebody waits for.
Waited(q) == {i \in 1 .. Len(q) : q[i] # "UMH_NO_WAIT"}

\* The count of running_helpers, and the helpers it counts.
HelperInv ==
  /\ khelper \in Seq(Waits) /\ Len(khelper) <= MaxRequests
  /\ waits \subseteq Slots /\ IsFiniteSet(waits)
  /\ \A t \in waits : kind[t] = "helper"
  /\ running_helpers = Cardinality(waits) + Cardinality(Waited(khelper))
  /\ pc # "idle" => usermodehelper_disabled
  /\ pc \in {"scan_user", "user_scanned", "scan_all", "all_scanned", "frozen"} =>
       waits = {} /\ Waited(khelper) = {}

LEMMA TasksFact ==
  Tasks = Slots \cup Threads /\ Slots \cap Threads = {} /\ NoTask \notin Tasks
BY TasksAssumption DEF Tasks

-----------------------------------------------------------------------------
(* The steps of the tasks.                                                 *)

LEMMA TaskInit == Init => TaskInv
<1> SUFFICES ASSUME Init PROVE TaskInv
  OBVIOUS
<1>1. freeze \in [Tasks -> BOOLEAN] /\ frozen \in [Tasks -> BOOLEAN]
      /\ todo \in BOOLEAN /\ usermodehelper_disabled \in BOOLEAN
  BY Zenon DEF Init
<1>2. \A t \in Tasks : ~freeze[t] /\ ~frozen[t]
  BY DEF Init
<1>3. Types
  BY <1>1 DEF Init, Types, Where, Places
<1>4. TasksOK
  BY <1>2, TasksFact DEF Init, TasksOK
<1>5. PhasesOK
  BY <1>2, TasksFact DEF Init, PhasesOK, UsersDone, AllDone, KernelThreadsLast
<1> QED
  BY <1>3, <1>4, <1>5 DEF TaskInv

LEMMA RefrigeratorStep ==
  ASSUME TaskInv, NEW t \in Tasks, refrigerator(t)
  PROVE  TaskInv'
<1> USE TasksFact DEF TaskInv, refrigerator, EnterFridge, Running
<1>1. Types'
  BY DEF Types, Where, helperVars
<1>2. TasksOK'
  BY DEF TasksOK, Types, freezeable
<1>3. PhasesOK'
  BY DEF PhasesOK, TasksOK, Types, freezeable, UsersDone, AllDone, Stopped,
         KernelThreadsLast
<1> QED
  BY <1>1, <1>2, <1>3

LEMMA LeaveStep ==
  ASSUME TaskInv, NEW t \in Tasks, leave_refrigerator(t)
  PROVE  TaskInv'
<1> USE TasksFact DEF TaskInv, leave_refrigerator, Running
<1>1. Types'
  BY DEF Types, Where, helperVars
<1>2. TasksOK'
  BY DEF TasksOK, Types, freezeable
<1>3. PhasesOK'
  BY DEF PhasesOK, TasksOK, Types, freezeable, UsersDone, AllDone, Stopped,
         KernelThreadsLast, Scheduled
<1> QED
  BY <1>1, <1>2, <1>3

LEMMA ForkStep ==
  ASSUME TaskInv, NEW t \in Tasks, NEW c \in Slots, do_fork(t, c)
  PROVE  TaskInv'
<1> USE TasksFact DEF TaskInv, do_fork, NewTask, Running
<1>1. Types'
  BY DEF Types, Where, helperVars
<1>2. TasksOK'
  BY DEF TasksOK, Types, freezeable
<1>3. PhasesOK'
  BY DEF PhasesOK, TasksOK, Types, freezeable, UsersDone, AllDone, Stopped,
         KernelThreadsLast, Scheduled
<1> QED
  BY <1>1, <1>2, <1>3

LEMMA VforkStep ==
  ASSUME TaskInv, NEW t \in Tasks, NEW c \in Slots, do_vfork(t, c)
  PROVE  TaskInv'
<1> USE TasksFact DEF TaskInv, do_vfork, NewTask, Running
<1>1. Types'
  BY DEF Types, Where, Places, helperVars, taskVars
<1>2. TasksOK'
  BY DEF TasksOK, Types, freezeable, taskVars
<1>3. PhasesOK'
  BY DEF PhasesOK, TasksOK, Types, freezeable, UsersDone, AllDone, Stopped,
         KernelThreadsLast, Scheduled, Running, taskVars
<1> QED
  BY <1>1, <1>2, <1>3

LEMMA ExecStep ==
  ASSUME TaskInv, NEW t \in Tasks, exec(t)
  PROVE  TaskInv'
<1> USE TasksFact DEF TaskInv, exec, Release, Running
<1>1. Types'
  BY DEF Types, Where, Places, helperVars, taskVars
<1>2. TasksOK'
  BY DEF TasksOK, Types, freezeable, taskVars
<1>3. PhasesOK'
  BY DEF PhasesOK, TasksOK, Types, freezeable, UsersDone, AllDone, Stopped,
         KernelThreadsLast, Scheduled, Running, taskVars
<1> QED
  BY <1>1, <1>2, <1>3

LEMMA CountStep ==
  ASSUME TaskInv, NEW t \in Tasks, freezer_count(t)
  PROVE  TaskInv'
<1> USE TasksFact DEF TaskInv, freezer_count, try_to_freeze, EnterFridge
<1>1. Types'
  <2>1. UNCHANGED <<kind, child, pc, todo, usermodehelper_disabled>>
    BY DEF helperVars
  <2>2. /\ where' \in [Tasks -> Where]
        /\ freeze' \in [Tasks -> BOOLEAN] /\ frozen' \in [Tasks -> BOOLEAN]
    <3>1. CASE freeze[t]
      BY <3>1 DEF Types, Where
    <3>2. CASE ~freeze[t]
      BY <3>2 DEF Types, Where
    <3> QED  BY <3>1, <3>2
  <2> QED
    BY <2>1, <2>2 DEF Types
<1>2. TasksOK'
  BY DEF TasksOK, Types, freezeable, taskVars
<1>3. PhasesOK'
  BY DEF PhasesOK, TasksOK, Types, freezeable, UsersDone, AllDone, Stopped,
         KernelThreadsLast, Scheduled, Running, taskVars
<1> QED
  BY <1>1, <1>2, <1>3

LEMMA ExitStep ==
  ASSUME TaskInv, NEW t \in Tasks, exit_mm(t)
  PROVE  TaskInv'
<1> USE TasksFact DEF TaskInv, exit_mm, Release, Running
<1>1. Types'
  BY DEF Types, Where, Places, helperVars, taskVars
<1>2. TasksOK'
  BY DEF TasksOK, Types, freezeable, taskVars
<1>3. PhasesOK'
  BY DEF PhasesOK, TasksOK, Types, freezeable, UsersDone, AllDone, Stopped,
         KernelThreadsLast, Scheduled, Running, taskVars
<1> QED
  BY <1>1, <1>2, <1>3

LEMMA NotifyStep ==
  ASSUME TaskInv, NEW t \in Tasks, exit_notify(t)
  PROVE  TaskInv'
<1> USE TasksFact DEF TaskInv, exit_notify
<1>1. Types'
  BY DEF Types, Where, Places, helperVars, taskVars
<1>2. TasksOK'
  BY DEF TasksOK, Types, freezeable, taskVars
<1>3. PhasesOK'
  BY DEF PhasesOK, TasksOK, Types, freezeable, UsersDone, AllDone, Stopped,
         KernelThreadsLast, Scheduled, Running, taskVars
<1> QED
  BY <1>1, <1>2, <1>3

LEMMA StopStep ==
  ASSUME TaskInv, NEW t \in Tasks, do_signal_stop(t)
  PROVE  TaskInv'
<1> USE TasksFact DEF TaskInv, do_signal_stop, Running
<1>1. Types'
  BY DEF Types, Where, Places, helperVars, taskVars
<1>2. TasksOK'
  BY DEF TasksOK, Types, freezeable, taskVars
<1>3. PhasesOK'
  BY DEF PhasesOK, TasksOK, Types, freezeable, UsersDone, AllDone, Stopped,
         KernelThreadsLast, Scheduled, Running, taskVars
<1> QED
  BY <1>1, <1>2, <1>3

LEMMA ContStep ==
  ASSUME TaskInv, NEW t \in Tasks, finish_stop(t)
  PROVE  TaskInv'
<1> USE TasksFact DEF TaskInv, finish_stop, try_to_freeze, EnterFridge
<1>1. Types'
  <2>1. UNCHANGED <<kind, child, pc, todo, usermodehelper_disabled>>
    BY DEF helperVars
  <2>2. /\ where' \in [Tasks -> Where]
        /\ freeze' \in [Tasks -> BOOLEAN] /\ frozen' \in [Tasks -> BOOLEAN]
    <3>1. CASE freeze[t]
      BY <3>1 DEF Types, Where
    <3>2. CASE ~freeze[t]
      BY <3>2 DEF Types, Where
    <3> QED  BY <3>1, <3>2
  <2> QED
    BY <2>1, <2>2 DEF Types
<1>2. TasksOK'
  BY DEF TasksOK, Types, freezeable, taskVars
<1>3. PhasesOK'
  BY DEF PhasesOK, TasksOK, Types, freezeable, UsersDone, AllDone, Stopped,
         KernelThreadsLast, Scheduled, Running, taskVars
<1> QED
  BY <1>1, <1>2, <1>3

LEMMA HelperTaskStep ==
  ASSUME TaskInv, HelperStep
  PROVE  TaskInv'
<1> USE TasksFact DEF TaskInv, HelperStep, call_usermodehelper_exec,
                     __call_usermodehelper, kernel_thread_fails
<1>1. Types'
  BY DEF Types, Where, Places, helperVars, taskVars
<1>2. TasksOK'
  BY DEF TasksOK, Types, freezeable, taskVars
<1>3. PhasesOK'
  BY DEF PhasesOK, TasksOK, Types, freezeable, UsersDone, AllDone, Stopped,
         KernelThreadsLast, Scheduled, Running, taskVars
<1> QED
  BY <1>1, <1>2, <1>3

-----------------------------------------------------------------------------
(* The steps of the suspending thread.                                     *)

LEMMA GateStep ==
  ASSUME TaskInv, usermodehelper_disable \/ helpers_done \/ helpers_timeout
  PROVE  TaskInv'
<1> USE TasksFact DEF TaskInv, usermodehelper_disable, helpers_done,
                      helpers_timeout, Suspender
<1>1. Types'
  BY DEF Types, Where, Places, helperVars, taskVars
<1>2. TasksOK'
  BY DEF TasksOK, Types, freezeable, taskVars
<1>3. PhasesOK'
  BY DEF PhasesOK, TasksOK, Types, freezeable, UsersDone, AllDone, Stopped,
         KernelThreadsLast, Scheduled, Running, taskVars
<1> QED
  BY <1>1, <1>2, <1>3

LEMMA ScanUsersStep ==
  ASSUME TaskInv, try_to_freeze_tasks(TRUE, "scan_user", "user_scanned")
  PROVE  TaskInv'
<1> USE TasksFact DEF TaskInv, try_to_freeze_tasks, Suspender, Asked
<1>1. Types'
  BY DEF Types, Where, Places, helperVars, taskVars
<1>2. TasksOK'
  BY DEF TasksOK, Types, freezeable, taskVars
<1>3. PhasesOK'
  BY DEF PhasesOK, TasksOK, Types, freezeable, UsersDone, AllDone, Stopped,
         KernelThreadsLast, Scheduled, Running, taskVars
<1> QED
  BY <1>1, <1>2, <1>3

LEMMA ScanAllStep ==
  ASSUME TaskInv, try_to_freeze_tasks(FALSE, "scan_all", "all_scanned")
  PROVE  TaskInv'
<1> USE TasksFact DEF TaskInv, try_to_freeze_tasks, Suspender, Asked
<1>1. Types'
  BY DEF Types, Where, Places, helperVars, taskVars
<1>2. TasksOK'
  BY DEF TasksOK, Types, freezeable, taskVars
<1>3. PhasesOK'
  BY DEF PhasesOK, TasksOK, Types, freezeable, UsersDone, AllDone, Stopped,
         KernelThreadsLast, Scheduled, Running, taskVars
<1> QED
  BY <1>1, <1>2, <1>3

LEMMA RoundStep ==
  ASSUME TaskInv, freeze_processes
  PROVE  TaskInv'
<1> USE TasksFact DEF TaskInv, freeze_processes, Suspender
<1>1. Types'
  BY DEF Types, Where, Places, helperVars, taskVars
<1>2. TasksOK'
  BY DEF TasksOK, Types, freezeable, taskVars
<1>3. PhasesOK'
  BY DEF PhasesOK, TasksOK, Types, freezeable, UsersDone, AllDone, Stopped,
         KernelThreadsLast, Scheduled, Running, taskVars
<1> QED
  BY <1>1, <1>2, <1>3

LEMMA FailsStep ==
  ASSUME TaskInv, freezing_fails
  PROVE  TaskInv'
<1> USE TasksFact DEF TaskInv, freezing_fails, Suspender
<1>1. Types'
  BY DEF Types, Where, Places, helperVars, taskVars
<1>2. TasksOK'
  BY DEF TasksOK, Types, freezeable, taskVars
<1>3. PhasesOK'
  BY DEF PhasesOK, TasksOK, Types, freezeable, UsersDone, AllDone, Stopped,
         KernelThreadsLast, Scheduled, Running, taskVars
<1> QED
  BY <1>1, <1>2, <1>3

LEMMA ThawStep ==
  ASSUME TaskInv, thaw_processes
  PROVE  TaskInv'
<1> USE TasksFact DEF TaskInv, thaw_processes, Suspender
<1>1. Types'
  BY DEF Types, Where, Places, helperVars, taskVars
<1>2. TasksOK'
  BY DEF TasksOK, Types, freezeable, taskVars
<1>3. PhasesOK'
  BY DEF PhasesOK, TasksOK, Types, freezeable, UsersDone, AllDone, Stopped,
         KernelThreadsLast, Scheduled, Running, taskVars
<1> QED
  BY <1>1, <1>2, <1>3
LEMMA TaskNext ==
  ASSUME TaskInv, [Next]_vars
  PROVE  TaskInv'
<1>1. CASE UNCHANGED vars
  BY <1>1
  DEF vars, taskVars, helperVars, TaskInv, Types, TasksOK, PhasesOK, freezeable,
      UsersDone, AllDone, Stopped, KernelThreadsLast, Running
<1>2. CASE TaskStep
  BY <1>2, RefrigeratorStep, LeaveStep, ForkStep, VforkStep, ExecStep, CountStep,
     ExitStep, NotifyStep, StopStep, ContStep
  DEF TaskStep
<1>3. CASE HelperStep
  BY <1>3, HelperTaskStep
<1>4. CASE Freeze
  BY <1>4, GateStep, ScanUsersStep, ScanAllStep, RoundStep, FailsStep, ThawStep
  DEF Freeze
<1> QED
  BY <1>1, <1>2, <1>3, <1>4 DEF Next

-----------------------------------------------------------------------------
(* The count of helpers.                                                   *)

LEMMA WaitedFinite ==
  ASSUME NEW q \in Seq(Waits)
  PROVE  IsFiniteSet(Waited(q)) /\ Cardinality(Waited(q)) \in Nat
<1>1. IsFiniteSet(1 .. Len(q))
  BY FS_Interval
<1>2. Waited(q) \in SUBSET (1 .. Len(q))
  BY DEF Waited
<1>3. IsFiniteSet(Waited(q))
  BY <1>1, <1>2, FS_Subset
<1> QED
  BY <1>3, FS_CardinalityType

\* A request that somebody waits for is one more.
LEMMA WaitedAppend ==
  ASSUME NEW q \in Seq(Waits), NEW w \in Waits
  PROVE  Cardinality(Waited(Append(q, w)))
           = Cardinality(Waited(q)) + (IF w = "UMH_NO_WAIT" THEN 0 ELSE 1)
<1>1. Len(q) + 1 \notin Waited(q)
  BY DEF Waited
<1>2. CASE w = "UMH_NO_WAIT"
  <2>1. Waited(Append(q, w)) = Waited(q)
    BY <1>2 DEF Waited
  <2> QED
    BY <1>2, <2>1, WaitedFinite
<1>3. CASE w # "UMH_NO_WAIT"
  <2>1. Waited(Append(q, w)) = Waited(q) \cup {Len(q) + 1}
    BY <1>3 DEF Waited
  <2> QED
    BY <1>1, <1>3, <2>1, WaitedFinite, FS_AddElement
<1> QED
  BY <1>2, <1>3

\* The head of the queue is one less.
LEMMA WaitedTail ==
  ASSUME NEW q \in Seq(Waits), q # <<>>
  PROVE  Cardinality(Waited(Tail(q)))
           = Cardinality(Waited(q)) - (IF Head(q) = "UMH_NO_WAIT" THEN 0 ELSE 1)
<1> DEFINE S == Waited(q) \ {1}
           T == Waited(Tail(q))
           f == [i \in S |-> i - 1]
<1>1. /\ Tail(q) \in Seq(Waits) /\ Len(q) \in Nat \ {0} /\ Len(Tail(q)) = Len(q) - 1
      /\ \A i \in 1 .. Len(Tail(q)) : Tail(q)[i] = q[i + 1]
  OBVIOUS
<1>2. IsFiniteSet(S) /\ Cardinality(S) = Cardinality(T)
  <2>1. IsFiniteSet(S)
    BY WaitedFinite, FS_RemoveElement
  <2>2. f \in [S -> T]
    BY <1>1 DEF Waited
  <2>3. \A i, j \in S : f[i] = f[j] => i = j
    BY DEF Waited
  <2>4. \A j \in T : j + 1 \in S /\ f[j + 1] = j
    BY <1>1 DEF Waited
  <2> HIDE DEF f, S, T
  <2>5. f \in Bijection(S, T)
    <3>1. f \in Injection(S, T)
      BY <2>2, <2>3, Zenon DEF Injection, IsInjective
    <3>2. f \in Surjection(S, T)
      BY <2>2, <2>4, Zenon DEF Surjection
    <3> QED
      BY <3>1, <3>2, Zenon DEF Bijection
  <2> QED
    BY <2>1, <2>5, FS_Bijection DEF ExistsBijection
<1>3. 1 \in Waited(q) <=> Head(q) # "UMH_NO_WAIT"
  BY <1>1 DEF Waited
<1>4. Cardinality(S) = IF 1 \in Waited(q) THEN Cardinality(Waited(q)) - 1
                                          ELSE Cardinality(Waited(q))
  BY WaitedFinite, FS_RemoveElement
<1> HIDE DEF S, T
<1>5. Cardinality(T) = Cardinality(Waited(q))
                         - (IF Head(q) = "UMH_NO_WAIT" THEN 0 ELSE 1)
  BY <1>2, <1>3, <1>4, WaitedFinite
<1> QED
  BY <1>5 DEF T

LEMMA HelperInit == Init => HelperInv
<1>1. Cardinality({}) = 0 /\ IsFiniteSet({})
  BY FS_EmptySet
<1>2. Waited(<<>>) = {}
  BY DEF Waited
<1> SUFFICES ASSUME Init PROVE HelperInv
  OBVIOUS
<1>3. waits = {} /\ Waited(khelper) = {} /\ running_helpers = 0
  BY <1>2 DEF Init
<1>4. running_helpers = Cardinality(waits) + Cardinality(Waited(khelper))
  BY <1>1, <1>3
<1>5. khelper \in Seq(Waits) /\ Len(khelper) <= MaxRequests /\ pc = "idle"
  BY TasksAssumption DEF Init
<1> QED
  BY <1>1, <1>3, <1>4, <1>5 DEF HelperInv

LEMMA CallStep ==
  ASSUME HelperInv, NEW w \in Waits, call_usermodehelper_exec(w)
  PROVE  HelperInv'
<1> USE DEF HelperInv, call_usermodehelper_exec
<1>1. pc = "idle" /\ pc' = "idle"
  OBVIOUS
<1>2. Cardinality(Waited(khelper'))
        = Cardinality(Waited(khelper)) + (IF w = "UMH_NO_WAIT" THEN 0 ELSE 1)
  BY WaitedAppend
<1>3. running_helpers' = Cardinality(waits) + Cardinality(Waited(khelper'))
  BY <1>2, WaitedFinite, FS_CardinalityType
<1>4. khelper' \in Seq(Waits) /\ Len(khelper') <= MaxRequests
  BY TasksAssumption
<1> QED
  BY <1>1, <1>3, <1>4, Zenon DEF taskVars

LEMMA StartStep ==
  ASSUME TaskInv, HelperInv, NEW c \in Slots, __call_usermodehelper(c)
  PROVE  HelperInv'
<1> USE DEF HelperInv, __call_usermodehelper
<1>1. c \in Tasks /\ c \notin waits
  BY TasksFact
<1>2. Cardinality(Waited(khelper'))
        = Cardinality(Waited(khelper))
            - (IF Head(khelper) = "UMH_NO_WAIT" THEN 0 ELSE 1)
  BY WaitedTail
<1>3. Head(khelper) \in Waits /\ khelper' \in Seq(Waits) /\ Len(khelper') <= MaxRequests
  BY TasksAssumption
<1>4. IsFiniteSet(waits') /\ Cardinality(waits')
        = Cardinality(waits) + (IF Head(khelper) = "UMH_WAIT_PROC" THEN 1 ELSE 0)
  BY <1>1, FS_AddElement, FS_CardinalityType
<1>5. Cardinality(waits) \in Nat /\ Cardinality(Waited(khelper)) \in Nat
  BY WaitedFinite, FS_CardinalityType
<1>6. running_helpers' = Cardinality(waits') + Cardinality(Waited(khelper'))
  BY <1>2, <1>3, <1>4, <1>5 DEF Waits
<1>7. waits' \subseteq Slots /\ \A t \in waits' : kind'[t] = "helper"
  BY TasksFact DEF TaskInv, Types
<1>8. pc \in {"scan_user", "user_scanned", "scan_all", "all_scanned", "frozen"} =>
        waits' = {} /\ Waited(khelper') = {}
  <2> SUFFICES ASSUME Waited(khelper) = {}, waits = {}
               PROVE  waits' = {} /\ Waited(khelper') = {}
    OBVIOUS
  <2>1. Head(khelper) = "UMH_NO_WAIT"
    BY DEF Waited
  <2>2. Waited(khelper') = {}
    BY DEF Waited
  <2> QED
    BY <2>1, <2>2
<1> QED
  BY <1>3, <1>4, <1>6, <1>7, <1>8

LEMMA NotStartedStep ==
  ASSUME HelperInv, kernel_thread_fails
  PROVE  HelperInv'
<1> USE DEF HelperInv, kernel_thread_fails
<1>1. Cardinality(Waited(khelper'))
        = Cardinality(Waited(khelper))
            - (IF Head(khelper) = "UMH_NO_WAIT" THEN 0 ELSE 1)
  BY WaitedTail
<1>2. khelper' \in Seq(Waits) /\ Len(khelper') <= MaxRequests
  BY TasksAssumption
<1>3. Cardinality(waits) \in Nat /\ Cardinality(Waited(khelper)) \in Nat
  BY WaitedFinite, FS_CardinalityType
<1>4. running_helpers' = Cardinality(waits') + Cardinality(Waited(khelper'))
  BY <1>1, <1>3
<1>5. Waited(khelper) = {} => Waited(khelper') = {}
  BY DEF Waited
<1> QED
  BY <1>2, <1>4, <1>5 DEF taskVars

LEMMA ReapStep ==
  ASSUME TaskInv, HelperInv, NEW t \in Tasks, exit_notify(t)
  PROVE  HelperInv'
<1> USE DEF HelperInv, exit_notify
<1>1. IsFiniteSet(waits') /\ Cardinality(waits')
        = Cardinality(waits) - (IF t \in waits THEN 1 ELSE 0)
  BY FS_RemoveElement, FS_CardinalityType
<1>2. Cardinality(waits) \in Nat /\ Cardinality(Waited(khelper)) \in Nat
  BY WaitedFinite, FS_CardinalityType
<1>3. running_helpers' = Cardinality(waits') + Cardinality(Waited(khelper'))
  BY <1>1, <1>2
<1>4. \A s \in waits' : kind'[s] = "helper"
  BY TasksFact DEF TaskInv, Types
<1> QED
  BY <1>1, <1>3, <1>4

\* The other steps of a task leave the helpers that are waited for alone.
LEMMA OtherTaskStep ==
  ASSUME TaskInv, HelperInv, UNCHANGED <<pc, helperVars>>,
         \A t \in Tasks : kind[t] # "none" => kind'[t] = kind[t]
  PROVE  HelperInv'
BY TasksFact DEF HelperInv, helperVars

LEMMA GateHelperStep ==
  ASSUME HelperInv, Freeze
  PROVE  HelperInv'
<1>1. CASE helpers_done
  <2>1. Cardinality(waits) \in Nat /\ Cardinality(Waited(khelper)) \in Nat
    BY WaitedFinite, FS_CardinalityType DEF HelperInv
  <2>2. Cardinality(waits) = 0 /\ Cardinality(Waited(khelper)) = 0
    BY <1>1, <2>1 DEF helpers_done, HelperInv
  <2>3. waits = {} /\ Waited(khelper) = {}
    BY <2>2, WaitedFinite, FS_EmptySet DEF HelperInv
  <2> QED
    BY <1>1, <2>3 DEF helpers_done, HelperInv, Suspender, helperVars, taskVars
<1>2. CASE usermodehelper_disable \/ helpers_timeout
  BY <1>2
  DEF usermodehelper_disable, helpers_timeout, Suspender, HelperInv, taskVars
<1>3. CASE \/ try_to_freeze_tasks(TRUE, "scan_user", "user_scanned")
           \/ try_to_freeze_tasks(FALSE, "scan_all", "all_scanned")
  BY <1>3 DEF try_to_freeze_tasks, Suspender, HelperInv, helperVars
<1>4. CASE freeze_processes \/ freezing_fails
  BY <1>4
  DEF freeze_processes, freezing_fails, Suspender, HelperInv, helperVars, taskVars
<1>5. CASE thaw_processes
  BY <1>5 DEF thaw_processes, Suspender, HelperInv
<1> QED
  BY <1>1, <1>2, <1>3, <1>4, <1>5 DEF Freeze

LEMMA HelperNext ==
  ASSUME TaskInv, HelperInv, [Next]_vars
  PROVE  HelperInv'
<1>1. CASE UNCHANGED vars
  BY <1>1 DEF vars, taskVars, helperVars, HelperInv
<1>2. CASE TaskStep
  <2> PICK t \in Tasks :
        \/ refrigerator(t) \/ leave_refrigerator(t)
        \/ exec(t) \/ freezer_count(t) \/ exit_mm(t) \/ exit_notify(t)
        \/ do_signal_stop(t) \/ finish_stop(t)
        \/ \E c \in Slots : do_fork(t, c) \/ do_vfork(t, c)
    BY <1>2 DEF TaskStep
  <2>1. CASE exit_notify(t)
    BY <2>1, ReapStep
  <2>2. CASE \/ refrigerator(t) \/ leave_refrigerator(t)
             \/ exec(t) \/ freezer_count(t) \/ exit_mm(t)
             \/ do_signal_stop(t) \/ finish_stop(t)
    BY <2>2, OtherTaskStep
    DEF refrigerator, leave_refrigerator, exec, freezer_count, exit_mm,
        do_signal_stop, finish_stop
  <2>3. CASE \E c \in Slots : do_fork(t, c) \/ do_vfork(t, c)
    BY <2>3, OtherTaskStep, TasksFact
    DEF do_fork, do_vfork, NewTask, TaskInv, Types
  <2> QED
    BY <2>1, <2>2, <2>3
<1>3. CASE HelperStep
  BY <1>3, CallStep, StartStep, NotStartedStep DEF HelperStep
<1>4. CASE Freeze
  BY <1>4, GateHelperStep
<1> QED
  BY <1>1, <1>2, <1>3, <1>4 DEF Next

-----------------------------------------------------------------------------
(* The results, for every number of processes and threads.                 *)

LEMMA InvHolds == Spec => [](TaskInv /\ HelperInv)
BY TaskInit, TaskNext, HelperInit, HelperNext, PTL DEF Spec

\* A freezer that has succeeded has stopped every freezable task, user
\* processes before kernel threads (process.c:28-101, 117-135).
THEOREM FrozenTasksStopped == Spec => []FrozenMeansStopped
<1>1. TaskInv => FrozenMeansStopped
  BY DEF TaskInv, PhasesOK, AllDone, Stopped, FrozenMeansStopped
<1> QED
  BY <1>1, InvHolds, PTL

\* When the attempt is over no task is frozen or asked (process.c:79-87,
\* 137-162; freezer.c:127-147).
THEOREM AllThawed == Spec => []NoneLeftFrozen
<1>1. TaskInv => NoneLeftFrozen
  BY DEF TaskInv, PhasesOK, NoneLeftFrozen
<1> QED
  BY <1>1, InvHolds, PTL

\* running_helpers counts the requests that are waited for, and behind the
\* closed gate there is none (kmod.c:280-340).
THEOREM GateHolds == Spec => []HelpersGated
<1>1. TaskInv /\ HelperInv => HelpersGated
  BY DEF TaskInv, Types, HelperInv, HelpersGated, TypeOK, Waited
<1> QED
  BY <1>1, InvHolds, PTL
=============================================================================
