---------------------------- MODULE DriverProofs ----------------------------
(***************************************************************************)
(* Proofs about two drivers that early suspend calls: the keys, with the    *)
(* bookkeeping of the lines and the wake lock (GpioInput), and the          *)
(* framebuffer, with its handshake with user space (FbEarlySuspend).        *)
(***************************************************************************)
EXTENDS GpioInput, FbEarlySuspend, FiniteSetTheorems, TLAPS

-----------------------------------------------------------------------------
(* The inductive invariant.                                                *)

\* The timer and the lock at each place of the driver.
DriverOK ==
  /\ driver \in {"absent", "requested", "suspended"} => ~timer
  /\ driver = "absent" => lock = "none"
  /\ driver = "requested" => ~use_irq /\ stable = {} /\ ~rested
  /\ driver \in {"running", "suspending"} /\ use_irq /\ debounce_count > 0 => timer
  /\ lock = "held" => use_irq /\ debounce_count > 0

\* Only a key that is being debounced has its interrupt disabled by the handler.
UnstableOK ==
  Active => \A k \in Keys : sample[k] = "UNSTABLE" => use_irq /\ k \notin stable

LineInv == TypeOK /\ CountOK /\ IrqsBalanced /\ UnstableOK /\ NoLostEdge

LockInv == DriverOK /\ HeldWhileDebouncing

GpioInv == LineInv /\ LockInv

-----------------------------------------------------------------------------
(* Counting keys.                                                          *)

LEMMA CountRange ==
  ASSUME NEW S \in SUBSET Keys
  PROVE  /\ IsFiniteSet(S)
         /\ Cardinality(S) \in 0 .. Cardinality(Keys)
<1>1. IsFiniteSet(S) /\ Cardinality(S) <= Cardinality(Keys)
  BY KeysAssumption, FS_Subset
<1>2. Cardinality(S) \in Nat /\ Cardinality(Keys) \in Nat
  BY <1>1, KeysAssumption, FS_CardinalityType
<1> QED
  BY <1>1, <1>2

\* One key more is being debounced.
LEMMA CountStart ==
  ASSUME NEW S \in SUBSET Keys, NEW k \in S
  PROVE  Cardinality(Keys \ (S \ {k})) = Cardinality(Keys \ S) + 1
<1>1. Keys \ (S \ {k}) = (Keys \ S) \cup {k}
  OBVIOUS
<1>2. IsFiniteSet(Keys \ S)
  BY CountRange
<1> QED
  BY <1>1, <1>2, FS_AddElement

\* A scan counts the keys that begin and the keys that settle.
LEMMA CountScan ==
  ASSUME NEW S \in SUBSET Keys, NEW C \in SUBSET S, NEW D \in SUBSET (Keys \ S)
  PROVE  Cardinality(Keys \ ((S \cup D) \ C))
           = Cardinality(Keys \ S) + Cardinality(C) - Cardinality(D)
<1> DEFINE U == Keys \ S
           V == Keys \ ((S \cup D) \ C)
<1>1. V = (U \ D) \cup C
  OBVIOUS
<1>2. IsFiniteSet(U) /\ IsFiniteSet(D) /\ IsFiniteSet(C) /\ IsFiniteSet(U \ D)
  BY CountRange
<1>3. /\ Cardinality(U) \in Nat /\ Cardinality(D) \in Nat
      /\ Cardinality(C) \in Nat /\ Cardinality(U \ D) \in Nat
  BY <1>2, FS_CardinalityType
<1>4. Cardinality(U \ D) = Cardinality(U) - Cardinality(D)
  <2>1. U \cap D = D
    OBVIOUS
  <2> HIDE DEF U
  <2> QED
    BY <1>2, <2>1, FS_Difference
<1>5. Cardinality((U \ D) \cup C) = Cardinality(U \ D) + Cardinality(C)
  <2>1. (U \ D) \cap C = {}
    OBVIOUS
  <2> HIDE DEF U
  <2>2. Cardinality((U \ D) \cup C)
          = Cardinality(U \ D) + Cardinality(C) - Cardinality((U \ D) \cap C)
    BY <1>2, FS_Union
  <2>3. Cardinality((U \ D) \cap C) = 0
    BY <2>1, FS_EmptySet
  <2> QED
    BY <1>3, <2>2, <2>3
<1> HIDE DEF U, V
<1>6. Cardinality(V) = Cardinality(U) + Cardinality(C) - Cardinality(D)
  BY <1>1, <1>3, <1>4, <1>5
<1> QED
  BY <1>6 DEF U, V

-----------------------------------------------------------------------------
(* The steps.                                                              *)

LEMMA InvInit == Init => GpioInv
<1>1. Cardinality(Keys) \in Nat
  BY KeysAssumption, FS_CardinalityType
<1>2. Init => TypeOK
  <2>1. Init => /\ pressed \in [Keys -> BOOLEAN] /\ reported \in [Keys -> BOOLEAN]
                /\ use_irq \in BOOLEAN /\ timer \in BOOLEAN
                /\ suspend_work \in BOOLEAN /\ rested \in BOOLEAN
    BY Zenon DEF Init
  <2>2. Init => /\ pending \subseteq Keys /\ stable \subseteq Keys
                /\ depth \in [Keys -> 0 .. 2] /\ sample \in [Keys -> Samples]
                /\ debounce_count \in 0 .. Cardinality(Keys)
                /\ lock \in {"none", "inactive", "held"} /\ driver \in Places
    BY <1>1 DEF Init, Samples, Places
  <2> QED
    BY <2>1, <2>2, Zenon DEF TypeOK
<1>3. Init => ~Active /\ LockInv
  BY DEF Init, LockInv, DriverOK, HeldWhileDebouncing, Active
<1> QED
  BY <1>2, <1>3
  DEF GpioInv, LineInv, CountOK, IrqsBalanced, UnstableOK, NoLostEdge

LEMMA EdgeStep ==
  ASSUME GpioInv, NEW k \in Keys, Edge(k)
  PROVE  GpioInv'
BY DEF Edge, HasIrqs, keyVars, GpioInv, LineInv, LockInv, TypeOK, CountOK,
       IrqsBalanced, UnstableOK, NoLostEdge, DriverOK, HeldWhileDebouncing, Active

LEMMA WorkStep ==
  ASSUME GpioInv, run_workqueue
  PROVE  GpioInv'
BY DEF run_workqueue, keyVars, GpioInv, LineInv, LockInv, TypeOK, CountOK,
       IrqsBalanced, UnstableOK, NoLostEdge, DriverOK, HeldWhileDebouncing, Active

LEMMA IrqStep ==
  ASSUME GpioInv, NEW k \in Keys, gpio_event_input_irq_handler(k)
  PROVE  GpioInv'
<1> USE DEF gpio_event_input_irq_handler, HasIrqs, GpioInv, LineInv, LockInv,
            TypeOK, CountOK, IrqsBalanced, UnstableOK, NoLostEdge, DriverOK,
            HeldWhileDebouncing, Active, Places, Samples
<1>1. CASE ~use_irq
  <2>1. ~Active \/ ~use_irq'
    BY <1>1
  <2>2. UNCHANGED <<pressed, keyVars, use_irq, timer, lock, suspend_work, rested, driver>>
    BY <1>1
  <2> QED
    BY <2>1, <2>2 DEF keyVars
<1>2. CASE use_irq /\ k \in stable
  <2>1. StartDebounce(k)
    BY <1>2
  <2>2. debounce_count' = Cardinality(Keys \ stable')
    BY <2>1, <1>2, CountStart DEF StartDebounce
  <2>3. debounce_count' \in 0 .. Cardinality(Keys)
    <3>1. Keys \ stable' \subseteq Keys
      OBVIOUS
    <3> QED
      BY <2>2, <3>1, CountRange
  <2>4. TypeOK'
    BY <2>1, <2>3 DEF StartDebounce, wake_lock
  <2>5. LineInv'
    BY <1>2, <2>1, <2>2, <2>4 DEF StartDebounce
  <2>6. LockInv'
    BY <1>2, <2>1 DEF StartDebounce, wake_lock
  <2> QED
    BY <2>5, <2>6
<1>3. CASE use_irq /\ k \notin stable
  <2>1. Unstable(k)
    BY <1>3
  <2>2. Active /\ driver \notin {"suspending", "suspended"} /\ sample[k] # "UNSTABLE"
    BY <1>3
  <2>3. TypeOK'
    BY <2>1 DEF Unstable
  <2>4. CountOK' /\ NoLostEdge' /\ LockInv'
    BY <1>3, <2>1 DEF Unstable
  <2>5. IrqsBalanced' /\ UnstableOK'
    BY <1>3, <2>1, <2>2 DEF Unstable
  <2> QED
    BY <2>3, <2>4, <2>5
<1> QED
  BY <1>1, <1>2, <1>3

LEMMA TimerStep ==
  ASSUME GpioInv, gpio_event_input_timer_func
  PROVE  GpioInv'
<1> USE DEF gpio_event_input_timer_func, GpioInv
<1>1. Active /\ driver \in {"running", "suspending"} /\ TypeOK /\ CountOK
  BY DEF LockInv, LineInv, DriverOK, TypeOK, Places, Active
<1>2. Changed \subseteq stable /\ Settled \subseteq Keys \ stable /\ stable \subseteq Keys
  BY <1>1 DEF Changed, Settled, Scanned, TypeOK
<1>3. ScanCount = Cardinality(Keys \ stable')
  <2>1. Cardinality(Keys \ ((stable \cup Settled) \ Changed))
          = Cardinality(Keys \ stable) + Cardinality(Changed) - Cardinality(Settled)
    <3>1. /\ stable \in SUBSET Keys /\ Changed \in SUBSET stable
          /\ Settled \in SUBSET (Keys \ stable)
      BY <1>2
    <3> HIDE DEF gpio_event_input_timer_func, GpioInv
    <3> QED
      BY <3>1, CountScan, Zenon
  <2> QED
    BY <1>1, <2>1 DEF ScanCount, CountOK
<1>4. stable' \subseteq Keys
  BY <1>2
<1>5. ScanCount \in 0 .. Cardinality(Keys)
  BY <1>3, <1>4, CountRange
<1>6. depth' \in [Keys -> 0 .. 2]
  BY <1>1 DEF LineInv, IrqsBalanced, ScanDepth, TypeOK, Active
<1>7. TypeOK'
  BY <1>1, <1>4, <1>5, <1>6 DEF TypeOK, Samples, Level, wake_unlock
<1>8. IrqsBalanced' /\ UnstableOK'
  <2>1. \A k \in Keys : sample'[k] # "UNSTABLE" \/ (sample'[k] = sample[k] /\ k \notin Scanned)
    BY DEF Level
  <2>2. \A k \in Keys : sample[k] = "UNSTABLE" => k \in Scanned
    BY <1>1 DEF LineInv, UnstableOK, Scanned
  <2>3. \A k \in Keys : sample'[k] # "UNSTABLE"
    BY <2>1, <2>2
  <2>4. \A k \in Keys : depth'[k] = IF sample[k] = "UNSTABLE" THEN depth[k] - 1 ELSE depth[k]
    BY <2>2 DEF ScanDepth
  <2> QED
    BY <1>1, <2>3, <2>4 DEF LineInv, IrqsBalanced, UnstableOK, TypeOK, Active
<1>9. NoLostEdge'
  <2> SUFFICES ASSUME use_irq, NEW k \in stable', k \notin pending
               PROVE  reported'[k] = pressed[k]
    BY <1>1 DEF NoLostEdge, TypeOK, Active
  <2>1. k \in Keys /\ reported'[k] = IF k \in Settled THEN pressed[k] ELSE reported[k]
    BY <1>4
  <2>2. k \notin Settled => k \in stable
    OBVIOUS
  <2> QED
    BY <1>1, <2>1, <2>2 DEF LineInv, NoLostEdge
<1>10. CountOK'
  BY <1>3 DEF CountOK
<1>11. LockInv'
  <2>1. timer' <=> ScanCount # 0 \/ ~use_irq
    BY Zenon
  <2>2. rested' <=> rested \/ ScanCount = 0
    BY Zenon
  <2>3. timer' => lock' = lock
    BY Zenon
  <2>4. ~timer' => lock' = "inactive"
    BY Zenon DEF wake_unlock
  <2>5. UNCHANGED <<use_irq, driver>> /\ debounce_count' = ScanCount
    OBVIOUS
  <2>6. ScanCount # 0 <=> ScanCount > 0
    BY <1>5
  <2>7. /\ timer /\ LockInv /\ driver \in {"running", "suspending"} /\ Active
        /\ use_irq \in BOOLEAN
    BY <1>1 DEF TypeOK
  <2>8. use_irq /\ ScanCount > 0 => debounce_count > 0
    <3>1. use_irq => Cardinality(Changed) = 0
      <4>1. use_irq => Changed = {}
        BY DEF Changed, Scanned
      <4> QED
        BY <4>1, FS_EmptySet
    <3>2. Cardinality(Settled) \in Nat
      BY <1>2, CountRange
    <3>3. debounce_count \in Int
      BY <1>1, KeysAssumption, FS_CardinalityType DEF TypeOK
    <3> HIDE DEF gpio_event_input_timer_func, GpioInv
    <3> QED
      BY <3>1, <3>2, <3>3 DEF ScanCount
  <2> HIDE DEF gpio_event_input_timer_func, GpioInv
  <2> QED
    BY <2>1, <2>2, <2>3, <2>4, <2>5, <2>6, <2>7, <2>8
    DEF LockInv, DriverOK, HeldWhileDebouncing, Active
<1> QED
  BY <1>7, <1>8, <1>9, <1>10, <1>11 DEF LineInv

LEMMA FuncStep ==
  ASSUME GpioInv, Func
  PROVE  GpioInv'
<1> USE DEF Driver, GpioInv, LineInv, LockInv, TypeOK, CountOK, IrqsBalanced,
            UnstableOK, NoLostEdge, DriverOK, HeldWhileDebouncing, Active, Places,
            Samples
<1>1. CASE init_request
  <2>1. Cardinality(Keys) \in Nat
    BY KeysAssumption, FS_CardinalityType
  <2>2. TypeOK'
    <3>1. use_irq' \in BOOLEAN /\ rested' \in BOOLEAN
      BY <1>1, Zenon DEF init_request
    <3> QED
      BY <1>1, <2>1, <3>1 DEF init_request
  <2>3. IrqsBalanced' /\ UnstableOK' /\ NoLostEdge'
    BY <1>1 DEF init_request
  <2>4. CountOK'
    <3>1. Keys \ stable' = Keys /\ debounce_count' = Cardinality(Keys)
      BY <1>1 DEF init_request
    <3> QED
      BY <3>1, Zenon
  <2>5. LockInv'
    BY <1>1 DEF init_request
  <2> QED
    BY <2>2, <2>3, <2>4, <2>5
<1>2. CASE init_start
  BY <1>2 DEF init_start, keyVars
<1>3. CASE suspend_irqs
  BY <1>3 DEF suspend_irqs
<1>4. CASE suspend_timer
  BY <1>4 DEF suspend_timer, keyVars
<1>5. CASE resume
  BY <1>5 DEF resume
<1>6. CASE uninit
  BY <1>6 DEF uninit, keyVars
<1> QED
  BY <1>1, <1>2, <1>3, <1>4, <1>5, <1>6 DEF Func

LEMMA InvNext ==
  ASSUME GpioInv, [Next]_vars
  PROVE  GpioInv'
<1>1. CASE UNCHANGED vars
  BY <1>1
  DEF vars, GpioInv, LineInv, LockInv, TypeOK, CountOK, IrqsBalanced, UnstableOK,
      NoLostEdge, DriverOK, HeldWhileDebouncing, Active
<1> QED
  BY <1>1, EdgeStep, WorkStep, IrqStep, TimerStep, FuncStep DEF Next, Irq

-----------------------------------------------------------------------------
(* The results for the keys.                                               *)

LEMMA InvHolds == Spec => []GpioInv
BY InvInit, InvNext, PTL DEF Spec

\* For every number of keys the count, the depths of the interrupts and the
\* reported levels are right in every order of edges, scans and screen-offs
\* (gpio_input.c:80-122, 142-186, 250-259).
THEOREM LinesCorrect == Spec => []LinesInOrder
<1>1. GpioInv => LinesInOrder
  BY DEF GpioInv, LineInv, LinesInOrder
<1> QED
  BY <1>1, InvHolds, PTL

\* For every number of keys the lock is held exactly while a key that was hit
\* is debounced, and the timer that releases it is running
\* (gpio_input.c:142-147, 171-172).
THEOREM LockCorrect == Spec => []LockInOrder
<1>1. GpioInv => LockInOrder
  BY DEF GpioInv, LineInv, TypeOK, Places, LockInv, DriverOK, LockInOrder,
         HeldHasTimer
<1> QED
  BY <1>1, InvHolds, PTL

-----------------------------------------------------------------------------
(* The handshake of the framebuffer's handlers with the program that draws. *)

\* Where the program is agrees with the file it reads: an answer is only given
\* by a program that has stopped, and from then on it cannot get past its read
\* of wait_for_fb_wake.
ProgramOK ==
  /\ drawing <=> stage \in {"await_sleep", "release"}
  /\ thread[Display] = "sleep_show" => stage = "await_sleep"
  /\ thread[Display] = "wake_show" => stage = "await_wake"
  /\ fb_state = "STOPPED_DRAWING" => stage = "await_wake"

\* The inductive invariant.
HandshakeInv == FbTypeOK /\ NoLostWakeup /\ ProgramOK

LEMMA HandshakeInit == FbInit => HandshakeInv
BY ThreadsAssumption
DEF FbInit, HandshakeInv, FbTypeOK, NoLostWakeup,
    ProgramOK, FbStates, Stages, Threads

LEMMA HandlerStep ==
  ASSUME HandshakeInv, Handler
  PROVE  HandshakeInv'
<1> USE ThreadsAssumption
    DEF HandshakeInv, FbTypeOK, NoLostWakeup, ProgramOK, FbStates, Stages, Threads,
        userVars, Satisfied, Condition
<1>1. CASE stop_drawing_early_suspend
  BY <1>1 DEF stop_drawing_early_suspend
<1>2. CASE stop_drawing_returns
  BY <1>2 DEF stop_drawing_returns
<1>3. CASE start_drawing_late_resume
  BY <1>3 DEF start_drawing_late_resume
<1> QED
  BY <1>1, <1>2, <1>3 DEF Handler

LEMMA SleepShowStep ==
  ASSUME HandshakeInv, NEW t \in Threads, wait_for_fb_sleep_show(t)
  PROVE  HandshakeInv'
BY ThreadsAssumption
DEF wait_for_fb_sleep_show, Wait, Return, After,
    Condition, Satisfied,
    HandshakeInv, FbTypeOK, NoLostWakeup, ProgramOK,
    FbStates, Stages, Threads

LEMMA WakeShowStep ==
  ASSUME HandshakeInv, NEW t \in Threads, wait_for_fb_wake_show(t)
  PROVE  HandshakeInv'
BY ThreadsAssumption
DEF wait_for_fb_wake_show, Wait, Return, After,
    Condition, Satisfied,
    HandshakeInv, FbTypeOK, NoLostWakeup, ProgramOK,
    FbStates, Stages, Threads

LEMMA GoesOnStep ==
  ASSUME HandshakeInv, NEW t \in Threads, read_goes_on(t)
  PROVE  HandshakeInv'
BY ThreadsAssumption
DEF read_goes_on, Return, After, Condition, Satisfied,
    HandshakeInv, FbTypeOK, NoLostWakeup, ProgramOK,
    FbStates, Stages, Threads

LEMMA InterruptedStep ==
  ASSUME HandshakeInv, NEW t \in Threads, read_interrupted(t)
  PROVE  HandshakeInv'
BY ThreadsAssumption
DEF read_interrupted, Return, Condition, Satisfied,
    HandshakeInv, FbTypeOK, NoLostWakeup, ProgramOK,
    FbStates, Stages, Threads

LEMMA ProgramStep ==
  ASSUME HandshakeInv, screenReleased \/ screenAcquired
  PROVE  HandshakeInv'
BY ThreadsAssumption
DEF screenReleased, screenAcquired, Condition, Satisfied,
    HandshakeInv, FbTypeOK, NoLostWakeup, ProgramOK,
    FbStates, Stages, Threads

LEMMA HandshakeNext ==
  ASSUME HandshakeInv, [FbNext]_fbVars
  PROVE  HandshakeInv'
<1>1. CASE UNCHANGED fbVars
  BY <1>1
  DEF fbVars, HandshakeInv, FbTypeOK, NoLostWakeup, ProgramOK,
      Satisfied, Condition
<1> QED
  BY <1>1, HandlerStep, SleepShowStep, WakeShowStep, GoesOnStep,
     InterruptedStep, ProgramStep
  DEF FbNext, Read

\* The handshake is sound for every number of threads that watch: nobody draws
\* between the answer and the resume, and no wake-up is lost
\* (fbearlysuspend.c:30-46, 57, 81-97).
THEOREM Sound == FbSpec => []HandshakeSound
<1>1. HandshakeInv => HandshakeSound
  BY DEF HandshakeInv, HandshakeSound, ProgramOK, QuietWhenStopped
<1> QED
  BY <1>1, HandshakeInit, HandshakeNext, PTL DEF FbSpec

=============================================================================
