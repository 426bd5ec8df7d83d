----------------------------- MODULE GpioInput ------------------------------
(***************************************************************************)
(* The keys of drivers/input/misc/gpio_input.c: interrupts on the edges of  *)
(* each line, a timer that samples the lines until two samples agree, and a *)
(* wake lock held meanwhile.                                               *)
(*                                                                         *)
(* The interrupt handler and the timer function run with interrupts off and *)
(* are one step each, as are the sections under irq_lock of                 *)
(* gpio_event_input_func; that function is called to start the driver, by   *)
(* its early-suspend handlers (gpio_event.c) and to stop it.  An edge on a  *)
(* line whose interrupt is disabled is kept and delivered later.            *)
(* debounce_time is not zero: with zero the handler would report the key.   *)
(***************************************************************************)
EXTENDS Integers, FiniteSets

CONSTANT Keys

ASSUME KeysAssumption == IsFiniteSet(Keys)

VARIABLES
  pressed,         \* per key: the level of its line
  pending,         \* the keys with an edge the handler has not seen
  depth,           \* per key: how often its interrupt is disabled
  sample,          \* per key: UNSTABLE, PRESSED, NOTPRESSED or UNKNOWN (both)
  stable,          \* the keys in WAIT_IRQ or POLL
  reported,        \* per key: the last input_event
  debounce_count,
  use_irq,
  timer,           \* the timer is started
  lock,            \* ds->wake_lock: "none", "inactive" or "held"
  suspend_work,    \* the wake-lock core was asked to look for sleep
  rested,          \* history: all keys have been stable since INIT
  driver           \* where the driver is

vars == <<pressed, pending, depth, sample, stable, reported, debounce_count,
          use_irq, timer, lock, suspend_work, rested, driver>>

keyVars == <<depth, sample, stable, reported, debounce_count>>

Samples == {"UNSTABLE", "PRESSED", "NOTPRESSED", "UNKNOWN"}

Places == {"absent", "requested", "running", "suspending", "suspended"}

\* Interrupts are requested.
HasIrqs == driver # "absent" /\ (driver = "requested" \/ use_irq)

-----------------------------------------------------------------------------
(* The lines, and the lock as module WakeLock has it.                      *)

\* A line changes; the edge is kept if the interrupt is requested.
Edge(k) ==
  /\ pressed' = [pressed EXCEPT ![k] = ~@]
  /\ pending' = IF HasIrqs THEN pending \cup {k} ELSE pending
  /\ UNCHANGED <<keyVars, use_irq, timer, lock, suspend_work, rested, driver>>

wake_lock == lock' = "held" /\ UNCHANGED suspend_work

\* The last lock to go queues suspend_work.
wake_unlock == lock' = "inactive" /\ suspend_work' = TRUE

run_workqueue ==
  /\ suspend_work
  /\ suspend_work' = FALSE
  /\ UNCHANGED <<pressed, pending, keyVars, use_irq, timer, lock, rested, driver>>

-----------------------------------------------------------------------------
(* gpio_event_input_irq_handler                                            *)

\* Wrong: a second key is left to the scan that is under way.
StartDebounce_first(k) ==
  IF debounce_count > 0
  THEN UNCHANGED <<keyVars, timer, lock, suspend_work>>
  ELSE /\ stable' = stable \ {k}
       /\ sample' = [sample EXCEPT ![k] = "UNKNOWN"]
       /\ debounce_count' = 1
       /\ wake_lock /\ timer' = TRUE
       /\ UNCHANGED <<depth, reported>>

\* The key was stable: debouncing starts.
StartDebounce(k) ==
  /\ stable' = stable \ {k}
  /\ sample' = [sample EXCEPT ![k] = "UNKNOWN"]
  /\ debounce_count' = debounce_count + 1
  /\ IF debounce_count = 0 THEN wake_lock /\ timer' = TRUE
                           ELSE UNCHANGED <<lock, suspend_work, timer>>
  /\ UNCHANGED <<depth, reported>>

\* An edge while debouncing: no more of them until the timer looks.
Unstable(k) ==
  /\ depth' = [depth EXCEPT ![k] = @ + 1]
  /\ sample' = [sample EXCEPT ![k] = "UNSTABLE"]
  /\ UNCHANGED <<stable, reported, debounce_count, timer, lock, suspend_work>>

gpio_event_input_irq_handler(k) ==
  /\ HasIrqs
  /\ k \in pending /\ depth[k] = 0
  /\ pending' = pending \ {k}
  /\ IF ~use_irq
     THEN UNCHANGED <<keyVars, timer, lock, suspend_work>>
     ELSE IF k \in stable THEN StartDebounce(k) ELSE Unstable(k)
  /\ UNCHANGED <<pressed, use_irq, rested, driver>>

-----------------------------------------------------------------------------
(* gpio_event_input_timer_func                                             *)

Level(k) == IF pressed[k] THEN "PRESSED" ELSE "NOTPRESSED"

\* The keys the scan does not pass over as waiting for an interrupt.
Scanned == IF use_irq THEN Keys \ stable ELSE Keys

\* Stable keys of a polled driver that changed.
Changed == {k \in Scanned \cap stable : sample[k] # Level(k)}

\* Keys whose last two samples agree.
Settled == {k \in Scanned \ stable : sample[k] = Level(k)}

ScanDepth ==
  [k \in Keys |-> IF k \in Scanned /\ sample[k] = "UNSTABLE" THEN depth[k] - 1
                                                            ELSE depth[k]]

ScanCount == debounce_count + Cardinality(Changed) - Cardinality(Settled)

\* Wrong: the lock goes before the last key is stable.
gpio_event_input_timer_func_early ==
  /\ timer
  /\ depth' = ScanDepth
  /\ sample' = [k \in Keys |-> IF k \in Changed THEN "UNKNOWN"
                               ELSE IF k \in Scanned THEN Level(k) ELSE sample[k]]
  /\ stable' = (stable \cup Settled) \ Changed
  /\ reported' = [k \in Keys |-> IF k \in Settled THEN pressed[k] ELSE reported[k]]
  /\ debounce_count' = ScanCount
  /\ rested' = (rested \/ ScanCount = 0)
  /\ timer' = (ScanCount # 0 \/ ~use_irq)
  /\ IF Settled = {} /\ ScanCount # 0 THEN UNCHANGED <<lock, suspend_work>>
                                      ELSE wake_unlock
  /\ UNCHANGED <<pressed, pending, use_irq, driver>>

gpio_event_input_timer_func ==
  /\ timer
  /\ depth' = ScanDepth
  /\ sample' = [k \in Keys |-> IF k \in Changed THEN "UNKNOWN"
                               ELSE IF k \in Scanned THEN Level(k) ELSE sample[k]]
  /\ stable' = (stable \cup Settled) \ Changed
  /\ reported' = [k \in Keys |-> IF k \in Settled THEN pressed[k] ELSE reported[k]]
  /\ debounce_count' = ScanCount
  /\ rested' = (rested \/ ScanCount = 0)
  /\ timer' = (ScanCount # 0 \/ ~use_irq)
  /\ IF timer' THEN UNCHANGED <<lock, suspend_work>> ELSE wake_unlock
  /\ UNCHANGED <<pressed, pending, use_irq, driver>>

-----------------------------------------------------------------------------
(* gpio_event_input_func                                                   *)

Driver(from, to) == driver = from /\ driver' = to

\* GPIO_EVENT_FUNC_INIT, up to the requests for interrupts.
init_request ==
  /\ Driver("absent", "requested")
  /\ lock' = "inactive"
  /\ debounce_count' = Cardinality(Keys)
  /\ sample' = [k \in Keys |-> "UNKNOWN"]
  /\ stable' = {}
  /\ depth' = [k \in Keys |-> 0]
  /\ use_irq' = FALSE
  /\ rested' = FALSE
  /\ UNCHANGED <<pressed, pending, reported, timer, suspend_work>>

\* The rest; without interrupts the keys are polled.
init_start ==
  /\ Driver("requested", "running")
  /\ \E irqs \in BOOLEAN :
       use_irq' = irqs /\ pending' = IF irqs THEN pending ELSE {}
  /\ timer' = TRUE
  /\ UNCHANGED <<pressed, keyVars, lock, suspend_work, rested>>

\* GPIO_EVENT_FUNC_SUSPEND: the interrupts, then, without the lock, the timer.
suspend_irqs ==
  /\ Driver("running", "suspending")
  /\ depth' = IF use_irq THEN [k \in Keys |-> depth[k] + 1] ELSE depth
  /\ UNCHANGED <<pressed, pending, sample, stable, reported, debounce_count,
                 use_irq, timer, lock, suspend_work, rested>>

suspend_timer ==
  /\ Driver("suspending", "suspended")
  /\ timer' = FALSE
  /\ UNCHANGED <<pressed, pending, keyVars, use_irq, lock, suspend_work, rested>>

\* Wrong: only the interrupts come back.
resume_irqs ==
  /\ Driver("suspended", "running")
  /\ depth' = IF use_irq THEN [k \in Keys |-> depth[k] - 1] ELSE depth
  /\ UNCHANGED <<pressed, pending, sample, stable, reported, debounce_count,
                 use_irq, timer, lock, suspend_work, rested>>

\* GPIO_EVENT_FUNC_RESUME
resume ==
  /\ Driver("suspended", "running")
  /\ depth' = IF use_irq THEN [k \in Keys |-> depth[k] - 1] ELSE depth
  /\ timer' = TRUE
  /\ UNCHANGED <<pressed, pending, sample, stable, reported, debounce_count,
                 use_irq, lock, suspend_work, rested>>

\* GPIO_EVENT_FUNC_UNINIT: the lock is destroyed as it is.
uninit ==
  /\ \E from \in {"running", "suspended"} : Driver(from, "absent")
  /\ timer' = FALSE
  /\ pending' = {}
  /\ lock' = "none"
  /\ UNCHANGED <<pressed, keyVars, use_irq, suspend_work, rested>>

-----------------------------------------------------------------------------

Init ==
  /\ pressed \in [Keys -> BOOLEAN]
  /\ pending = {}
  /\ depth = [k \in Keys |-> 0]
  /\ sample = [k \in Keys |-> "UNKNOWN"]
  /\ stable = {}
  /\ reported = [k \in Keys |-> FALSE]
  /\ debounce_count = 0
  /\ use_irq = FALSE
  /\ timer = FALSE
  /\ lock = "none"
  /\ suspend_work = FALSE
  /\ rested = FALSE
  /\ driver = "absent"

Irq == \E k \in Keys : gpio_event_input_irq_handler(k)

Func == init_request \/ init_start \/ suspend_irqs \/ suspend_timer \/ resume
        \/ uninit

Next ==
  \/ \E k \in Keys : Edge(k)
  \/ Irq \/ gpio_event_input_timer_func \/ Func \/ run_workqueue

Spec == Init /\ [][Next]_vars

\* Interrupts are delivered and timers fire.  A call of the driver that has
\* begun goes on; nothing obliges the user to switch the screen off or on.
Fairness ==
  /\ \A k \in Keys : WF_vars(gpio_event_input_irq_handler(k))
  /\ WF_vars(gpio_event_input_timer_func)
  /\ WF_vars(init_start) /\ WF_vars(suspend_timer)
  /\ WF_vars(run_workqueue)

FairSpec == Spec /\ Fairness

-----------------------------------------------------------------------------
(* Properties.                                                             *)

\* Every variable keeps its type: an interrupt is disabled at most twice, and
\* debounce_count stays within the number of keys.
TypeOK ==
  /\ pressed \in [Keys -> BOOLEAN]
  /\ pending \subseteq Keys
  /\ depth \in [Keys -> 0 .. 2]
  /\ sample \in [Keys -> Samples]
  /\ stable \subseteq Keys
  /\ reported \in [Keys -> BOOLEAN]
  /\ debounce_count \in 0 .. Cardinality(Keys)
  /\ use_irq \in BOOLEAN
  /\ timer \in BOOLEAN
  /\ lock \in {"none", "inactive", "held"}
  /\ suspend_work \in BOOLEAN
  /\ rested \in BOOLEAN
  /\ driver \in Places

Active == driver # "absent"

\* debounce_count is the number of keys that are being debounced: the timer is
\* restarted, and the lock released, by it (gpio_input.c:142-147, 171).
CountOK == Active => debounce_count = Cardinality(Keys \ stable)

\* Disabling and enabling are balanced: the handler, the early-suspend handlers
\* and the timer each undo only what they did, in every order
\* (gpio_input.c:80, 184, 250, 259).
IrqsBalanced ==
  Active => \A k \in Keys :
    depth[k] = (IF sample[k] = "UNSTABLE" THEN 1 ELSE 0)
                 + (IF use_irq /\ driver \in {"suspending", "suspended"} THEN 1 ELSE 0)

\* No edge is lost: the last event of a key at rest is the level of its line,
\* unless an interrupt is still to come (gpio_input.c:118-122, 168-170).
NoLostEdge ==
  Active /\ use_irq => \A k \in stable \ pending : reported[k] = pressed[k]

\* A lock that is held will be released: the timer is running, until the
\* early-suspend handler stops it.
HeldHasTimer ==
  lock = "held" /\ driver # "suspended" =>
    timer /\ use_irq /\ debounce_count > 0

\* Once the keys have been at rest the lock is held exactly while a key is
\* debounced, through edges, scans and screen-offs in every order: the system
\* does not sleep over a key that was hit, and the lock does not outlast the
\* debouncing (gpio_input.c:142-147, 171-172).
HeldWhileDebouncing ==
  Active /\ use_irq /\ rested => (debounce_count > 0 <=> lock = "held")

\* The bookkeeping of the lines is right whatever the order of edges, scans and
\* screen-offs, so that no edge is lost.
LinesInOrder == TypeOK /\ CountOK /\ IrqsBalanced /\ NoLostEdge

\* The lock is held when it must be, and something will release it.
LockInOrder == HeldHasTimer /\ HeldWhileDebouncing

\* A key whose line stays at a level is reported at that level, polled or not,
\* whatever the other keys do.
KeySettles ==
  \A k \in Keys, level \in BOOLEAN :
    <>[](driver = "running" /\ pressed[k] = level) => <>[](reported[k] = level)
=============================================================================
