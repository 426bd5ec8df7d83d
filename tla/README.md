# A TLA+ model of the Android power manager of the Eclair kernel

The repository is Linux 2.6.29 with the Android patches of the Eclair release
and Samsung's support for the S5P6442 ("apollo"). What is particular to it is
how the system goes to sleep: drivers and user space hold *wake locks*, user
space writes `mem` or `on` to `/sys/power/state`, *early suspend* switches the
screen and other devices off at once, and the system suspends by itself as soon
as no wake lock is left. This directory models that machinery
(`src/kernel/kernel/power/`), the device power management and the freezer below
it, two of its users and the Android logger and model-checks them with TLC.
TLAPS proves every invariant, action property and refinement the passing runs
check, for every value of the constants; liveness is left to TLC.

The configuration modelled is the one the phone is built with: one CPU, no
kernel preemption, HZ = 200, `CONFIG_WAKELOCK`, `CONFIG_WAKELOCK_STAT`,
`CONFIG_EARLYSUSPEND`, `CONFIG_SUSPEND_FREEZER`; no hibernation, no
`CONFIG_PM_DEBUG`.

## 1. Inventory

| Component | State | Operations | Hard behaviour |
|---|---|---|---|
| Wake locks (`wakelock.c`) | two active lists, the flags and expiry of each lock, `expire_timer`, `suspend_work`, `current_event_num`, the charges of the statistics | `wake_lock`, `wake_lock_timeout`, `wake_unlock`, `wake_lock_init`, `wake_lock_destroy`, `has_wake_lock`, the timer handler, the work item `suspend()`, `power_suspend_late` | locks change at every point of `suspend()`; the timer is detached before its handler runs; jiffies wrap |
| Early suspend (`earlysuspend.c`) | `state` (two bits), `requested_suspend_state`, the sorted list of handlers, `early_suspend_lock` | `request_suspend_state`, `register_early_suspend`, `unregister_early_suspend`, the work items `early_suspend` and `late_resume` | requests overtake the work items; registration while suspended |
| Suspend core (`main.c`) | `pm_mutex`, `suspend_ops`, `global_state`, the CPU governor | `pm_suspend` and the functions below it, `state_store`, `state_show` | every step may fail and has to be undone |
| Device power management (`drivers/base/power/main.c`) | `dpm_list`, a status for each device, `transition_started` | prepare, suspend, power down, power up, resume, complete; `device_pm_add`, `device_pm_remove` | partial failure; devices come and go in every callback |
| Freezer (`process.c`, `../freezer.c`, `../kmod.c`) | freeze flags of the tasks, `usermodehelper_disabled`, `running_helpers` | `freeze_processes`, `thaw_processes`, `refrigerator`, `call_usermodehelper_exec` | tasks fork, vfork, stop and exit meanwhile; helpers race with the gate |
| Timer wheel, work queues (`../timer.c`, `../workqueue.c`) | the pending timer, the list of items and their pending bits | `mod_timer`, `del_timer`, `__run_timers`, `queue_work`, `run_workqueue` | the pending state ends before the callback runs |
| User wake locks (`userwakelock.c`) | a tree of named locks | writes to `wake_lock` and `wake_unlock` | names that begin alike; a 64-bit number of jiffies goes into a 32-bit long |
| Framebuffer handlers (`fbearlysuspend.c`) | `fb_state` | stop drawing and wait for user space, start drawing | time-out against a late answer |
| GPIO keys (`drivers/input/misc/gpio_input.c`) | per key debounce state, `debounce_count`, a timer, a wake lock | interrupt handler, timer, suspend, resume, init, uninit | the five interleave; interrupts are disabled by two parties |
| Logger (`drivers/staging/android/logger.c`) | a ring, the write offset, an offset for each reader | write, read, open, release, flush | writers lap readers; copies fault; sleeping readers |
| Alarm driver, binder, ashmem, pmem, low memory killer, timed output | | | not modelled |

The components meet in few places. `early_suspend` releases `main_wake_lock`
and `request_suspend_state` takes it; all three work items share the single
thread of `suspend_work_queue`; the release or expiry of the last lock queues
`suspend_work`; `suspend()` calls `pm_suspend`, which calls the notifiers, the
gate of the helpers, the freezer and the devices, and calls back into the wake
locks twice, from the freezer and, with interrupts off, from
`power_suspend_late`. The framebuffer and the keys are handlers of early
suspend; the keys and user space hold wake locks.

What makes them correct: no sleep while a lock is held; no request to sleep
lost; no lock dropped by anyone but its owner or time; the screen is on, or on
its way, when the user wants it on, and its handlers are called alternately and
in order; an attempt that fails anywhere leaves nothing behind; no device sleeps
before its children; no task runs past the freezer or stays in it; drawing
stops and starts again; no key stroke is lost; the log can be read from every
offset somebody will read from. `PROJECT.json` lists the hazards, each at its
line.

## 2. Modules

| Module | Contents |
|---|---|
| `WakeLock` | `wakelock.c`, with the path of `suspend()` through `pm_suspend` |
| `SuspendBlocker` | the abstract promise: held blockers prevent sleep, and sleep is tried again once none is held |
| `EarlySuspend` | `earlysuspend.c` and `/sys/power/state` |
| `PowerSystem` | `WakeLock` and `EarlySuspend` composed over `main_wake_lock` and the worker |
| `UserWakeLock` | `userwakelock.c`, on top of `WakeLock` |
| `DevicePM` | `drivers/base/power/main.c` |
| `SuspendCore` | `kernel/power/main.c` from `enter_state` down, on top of `DevicePM` |
| `Freezer` | `process.c`, `freezer.c`, the helpers' gate of `kmod.c`, and the tasks |
| `FbEarlySuspend` | `fbearlysuspend.c` and the program that draws |
| `GpioInput` | `gpio_input.c` |
| `Logger` | `logger.c` |
| `MC...` | instances for TLC, where a cfg alone cannot state them |
| `WakeLockProofs`, `EarlySuspendProofs`, `PowerSystemProofs`, `UserWakeLockProofs`, `SuspendCoreProofs`, `FreezerProofs`, `LoggerProofs` | the theorems about the module of that name; those about `DevicePM` are in `SuspendCoreProofs` |
| `DriverProofs` | the theorems about `GpioInput` and `FbEarlySuspend` |

### WakeLock

*State.* `flags[l]` folds INITIALIZED, ACTIVE and AUTO_EXPIRE into one mode
(`uninit`, `inactive`, `permanent`, `timed`). `left[l]` is
`(long)(expires - jiffies)`: time is kept relative to now, a value in
`-H .. H-1` that wraps when it goes below `-H` as the 32-bit subtraction does
(`H` is 2^31 in the code). `before` is the order of each active list as a set
of pairs. `events` is the difference `current_event_num - entry_event_num`
modulo `EventMod` (2^32 in the code), kept only where `suspend()` will look at
it. `pc` is the place of the worker in `suspend()` and `pm_suspend()`. `dropped`
is a history: the last lock held without a time-out was destroyed, and since then
no lock was taken or released that would set the timer or queue the work item.

*Actions.* One for each function; a critical section under `list_lock` is one
step because interrupts are off and there is one CPU. `wake_lock_internal` and
`wake_unlock` contain all that the functions do: the statistics flag, the list,
the scan that expires other locks, the timer and the work item. `has_wake_lock`
is written as a relation between the list and its result `r`, with the side
effect of the scan in `expire_wake_lock`. `run_timers` and `expire_wake_locks`
are two steps, since `__run_timers` enables interrupts between the detaching of
the timer and the call of its handler. `suspend()` is cut where others can run:
after the pending bit is cleared, after the first look for locks, after the copy
of the event number, in the freezer, before the devices, with interrupts off,
asleep, on the way out, before `unknown_wakeup`. Each early exit of `pm_suspend`
(an invalid state, a busy `pm_mutex`, a notifier, the freezer, memory, a device,
a late device) is an instance of `pm_suspend_fails`, at the place where it happens.

*Environment.* Any driver may take, release, initialise or destroy its lock
whenever interrupts are on. While the timer softirq runs (`timer_running`) the
worker does not, but interrupt handlers do. `main_wake_lock` is used by early
suspend only, without a time-out. Any initialised lock of a driver may be
destroyed, held or not: `evdev_release` does it to a timed one,
`gpio_input.c:350` and `gpio_matrix.c:404` to one held without a time-out. The
last case disarms the core (`dropped`; see section 5), and the
properties that promise another attempt name it as their exception. Released and
destroyed locks are initialised ones, as the BUG_ON demands for taking.

### EarlySuspend

*State.* `state` as its two bits, the list of handlers as a sequence,
`down[h]` as the number of suspend calls minus that of resume calls of `h`
since it was registered, the holder of `early_suspend_lock`, the list of work
items, and whether `main_wake_lock` is held.

*Actions.* A write to the file is one step (`state_lock` is taken with
interrupts off). `early_suspend` and `late_resume` are cut at the mutex, at each
call of a handler, which may sleep, and before the second test of the state.
`register_early_suspend` is cut before its direct call. `suspend()` appears as
the wake-lock core promises it: queued at any time when main is free, and asleep
only while main is free; other locks may keep it away. The step that releases
main may queue it at once, as `wake_unlock` of the last lock does. A handler
here has both hooks; the code skips a missing one.

### PowerSystem

The actions are those of the two modules, joined where one calls the other:
`request_suspend_state` takes main in the same step, the second test of
`early_suspend` releases it with all that `wake_unlock` does, and the worker runs
one item at a time from one list. Nothing is modelled twice: `ES` and `WL` are
instances, and the variables both have are tied by the actions. `EarlySuspend`
is shown to be implemented, which discharges what it assumes of `suspend()`.
The assumptions repeat those of the parts, whose modules it instantiates.

### UserWakeLock

Names are sequences of characters, since `strncmp` over the length of the name
that is looked for is the point of the tree; no character of a name is zero
(`NamesAssumption`). The tree is the sequence of its names from left to right.
`Descent` is the place where the search for a name ends, and `rb_insert` links
it in there. A store holds `tree_lock`; between
its `wake_lock_init` and its `wake_lock` the timer, the worker and interrupts may
run. `Jiffies` is the u64 arithmetic, wrap included, `ToLong` the assignment to
a long. `asked` (a history variable) counts down what each name was asked for.

### DevicePM and SuspendCore

`dpm_list` and the local list of the running loop are sequences; a step ends
where `dpm_list_mtx` is free, that is, at each callback, and there devices are
registered and removed. Histories: how far its callbacks have brought each
device (`stage`), which devices were registered under a warning of
`device_pm_add` (`warned`), and which while `dpm_complete` ran (`late`).

`SuspendCore` adds the place in `enter_state`, the list of what has been done
and not undone, the notifiers, the governor and the result. Each call that can
fail has an action for each outcome. `pm_mutex` is only tried; another holder
is modelled. The S5P6442 has no platform hook but `enter`; the others succeed.

### Freezer

Tasks are slots for processes and freezable kernel threads. A task runs, is in
vfork, is stopped, exits or is in the refrigerator; it may fork, which copies
no freeze request, take SIGSTOP and SIGCONT, and exit. A scan of the task list
is one step, tasks run where the scanning thread yields. Requests for helpers
queue for khelper with the three ways of waiting. The creation of a helper's
process may fail, which completes the request at once. Start and exec of a helper
that is waited for until exec are one step: nothing that the properties speak of
happens between them.

### FbEarlySuspend

A reader tests and goes to sleep in one step; one that was woken tests again
when it gets the CPU, and the state may have changed twice by then. Reads may be
interrupted. `Watchers` are programs that read `wait_for_fb_sleep` only. The
program (external to the repository) reads the two files in turn and stops and
starts drawing in between.

### GpioInput

A line has a level and perhaps an edge that was not delivered; an interrupt is
disabled a number of times. The handler, the timer function and each section
under `irq_lock` are steps. `debounce_time` is not zero and INIT succeeds. The
driver is not in the phone's own configuration; it is the reference user of a
wake lock in an interrupt handler.

### Logger

The ring is a function from offsets to bytes, each of which knows which entry it
belongs to and where; of the header only `len` is kept, in its two bytes, which
may lie on both ends of the ring; its size, and that of the ring and the
payloads, are constants. A writer sleeps at the mutex and at each copy
from user space, with the mutex held; a copy may fault. A read is one step
although `copy_to_user` may sleep too: it changes nothing before the copy ends, and
all others wait for the mutex meanwhile. Whether it may fault also
when `orig` is out of date is the constant `StaleFaults` (see the findings).
`logger_offset` is the remainder, which the code takes with a mask since its sizes
are powers of two. A ring holds at least two entries (`LoggerAssumption`; 256K and at most 4K in the
code). What `LogParses` promises of an offset is said without walking: there is a
set of places, that offset and the end among them, at each of which a whole entry
begins whose end is the next place, with a newer entry (`Whole`, `Boundaries`).
`get_next_entry` is the code's own loop, as a recursive function.

### Abstractions

Names (but for user locks), messages, debug output and the numbers of the
statistics are left out. So is `sys_sync`, apart from the interleavings it
allows. Hardware registers (`plat-s5p64xx/pm.c`) are reduced to "sleeps with
interrupts off and comes back"; `WAKELOCK_TEMP` there is not defined.

## 3. Runs

| Run | Shows |
|---|---|
| `wake_locks` | `TypeOK`, `NoSleepWhileHeld`, `ListWellFormed`, `PreventingCharged`, `SuspendArmed`, `OnlyOwnerReleases`; `ImplementsBlocker`: `WakeLock` implements `SuspendBlocker`, and under fairness its liveness too if no destroyed lock leaves the core disarmed for good (`[]<>~dropped`) (52,000 states) |
| `early_suspend` | `OnMeansHeld`, `ReleasedMeansDown`, `CallsAlternate`, `HandlersFollowState`, `LevelOrder`; `LastRequestWins` (14,000 states) |
| `power_system` | `SleepsOnlyAsked`; `ImplementsEarlySuspend`; end to end `KeepsTrying` (with the same exception) and `OnAtLast` (144,000 states) |
| `suspend_core` | `TypeOK`, `AllUndone`, `DownInSafety`, `ResultTells`, `FamiliesInOrder`; `NestedUndo`; `CallsDevicesInOrder`: the core implements the specification the device loops are written for (359,000 states) |
| `freezer` | `FrozenMeansStopped`, `NoneLeftFrozen`, `HelpersGated`; `FridgeIsLeft` (103,000 states) |
| `fb_handshake` | `HandshakeSound`; `ScreenGoesOff`, `DrawsAgain` (135 states: the whole of a small protocol) |
| `user_wake_locks` | `ServedAsAsked`, `TreeOrdered` (667,000 states) |
| `gpio_keys` | `LinesInOrder`, `LockInOrder`; `KeySettles` (20,000 states) |
| `logger_ring` | `LogParses`, `ReadersInOrder`, `NewestKept`; `ReaderServed` (302,000 states) |
| `device_order` | violated: a device can stand before its parent |
| `user_timeout` | violated: a long time-out is not positive |
| `logger_stale_offset` | violated: a fault puts back an offset that is out of date |

Several of these are conjunctions of named parts, each with a comment of its
own: `AllUndone` contains `AllOrNothing` (every device is on again, or all are
in deep sleep), `DownInSafety` is `SleepPrepared` and `NobodySeesItOff`,
`FamiliesInOrder` is `OrderKept` and `ChildrenFirst`, `NestedUndo` contains
`CallbacksInOrder`, `FrozenMeansStopped` contains `KernelThreadsLast`, and so on.

*Bounds.* Two client locks beside `main` and `unknown_wakeup` are enough for
every order on the list of a permanent, a timed, an expired and a re-taken
lock, and for one lock to be taken while another is released; the theorems
cover idle locks and any number of locks. Time-outs of 0 and 2 with `H = 3`
make locks that are expired at once, that expire one after the other and
(behind a permanent lock) that wrap. `MaxLate = 1` lets the timer be served
late. That bound, with the guard in `Tick`, says that a due timer is served
before the difference it is compared with changes sign, 124 days on the
machine. `EventMod = 3` lets the event number come round within one suspend.
Three handlers on two levels give equal and different levels. `PowerSystem` has
two handlers and one client lock without time-outs; `unknown_wakeup` still
brings the timer in. Names: one a prefix of the other. A u64 of 64 values, a
long of 8 and a jiffy of 2 ns keep the proportions that matter: the sum can wrap
and most values do not fit; the passing run writes the values that fit, both
ends among them, the violation run all. Three devices, two of them parent and
child, and two notifiers give every position of a failure. Three processes (a
vfork parent, its child and another), one kernel thread and two queued helpers.
Two keys, because the count and the timer are shared. A ring of 8 bytes with
entries of 3 and 4, three writes by two writers: full exactly, lapped in the
middle of an entry, headers across the end.

*Deadlock* is checked in every run: there is always a step, except where a cfg
says otherwise.

*Fairness.* Weak fairness of `Tick`, `run_timers` and `expire_wake_locks`: time
passes and softirqs are served. Strong fairness of the worker's progress in
`WakeLock` and `PowerSystem`: the thread is runnable whenever no softirq runs,
and softirqs end. The freezer gives up after TIMEOUT, so its loop is left
(`freezing_fails` is strongly fair), its waits are bounded, and a thawed task
gets the CPU. Nothing obliges the system to wake up (`pm_wake` is not fair), nor
a driver to release a lock. In `EarlySuspend` the worker and registering drivers
run, handlers return, and a worker that waits for `early_suspend_lock` gets it in
the end: drivers register when they are probed, not in an endless loop, and the
waiters of a mutex queue. In `FbEarlySuspend` the second runs out and the display
thread gets the CPU; it is the program's part to go on reading. In `GpioInput`
interrupts are delivered, timers fire and a call that has begun goes on. In
`Logger` copies end, woken readers run and get the mutex in their turn (strong
fairness, its waiters queue). Nobody is obliged to request, write, open or
switch the screen.

*Mutants.* For each property `PROJECT.json` names a plausible bug (the
definitions marked "Wrong" in the modules) under which TLC finds the property
violated.

## 4. Theorems

The proofs hold for every set of locks, handlers, names, devices and parents,
tasks, readers, writers and (finite) keys, every size of the ring, the header and
the entries, every half range `H > 1`, every lateness below
it, all levels, every modulus of the event number and any number of notifiers.
What they assume of the constants are the named assumptions: that special values
(`Main`, `Unknown`, `NoDevice`, `NoTask`, `Worker`, the names of the mutex's
states) are not among the ordinary ones, that numbers have their range, that no
device is its own parent (`ParentAssumption`), that the two governors the
code names exist (`GovernorAssumption`), and that two of the longest entries fit
on the ring and a length in its two bytes (`LoggerAssumption`). TLC evaluates them in the runs. `Served`
and three theorems about the logger have a hypothesis that excludes a finding;
`NeverDisarmed`, `FamiliesKept` and `FamiliesCorrect` are about properties that
name theirs.

*Wake locks* (`WakeLockProofs`)

* `TypeCorrect`. The types are inductive as they stand; the hard cases are the
  wrap of `left` in `Tick` and the bound on `timer_left`.
* `ListsCorrect`. `ListWellFormed` is inductive with the types. `list_add` and
  `list_add_tail` keep permanent locks before timed ones.
* `SleepSafe`. `NoSleepWhileHeld` is not inductive. `SleepInv` adds that from
  `power_suspend_late` on no lock is held, and that the softirq does not run
  while the worker has interrupts off, so nobody changes that.
* `NeverDisarmed`. `SuspendArmed` is inductive with the types, in the form in
  which it is stated: it already says for every place of the worker who will
  make the next attempt. It excepts the time from the destruction of the last
  lock held without a time-out to the next lock taken or released (`dropped`),
  when in the code, too, nobody may be left to make it. The lemmas follow the code: what a scan leaves behind
  (`ScanLeaves`), that setting the timer to the scan's result covers every
  timed lock (`RearmArms`), that a scan alone disarms nothing
  (`ScanKeepsArmed`).
* `CoreImplementsBlocker`. Each step is a step or a stutter of
  `SuspendBlocker`, from `SleepInv`.
* `OwnersRelease`. The action property, from the types: a scan hands only
  locks that have run out to `expire_wake_lock`.
* `ChargesCorrect`. `ChargedIn` adds to `PreventingCharged` that main is never
  timed.

*Early suspend* (`EarlySuspendProofs`)

* `TypesCorrect`, `OnHolds`, `ReleaseIsLate`, `CallsCorrect`, `HandlersAgree`,
  `AsleepIsDown`, `LevelsRespected`. One invariant, `IInv`: who holds the mutex
  when (`MutexInv`), the list without duplicates and sorted (`ListInv`), how far
  the calls have come for each holder (`CallInv`), and main (`HoldInv`).
  Registration at the first position of a greater level exists because the
  naturals are well-founded (`FirstPosition`).

*The two together* (`PowerSystemProofs`)

* `ImplementsCore`. Every step is a step or a stutter of `WakeLock` as it stands:
  no joint step goes past a guard of the core. Its theorems carry over.
* `EarlySuspendImplemented`. Early suspend keeps a picture of the core, and
  `Joined` says that it is right: `main_held` exactly when the core has main
  permanent, `suspend` on the list exactly when `suspend_work` is pending, the
  worker where the core has it, and main free from `power_suspend_late` on. With
  it every step is a step or a stutter of `EarlySuspend`. `Joined` is not
  inductive alone: it needs the types of both parts, that main is held while
  sleep is not requested, and that no softirq runs with interrupts off. It is
  therefore proved in one induction with `IInv` of `EarlySuspend`, after the core.
* `SleepAsked`. `SleepsOnlyAsked` follows: its half about handlers and requests
  from the theorems about `EarlySuspend`, the half about locks from `SleepSafe`,
  both carried over by the refinements.

*User wake locks* (`UserWakeLockProofs`)

* `TreeCorrect`, for all time-outs. The order of `Compare`, `strncmp` over the
  length of the name looked for and then the length test, is a strict total
  order (`CompareOrder`, `SmallerTransitive`: by the first place where names
  differ, which exists because the naturals are well-founded), so the place
  `Descent` finds keeps the tree sorted (`InsertName`).
* `Served`. Hypothesis `Fitting`: each number of nanoseconds that is written can be
  rounded up within a u64 and its jiffies are less than `H`. The values of
  the run `user_wake_locks` satisfy it, those of `user_timeout` do not and
  violate the property: the hypothesis is the finding of that run. The lemma
  `TimeoutExact` says that under it the time-out is what was asked for, rounded
  up. `AskedOK` relates what was asked to the lock for every name, and `WriterOK`
  knows the name in hand between `wake_lock_init` and `wake_lock`; `SleepInv` is
  carried over from the core (`Untouched`: what the core's own steps do to a lock).

*Devices and the suspend core* (`SuspendCoreProofs`)

* `DpmTypeCorrect`, `FamiliesKept`, `AllOrNothingHolds`, `CallbacksOrdered`, for
  the device core with its functions called in any order its interface allows.
  `DpmInv` says what each loop has done to the devices on its two lists
  (`StatusOK`, `LoopOK`), how the status of a device goes with the callbacks
  it has seen (`StagesOK`), what holds of the device whose callback runs while
  the mutex is free (`CurOK`), and that the lists are closed under parents
  (`Closed`). Without the last a device registered in a callback could find its
  parent already behind it. `OrderKept` and `ChildrenFirst` except the devices
  registered during `dpm_complete` (`late`, the finding `device_order`) and those
  `device_pm_add` warned of (`warned`).
* `CoreCallsInOrder`. The refinement: the suspend core calls the device core only
  in that order. `FamiliesCorrect` follows.
* `UndoComplete`, `SafeDescent`, `ResultCorrect`, `UndoNested`, `TypeCorrect`.
  `DoneOK` gives the stack of what has been done for each place of
  `enter_state`; `PhaseOK` ties the place to the phase of the devices; `MutexOK`,
  `NotifiedOK`, `GovernorOK` and `ResultOK` say the same of what is not on the
  stack. None of the properties is inductive without the stack: the undoing of an
  earlier step begins many steps after it.

*Freezer* (`FreezerProofs`)

* `FrozenTasksStopped`, `AllThawed`. `TaskInv` adds, for each phase of
  `freeze_processes`, which tasks are done (`PhasesOK`), and which freeze flags
  go with which state of a task (`TasksOK`). A task in vfork or stopped counts as
  done as long as its request stands, and the invariant says that it does.
* `GateHolds`. `HelperInv` counts: `running_helpers` is the number of helpers
  that somebody waits for, queued and running; it is zero from the close of the
  gate to the thaw.

*Framebuffer and keys* (`DriverProofs`)

* `Sound`. `ProgramOK` ties the stage of the drawing program to the file it is
  reading: "stopped" means that it has come to the second file.
* `LinesCorrect`, `LockCorrect`. `UnstableOK` says whose interrupts the handler
  has disabled, `DriverOK` when timer and lock can be in use at all.
  `debounce_count` is a cardinality, so the lemmas count keys.

*Logger* (`LoggerProofs`)

* `TypeCorrect`, however copies fault. With the types (`TypeInv`) go what is known
  of a writer at each place (`WritersOK`) and that only open files are read
  (`ReadersOK`). That `get_next_entry` returns an offset needs that its recursion
  is well-founded, whatever is on the ring: an entry is at least its header
  (`LengthPositive`), so the walk goes on strictly (`WalkExists`).
* `Parses`, `InOrder`, `Kept`. Hypothesis `~StaleFaults`: no copy faults when `orig`
  is out of date, which is the finding `logger_stale_offset`; everything else
  may fault, interleave, lap and flush. None of the three is inductive: they speak
  of the times when the mutex is free, and what makes them true happens while it is
  taken. `LogInv` follows the end of the log as its readers see it (`End`: the
  write offset or, in the middle of a write, where that began). From each offset
  somebody reads from there is a run of whole entries to the end (`RunsOK`); the
  entry being written has room before the first of those offsets (`RoomOK`), is
  there as far as it was copied, and the rest of the ring is older (`CopyOK`);
  entries and reads are numbered in order (`NumbersOK`); what comes next is newer
  than what was read (`ForwardOK`), and who sleeps on an entry will be woken
  (`WakeOK`). The lemmas are those one would argue with: the two bytes of a length
  make it again across the end of the ring (`EntryLength`); `clock_interval`, on
  raw offsets, is true exactly for those the write comes to (`ClockIs`);
  `get_next_entry` stays on the boundaries of a run and does not pass its end
  (`WalkInRun`), so a pulled reader has room and a run (`PulledOK`); a write outside
  a run leaves it (`RunKept`) and the last segment makes every run longer
  (`RunGrows`). Induction over the ring is used as the principle that a set of
  numbers has a least one (`LeastOf`). That a ring holds two of the longest entries
  is needed in `PulledOK`: a lapped reader is then further than one write from the
  end, and `get_next_entry` cannot go past it.

Left to TLC alone:

* liveness, which is out of the prover's reach: `LastRequestWins`, the liveness
  half of `ImplementsBlocker`, `KeepsTrying`, `OnAtLast`, `FridgeIsLeft`,
  `ScreenGoesOff`, `DrawsAgain`, `KeySettles`, `ReaderServed`;
* what the runs that expect a violation check.

`TypeOK` and `AsleepMeansDown` of `EarlySuspend`, `TypeCorrect` of the logger for
copies that fault with an old `orig`, and the theorems of
`SuspendCoreProofs` about the device core with any caller, are proved only.

## 5. Findings

* `device_order`. `dpm_complete` (`drivers/base/power/main.c:514-537`) empties
  `dpm_list` from its tail into the head of a list of its own. A device that is
  registered in one of its callbacks is appended to `dpm_list`, taken next and
  put in front of the ones done, its parent among them. The comment at
  `main.c:34` promises depth-first order. `OrderKept` and `ChildrenFirst` hold
  for all other devices.
* `user_timeout`. `userwakelock.c:74` stores a u64, tested for being positive,
  into a long ("jiffies > 0", line 69). A time-out of 2^31 jiffies (124 days) or
  more becomes negative, zero (which takes the lock for good) or short.
* `logger_stale_offset`. `logger.c:395` reads `orig` before it takes the mutex and
  puts it back at line 434 when a copy faults. What another writer wrote in between
  is cut off; in the trace `head` then stands where no entry begins any more. As long as no fault hits a
  write whose `orig` is out of date `LogParses` holds, for every ring (`Parses`).

Seen while modelling, without a run of their own:

* `wake_lock_destroy` (`wakelock.c:373-397`) takes a lock that is held off its list
  and does nothing else. If it was the last one held without a time-out, no timer
  is set and no work item queued: the system stays awake with no lock held until
  some lock is taken or released, although sleep is only to be "delayed until no
  wake locks are held" (`Kconfig:131`). The GPIO drivers do this when they are
  removed while a key is down (`gpio_input.c:350`, `gpio_matrix.c:404`). Without
  `~dropped` in their premises TLC refutes `SuspendArmed`, `ImplementsBlocker` and
  `KeepsTrying` in a few steps; with it they show that this is the only way.
* A request for a helper with `UMH_NO_WAIT` (`kmod.c:476`) gives up its count when
  it is queued. `usermodehelper_disable` does not wait for it, and khelper may
  create its process after user space was frozen, which the gate is there to
  prevent (comment, `kmod.c:275`). `HelpersGated` allows this to such requests only.
* `state_show` (`main.c:509-540`) prints `global_state`; its comment (line 501)
  says that it shows the supported states. The loop that did is under `#if 0`.
* Helpers keep the `PF_NOFREEZE` of kthreadd (`kthread.c:245`), although
  `freezing-of-tasks.txt:13` counts all user processes as freezable.
  `FrozenMeansStopped` is about the others.
* `wait_for_fb_wake_show` (`fbearlysuspend.c:88-96`) answers only where the read
  begins: if the screen comes on and goes off again before the reader runs, it
  goes back to sleep and the handler waits for its full second. `ScreenGoesOff`
  shows that the time-out ends this.
* The early-suspend handler of the keys cancels the timer with the lock held
  (`gpio_input.c:252`): the system stays awake until the screen comes on. Removal
  (`gpio_input.c:334-350`) destroys the lock even if it is held, which is the case
  above. `LockInOrder` excludes both states.
* `fix_up_readers` (`logger.c:323`) moves a lapped reader by at least the length
  of the write from its own offset, not to the first entry behind the new write
  offset (comment, line 307): it loses entries that the write does not reach, and,
  if the write then faults, may lose the newest. `logger_release` takes its reader
  off the list without the mutex, which one CPU without preemption forgives.
* `suspend_devices_and_enter` drops the result of `suspend_enter` (`main.c:375`):
  success may mean that `power_suspend_late` refused. `ResultTells` says so.
* `gpio_event.c` registers its early-suspend handler before INIT and unregisters
  it after UNINIT (lines 176-202, 223-226).

## 6. Plan and limits

1. `drivers/rtc/alarm.c`, `gpio_event.c` and `timed_gpio.c`.
2. The statistics of the wake locks (`count`, `expire_count`, `wakeup_count`,
   prevent-suspend time) and `/proc/wakelocks`.
3. The logger's `poll`, the ioctls that only read, and the copy of the kernel log
   this phone keeps.

Not modelled: in the modelled components, what `PROJECT.json` says of each (the
watchdog and the sysdevs below `DevicePM`, `consoleearlysuspend.c`, error exits
of init functions, functions that only read); the alarm driver, binder, ashmem,
pmem, the low memory killer and timed output (each a project step of its own);
hibernation (not built); board and platform drivers (register programming, out
of a model checker's reach); the rest of Linux, which this repository carries
nearly unchanged and which is far larger than anything one model can be faithful
to.
