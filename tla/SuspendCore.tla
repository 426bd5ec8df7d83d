---------------------------- MODULE SuspendCore -----------------------------
(***************************************************************************)
(* The suspend core (kernel/power/main.c): enter_state and the functions   *)
(* below it, with every early exit and the way back from it, on top of the  *)
(* power management of devices (module DevicePM), whose loops it calls.     *)
(*                                                                         *)
(* One thread at a time is in enter_state: pm_mutex is only tried.  Devices *)
(* are registered and unregistered meanwhile by threads that are not        *)
(* frozen, but not while interrupts are off.  A hook that the platform does *)
(* not have is one that succeeds and does nothing; the S5P6442 has enter    *)
(* only.                                                                    *)
(***************************************************************************)
EXTENDS DevicePM

CONSTANTS
  NotifierCount,  \* the length of pm_chain_head
  Governors       \* the cpufreq governors the user may choose

ASSUME NotifierAssumption == NotifierCount \in Nat

ASSUME GovernorAssumption == {"performance", "userspace"} \subseteq Governors

VARIABLES
  pm_mutex,   \* "free", "core" or "other"
  pc,         \* the place in enter_state
  done,       \* what has been done and not yet undone, in order
  notified,   \* the notifiers that saw PM_SUSPEND_PREPARE, not PM_POST_SUSPEND
  governor,   \* the cpufreq governor of the CPU
  governor_name,
  error,      \* the variable of that name
  \* history variables
  chosen,     \* the governor the user chose last
  slept,      \* this attempt has reached the sleep
  refused     \* suspend_enter has failed in this attempt

coreVars == <<pm_mutex, pc, done, notified, governor, governor_name, error,
              chosen, slept, refused>>

vars == <<dpmVars, coreVars>>

Places == {"idle", "prepare", "helpers", "freeze", "memory", "begin",
           "suspend_console", "device_suspend", "platform", "suspend_enter",
           "device_power_down", "sysdev_suspend", "enter", "asleep",
           "device_power_up", "finish", "resume_devices", "device_resume",
           "close", "thaw", "post"}

Undoables == {"vt", "helpers", "partly_frozen", "frozen", "begun", "console",
              "prepared", "irqs_off", "sysdev"}

Done(x) == x \in Members(done)

Do(x) == done' = Append(done, x)

Undo(x) == done' = list_del(done, x)

IrqsOff == Done("irqs_off")

\* A step of enter_state alone, from one place to another.
Step(from, to) ==
  /\ pc = from
  /\ pc' = to
  /\ UNCHANGED <<governor, governor_name, chosen>>

-----------------------------------------------------------------------------
(* enter_state and suspend_prepare.                                         *)

\* The state is valid; the mutex is taken if it is free.
enter_state ==
  /\ pm_mutex = "free"
  /\ Step("idle", "prepare")
  /\ pm_mutex' = "core"
  /\ error' = FALSE /\ slept' = FALSE /\ refused' = FALSE
  /\ UNCHANGED <<dpmVars, done, notified>>

\* -EINVAL, -ENODEV or -EBUSY
enter_state_refused ==
  /\ Step("idle", "idle")
  /\ error' = TRUE /\ slept' = FALSE /\ refused' = FALSE
  /\ UNCHANGED <<dpmVars, pm_mutex, done, notified>>

\* pm_prepare_console; the notifiers are called up to the first that fails.
suspend_prepare ==
  /\ Do("vt")
  /\ \E n \in 0 .. NotifierCount :
       /\ notified' = 1 .. n
       /\ error' = (n < NotifierCount)
       /\ Step("prepare", IF n < NotifierCount THEN "post" ELSE "helpers")
  /\ UNCHANGED <<dpmVars, pm_mutex, slept, refused>>

usermodehelper_disable ==
  /\ \/ Step("helpers", "freeze") /\ Do("helpers") /\ UNCHANGED error
     \/ Step("helpers", "post") /\ error' = TRUE /\ UNCHANGED done
  /\ UNCHANGED <<dpmVars, pm_mutex, notified, slept, refused>>

\* A freezer that fails leaves the tasks frozen that are.
suspend_freeze_processes ==
  /\ \/ Step("freeze", "memory") /\ Do("frozen") /\ UNCHANGED error
     \/ Step("freeze", "thaw") /\ Do("partly_frozen") /\ error' = TRUE
  /\ UNCHANGED <<dpmVars, pm_mutex, notified, slept, refused>>

\* Wrong: the error is not set.
shrink_memory_silent ==
  /\ Step("memory", "begin") \/ Step("memory", "thaw")
  /\ UNCHANGED <<dpmVars, pm_mutex, done, notified, error, slept, refused>>

shrink_memory ==
  /\ \/ Step("memory", "begin") /\ UNCHANGED error
     \/ Step("memory", "thaw") /\ error' = TRUE
  /\ UNCHANGED <<dpmVars, pm_mutex, done, notified, slept, refused>>

-----------------------------------------------------------------------------
(* suspend_devices_and_enter.                                               *)

begin ==
  /\ \/ Step("begin", "suspend_console") /\ Do("begun") /\ UNCHANGED error
     \/ Step("begin", "close") /\ error' = TRUE /\ UNCHANGED done
  /\ UNCHANGED <<dpmVars, pm_mutex, notified, slept, refused>>

suspend_console ==
  /\ Step("suspend_console", "device_suspend")
  /\ Do("console")
  /\ device_suspend
  /\ UNCHANGED <<pm_mutex, notified, error, slept, refused>>

\* Wrong: after a failure the devices are left as they are.
device_suspend_returns_close ==
  /\ \/ phase = "suspended" /\ Step("device_suspend", "platform") /\ UNCHANGED error
     \/ phase = "failed" /\ Step("device_suspend", "close") /\ error' = TRUE
  /\ UNCHANGED <<dpmVars, pm_mutex, done, notified, slept, refused>>

\* device_suspend returns; after a failure the platform may recover.
device_suspend_returns ==
  /\ \/ phase = "suspended" /\ Step("device_suspend", "platform") /\ UNCHANGED error
     \/ phase = "failed" /\ Step("device_suspend", "resume_devices") /\ error' = TRUE
  /\ UNCHANGED <<dpmVars, pm_mutex, done, notified, slept, refused>>

platform_prepare ==
  /\ \/ Step("platform", "suspend_enter") /\ Do("prepared") /\ UNCHANGED error
     \/ Step("platform", "resume_devices") /\ error' = TRUE /\ UNCHANGED done
  /\ UNCHANGED <<dpmVars, pm_mutex, notified, slept, refused>>

-----------------------------------------------------------------------------
(* suspend_enter, from device_pm_lock to device_pm_unlock.                  *)

suspend_enter ==
  /\ pc = "suspend_enter" /\ pc' = "device_power_down"
  /\ governor_name' = governor
  /\ governor' = IF governor = "userspace" THEN governor ELSE "performance"
  /\ Do("irqs_off")
  /\ device_power_down
  /\ UNCHANGED <<pm_mutex, notified, chosen, error, slept, refused>>

\* The exit of suspend_enter.  Its result is lost: the caller's error is 0.
SuspendEnterDone ==
  /\ pc' = "finish"
  /\ Undo("irqs_off")
  /\ governor' = IF governor_name = "userspace" THEN governor ELSE governor_name
  /\ UNCHANGED <<governor_name, chosen>>

\* A device that refuses, power_suspend_late among them, ends the attempt.
device_power_down_returns ==
  /\ \/ /\ phase = "deep"
        /\ Step("device_power_down", "sysdev_suspend")
        /\ UNCHANGED <<done, refused>>
     \/ /\ phase = "suspended"
        /\ pc = "device_power_down"
        /\ SuspendEnterDone
        /\ refused' = TRUE
  /\ UNCHANGED <<dpmVars, pm_mutex, notified, error, slept>>

\* sysdev_suspend undoes itself when it fails.
sysdev_suspend ==
  /\ \/ /\ Step("sysdev_suspend", "enter")
        /\ Do("sysdev")
        /\ UNCHANGED <<dpmVars, refused>>
     \/ /\ Step("sysdev_suspend", "device_power_up")
        /\ device_power_up
        /\ refused' = TRUE
        /\ UNCHANGED done
  /\ UNCHANGED <<pm_mutex, notified, error, slept>>

\* suspend_ops->enter
enter ==
  /\ Step("enter", "asleep")
  /\ slept' = TRUE
  /\ UNCHANGED <<dpmVars, pm_mutex, done, notified, error, refused>>

\* Wrong: a failed enter leaves the system devices suspended.
enter_fails_early ==
  /\ Step("enter", "device_power_up")
  /\ device_power_up
  /\ refused' = TRUE
  /\ UNCHANGED <<pm_mutex, done, notified, error, slept>>

\* enter returns an error: sysdev_resume, device_power_up.
enter_fails ==
  /\ Step("enter", "device_power_up")
  /\ Undo("sysdev")
  /\ device_power_up
  /\ refused' = TRUE
  /\ UNCHANGED <<pm_mutex, notified, error, slept>>

\* A wake-up source ends the sleep: sysdev_resume, device_power_up.
wake ==
  /\ Step("asleep", "device_power_up")
  /\ Undo("sysdev")
  /\ device_power_up
  /\ UNCHANGED <<pm_mutex, notified, error, slept, refused>>

device_power_up_returns ==
  /\ pc = "device_power_up"
  /\ phase = "suspended"
  /\ SuspendEnterDone
  /\ UNCHANGED <<dpmVars, pm_mutex, notified, error, slept, refused>>

-----------------------------------------------------------------------------
(* The way back.                                                            *)

\* Wrong: the platform is not told.
finish_untold ==
  /\ Step("finish", "resume_devices")
  /\ UNCHANGED <<dpmVars, pm_mutex, done, notified, error, slept, refused>>

finish ==
  /\ Step("finish", "resume_devices")
  /\ Undo("prepared")
  /\ UNCHANGED <<dpmVars, pm_mutex, notified, error, slept, refused>>

\* Wrong: the tasks run again before the devices do.
resume_devices_late ==
  /\ Step("resume_devices", "device_resume")
  /\ Undo("frozen")
  /\ device_resume
  /\ UNCHANGED <<pm_mutex, notified, error, slept, refused>>

resume_devices ==
  /\ Step("resume_devices", "device_resume")
  /\ device_resume
  /\ UNCHANGED <<pm_mutex, done, notified, error, slept, refused>>

\* resume_console
device_resume_returns ==
  /\ phase = "idle"
  /\ Step("device_resume", "close")
  /\ Undo("console")
  /\ UNCHANGED <<dpmVars, pm_mutex, notified, error, slept, refused>>

\* suspend_ops->end
close ==
  /\ Step("close", "thaw")
  /\ Undo("begun")
  /\ UNCHANGED <<dpmVars, pm_mutex, notified, error, slept, refused>>

\* Wrong: only tasks frozen by a freezer that succeeded are thawed.
thaw_frozen ==
  /\ Step("thaw", "post")
  /\ done' = list_del(list_del(done, "frozen"), "helpers")
  /\ UNCHANGED <<dpmVars, pm_mutex, notified, error, slept, refused>>

\* suspend_thaw_processes, usermodehelper_enable
thaw ==
  /\ Step("thaw", "post")
  /\ done' = list_del(list_del(list_del(done, "frozen"), "partly_frozen"), "helpers")
  /\ UNCHANGED <<dpmVars, pm_mutex, notified, error, slept, refused>>

\* PM_POST_SUSPEND for every notifier, pm_restore_console, mutex_unlock
post ==
  /\ Step("post", "idle")
  /\ notified' = {}
  /\ Undo("vt")
  /\ pm_mutex' = "free"
  /\ UNCHANGED <<dpmVars, error, slept, refused>>

-----------------------------------------------------------------------------

\* suspend_set_ops
suspend_set_ops ==
  /\ \/ pm_mutex = "free" /\ pm_mutex' = "other"
     \/ pm_mutex = "other" /\ pm_mutex' = "free"
  /\ ~IrqsOff
  /\ UNCHANGED <<dpmVars, pc, done, notified, governor, governor_name, error,
                 chosen, slept, refused>>

\* The user writes to scaling_governor; he cannot once his tasks are frozen.
choose_governor ==
  /\ ~Done("frozen")
  /\ \E g \in Governors : governor' = g /\ chosen' = g
  /\ UNCHANGED <<dpmVars, pm_mutex, pc, done, notified, governor_name, error,
                 slept, refused>>

Init ==
  /\ DpmInit
  /\ pm_mutex = "free"
  /\ pc = "idle"
  /\ done = <<>>
  /\ notified = {}
  /\ governor \in Governors
  /\ governor_name = governor
  /\ chosen = governor
  /\ error = FALSE
  /\ slept = FALSE
  /\ refused = FALSE

\* The functions in the order of a suspend.
Attempt ==
  \/ enter_state \/ enter_state_refused \/ suspend_prepare
  \/ usermodehelper_disable \/ suspend_freeze_processes \/ shrink_memory
  \/ begin \/ suspend_console \/ device_suspend_returns \/ platform_prepare
  \/ suspend_enter \/ device_power_down_returns \/ sysdev_suspend
  \/ enter \/ enter_fails \/ wake \/ device_power_up_returns
  \/ finish \/ resume_devices \/ device_resume_returns
  \/ close \/ thaw \/ post

Next ==
  \/ Attempt
  \/ DpmLoop /\ UNCHANGED coreVars
  \/ ~IrqsOff /\ Hotplug /\ UNCHANGED coreVars
  \/ suspend_set_ops
  \/ choose_governor

Spec == Init /\ [][Next]_vars

-----------------------------------------------------------------------------
(* Properties.                                                             *)

\* Every variable keeps its type, and nothing is done twice.
TypeOK ==
  /\ DpmTypeOK
  /\ pm_mutex \in {"free", "core", "other"}
  /\ pc \in Places
  /\ done \in Seq(Undoables) /\ NoDuplicates(done)
  /\ notified \subseteq 1 .. NotifierCount
  /\ {governor, governor_name, chosen} \subseteq Governors
  /\ error \in BOOLEAN /\ slept \in BOOLEAN /\ refused \in BOOLEAN

\* Whatever failed on the way down, when enter_state returns the console, the
\* notifiers, the helpers, the tasks, the platform, the devices and interrupts
\* are as before, the governor is the user's and pm_mutex is released.
AllUndone ==
  /\ AllOrNothing
  /\ pc = "idle" => /\ done = <<>> /\ notified = {}
                    /\ pm_mutex # "core"
                    /\ phase = "idle"
                    /\ governor = chosen

\* The system sleeps only with every preparation in force: notifiers told, no
\* helper started, tasks frozen, every registered device and the system devices
\* down, interrupts off, and no governor that would change the frequency.
SleepPrepared ==
  pc = "asleep" =>
    /\ Members(done) = Undoables \ {"partly_frozen"}
    /\ notified = 1 .. NotifierCount
    /\ \A d \in Listed : stage[d] = "deep"
    /\ governor \in {"userspace", "performance"}

\* No task that can be frozen runs while a device is suspended (freezing-of-
\* tasks.txt: "it won't be accessing the device while it's suspended"), and no
\* interrupt is served while a device is in deep sleep.
NobodySeesItOff ==
  \A d \in Listed : /\ stage[d] \in Off => Done("frozen") /\ Done("helpers")
                    /\ stage[d] = "deep" => IrqsOff

\* On the way down and up again everything is off only behind its protection:
\* the sleep behind all of it, a device behind the freezer and the gate.
DownInSafety == SleepPrepared /\ NobodySeesItOff

\* An error means that the system has not slept.  The converse does not hold,
\* because suspend_devices_and_enter drops the result of suspend_enter
\* (main.c:375): success means a sleep, or a refusal inside suspend_enter.
ResultTells ==
  pc \in {"close", "thaw", "post"} =>
    /\ error => ~slept
    /\ ~error => slept \/ refused

Prefix(s, t) == Len(s) <= Len(t) /\ SubSeq(t, 1, Len(s)) = s

\* What was done is undone in the opposite order, on every path, for the system
\* and for each device.
NestedUndo ==
  /\ [][Prefix(done, done') \/ Prefix(done', done)]_vars
  /\ CallbacksInOrder

\* The core calls the loops of the device power management only in the order
\* they are written for: it implements their specification.
CallsDevicesInOrder == DpmSpec
=============================================================================
