------------------------------ MODULE DevicePM ------------------------------
(***************************************************************************)
(* The power management of devices (drivers/base/power/main.c): dpm_list,  *)
(* the status of each device, and the loops that prepare, suspend, power   *)
(* down, power up, resume and complete the devices.                        *)
(*                                                                         *)
(* The loops of device_suspend and device_resume give dpm_list_mtx up for  *)
(* each callback, and in that window devices come and go.  A loop works on *)
(* dpm_list and collects what it has handled on a list of its own, which   *)
(* it splices back at the end.  The late loops run with the mutex held and *)
(* interrupts off.                                                         *)
(***************************************************************************)
EXTENDS Integers, Sequences, FiniteSets

CONSTANTS
  Devices,   \* the struct device objects
  NoDevice,  \* a null pointer
  Parent     \* dev->parent

ASSUME DevicesAssumption == NoDevice \notin Devices

ASSUME ParentAssumption ==
  /\ Parent \in [Devices -> Devices \cup {NoDevice}]
  /\ \A d \in Devices : Parent[d] # d

\* enum dpm_state
DPM_ON         == 1
DPM_PREPARING  == 2
DPM_RESUMING   == 3
DPM_SUSPENDING == 4
DPM_OFF        == 5
DPM_OFF_IRQ    == 6

VARIABLES
  dpm_list,           \* the devices the running loop has still to handle
  moved,              \* the loop's own list
  status,             \* dev->power.status
  cur,                \* the device whose callback runs, with the mutex free
  phase,              \* which loop runs, or where its caller is
  again,              \* dpm_prepare: the last error was -EAGAIN
  pos,                \* the next device of a late loop, as an index
  transition_started,
  \* history variables
  stage,              \* per device: how far its callbacks have brought it
  warned,             \* the devices device_pm_add complained about, and those
                      \* registered below one
  late                \* the devices that were registered during dpm_complete

listVars == <<dpm_list, moved>>

historyVars == <<stage, warned, late>>

dpmVars == <<listVars, status, cur, phase, again, pos, transition_started,
             historyVars>>

\* "idle", "failed", "suspended" and "deep" are left to the caller.
Phases == {"idle", "prepare", "suspend", "failed", "suspended", "power_down",
           "deep", "power_up", "resume", "complete"}

Stages == {"on", "prepared", "off", "deep"}

Members(list) == {list[i] : i \in 1 .. Len(list)}

Listed == Members(dpm_list) \cup Members(moved)

Children(d) == {c \in Listed : Parent[c] = d}

\* dpm_list_mtx is free: a callback runs, or no loop does.
Unlocked == cur # NoDevice \/ phase \in {"idle", "failed", "suspended"}

\* The list without d, which is on it at most once.
list_del(list, d) ==
  IF d \notin Members(list) THEN list
  ELSE LET i == CHOOSE i \in 1 .. Len(list) : list[i] = d
       IN  SubSeq(list, 1, i - 1) \o SubSeq(list, i + 1, Len(list))

Last(list) == list[Len(list)]

-----------------------------------------------------------------------------
(* Registration.                                                           *)

Warns(d) == IF Parent[d] = NoDevice THEN transition_started
                                    ELSE status[Parent[d]] >= DPM_SUSPENDING

\* The status was set to DPM_ON by device_pm_init.  The warnings do not keep
\* the device off the list.
device_pm_add(d) ==
  /\ Unlocked
  /\ d \notin Listed /\ d # cur
  /\ Parent[d] # NoDevice => Parent[d] \in Listed
  /\ dpm_list' = Append(dpm_list, d)
  /\ status' = [status EXCEPT ![d] = DPM_ON]
  /\ stage' = [stage EXCEPT ![d] = "on"]
  /\ warned' = IF Warns(d) \/ Parent[d] \in warned
               THEN warned \cup {d} ELSE warned \ {d}
  /\ late' = IF phase = "complete" THEN late \cup {d} ELSE late \ {d}
  /\ UNCHANGED <<moved, cur, phase, again, pos, transition_started>>

\* The children of a device go before it.  A loop that is in a callback of the
\* device keeps a reference.
device_pm_remove(d) ==
  /\ Unlocked
  /\ d \in Listed
  /\ Children(d) = {}
  /\ dpm_list' = list_del(dpm_list, d)
  /\ moved' = list_del(moved, d)
  /\ warned' = warned \ {d}
  /\ late' = late \ {d}
  /\ UNCHANGED <<status, cur, phase, again, pos, transition_started, stage>>

-----------------------------------------------------------------------------
(* The loops.  A loop takes the device at one end of dpm_list; when its     *)
(* callback has returned, the device goes to an end of the loop's list,     *)
(* unless it has been unregistered meanwhile.                              *)

MoveTail(d) ==
  /\ dpm_list' = list_del(dpm_list, d)
  /\ moved' = IF d \in Listed THEN Append(moved, d) ELSE moved

MoveHead(d) ==
  /\ dpm_list' = list_del(dpm_list, d)
  /\ moved' = IF d \in Listed THEN <<d>> \o moved ELSE moved

\* list_splice
Splice(list) == dpm_list' = list /\ moved' = <<>>

dpm_prepare_next ==
  /\ phase = "prepare" /\ cur = NoDevice
  /\ IF dpm_list = <<>>
     THEN /\ Splice(moved)
          /\ phase' = IF again THEN "failed" ELSE "suspend"
          /\ again' = FALSE
          /\ UNCHANGED <<status, cur>>
     ELSE /\ cur' = Head(dpm_list)
          /\ status' = [status EXCEPT ![cur'] = DPM_PREPARING]
          /\ UNCHANGED <<listVars, phase, again>>
  /\ UNCHANGED <<pos, transition_started, historyVars>>

prepare_device_ok ==
  /\ phase = "prepare" /\ cur # NoDevice
  /\ status' = [status EXCEPT ![cur] = DPM_SUSPENDING]
  /\ stage' = [stage EXCEPT ![cur] = "prepared"]
  /\ MoveTail(cur)
  /\ cur' = NoDevice
  /\ again' = FALSE
  /\ UNCHANGED <<phase, pos, transition_started, warned, late>>

\* -EAGAIN: the device stays at the front and is tried again.
prepare_device_again ==
  /\ phase = "prepare" /\ cur # NoDevice
  /\ status' = [status EXCEPT ![cur] = DPM_ON]
  /\ cur' = NoDevice
  /\ again' = TRUE
  /\ UNCHANGED <<listVars, phase, pos, transition_started, historyVars>>

prepare_device_fails ==
  /\ phase = "prepare" /\ cur # NoDevice
  /\ status' = [status EXCEPT ![cur] = DPM_ON]
  /\ cur' = NoDevice
  /\ Splice(moved \o dpm_list)
  /\ phase' = "failed"
  /\ again' = FALSE
  /\ UNCHANGED <<pos, transition_started, historyVars>>

\* Wrong: the devices are suspended in the order of the list.
dpm_suspend_next_forward ==
  /\ phase = "suspend" /\ cur = NoDevice
  /\ IF dpm_list = <<>>
     THEN Splice(moved) /\ phase' = "suspended" /\ UNCHANGED cur
     ELSE cur' = Head(dpm_list) /\ UNCHANGED <<listVars, phase>>
  /\ UNCHANGED <<status, again, pos, transition_started, historyVars>>

dpm_suspend_next ==
  /\ phase = "suspend" /\ cur = NoDevice
  /\ IF dpm_list = <<>>
     THEN Splice(moved) /\ phase' = "suspended" /\ UNCHANGED cur
     ELSE cur' = Last(dpm_list) /\ UNCHANGED <<listVars, phase>>
  /\ UNCHANGED <<status, again, pos, transition_started, historyVars>>

suspend_device_ok ==
  /\ phase = "suspend" /\ cur # NoDevice
  /\ status' = [status EXCEPT ![cur] = DPM_OFF]
  /\ stage' = [stage EXCEPT ![cur] = "off"]
  /\ MoveHead(cur)
  /\ cur' = NoDevice
  /\ UNCHANGED <<phase, again, pos, transition_started, warned, late>>

suspend_device_fails ==
  /\ phase = "suspend" /\ cur # NoDevice
  /\ cur' = NoDevice
  /\ Splice(dpm_list \o moved)
  /\ phase' = "failed"
  /\ UNCHANGED <<status, again, pos, transition_started, historyVars>>

\* device_power_down, from the end of the list.
suspend_device_noirq_ok ==
  /\ phase = "power_down" /\ pos > 0
  /\ status' = [status EXCEPT ![dpm_list[pos]] = DPM_OFF_IRQ]
  /\ stage' = [stage EXCEPT ![dpm_list[pos]] = "deep"]
  /\ pos' = pos - 1
  /\ UNCHANGED <<listVars, cur, phase, again, transition_started, warned, late>>

suspend_device_noirq_fails ==
  /\ phase = "power_down" /\ pos > 0
  /\ phase' = "power_up"
  /\ pos' = 1
  /\ UNCHANGED <<listVars, status, cur, again, transition_started, historyVars>>

device_power_down_done ==
  /\ phase = "power_down" /\ pos = 0
  /\ phase' = "deep"
  /\ UNCHANGED <<listVars, status, cur, again, pos, transition_started,
                 historyVars>>

\* dpm_power_up, from the front; devices not marked DPM_OFF_IRQ are skipped.
dpm_power_up_next ==
  /\ phase = "power_up" /\ pos <= Len(dpm_list)
  /\ IF status[dpm_list[pos]] > DPM_OFF
     THEN /\ status' = [status EXCEPT ![dpm_list[pos]] = DPM_OFF]
          /\ stage' = [stage EXCEPT ![dpm_list[pos]] = "off"]
     ELSE UNCHANGED <<status, stage>>
  /\ pos' = pos + 1
  /\ UNCHANGED <<listVars, cur, phase, again, transition_started, warned, late>>

device_power_up_done ==
  /\ phase = "power_up" /\ pos > Len(dpm_list)
  /\ phase' = "suspended"
  /\ pos' = 0
  /\ UNCHANGED <<listVars, status, cur, again, transition_started, historyVars>>

dpm_resume_next ==
  /\ phase = "resume" /\ cur = NoDevice
  /\ IF dpm_list = <<>>
     THEN /\ Splice(moved)
          /\ phase' = "complete"
          /\ UNCHANGED <<status, stage, cur>>
     ELSE LET d == Head(dpm_list)
          IN  /\ status' = [status EXCEPT ![d] =
                              IF @ >= DPM_SUSPENDING THEN DPM_RESUMING ELSE @]
              /\ IF status[d] >= DPM_OFF
                 THEN /\ cur' = d
                      /\ stage' = [stage EXCEPT ![d] = "prepared"]
                      /\ UNCHANGED listVars
                 ELSE MoveTail(d) /\ UNCHANGED <<cur, stage>>
              /\ UNCHANGED phase
  /\ UNCHANGED <<again, pos, transition_started, warned, late>>

\* An error is only printed.
resume_device_done ==
  /\ phase = "resume" /\ cur # NoDevice
  /\ MoveTail(cur)
  /\ cur' = NoDevice
  /\ UNCHANGED <<status, phase, again, pos, transition_started, historyVars>>

dpm_complete_next ==
  /\ phase = "complete" /\ cur = NoDevice
  /\ IF dpm_list = <<>>
     THEN /\ Splice(moved)
          /\ phase' = "idle"
          /\ UNCHANGED <<status, stage, cur>>
     ELSE LET d == Last(dpm_list)
          IN  IF status[d] > DPM_ON
              THEN /\ status' = [status EXCEPT ![d] = DPM_ON]
                   /\ stage' = [stage EXCEPT ![d] = "on"]
                   /\ cur' = d
                   /\ UNCHANGED <<listVars, phase>>
              ELSE MoveHead(d) /\ UNCHANGED <<status, stage, cur, phase>>
  /\ UNCHANGED <<again, pos, transition_started, warned, late>>

complete_device_done ==
  /\ phase = "complete" /\ cur # NoDevice
  /\ MoveHead(cur)
  /\ cur' = NoDevice
  /\ UNCHANGED <<status, phase, again, pos, transition_started, historyVars>>

-----------------------------------------------------------------------------
(* The calls.  None of them checks that it comes at its turn.               *)

device_suspend ==
  /\ phase' = "prepare"
  /\ transition_started' = TRUE
  /\ UNCHANGED <<listVars, status, cur, again, pos, historyVars>>

\* The caller holds dpm_list_mtx (device_pm_lock).
device_power_down ==
  /\ phase' = "power_down"
  /\ pos' = Len(dpm_list)
  /\ UNCHANGED <<listVars, status, cur, again, transition_started, historyVars>>

device_power_up ==
  /\ phase' = "power_up"
  /\ pos' = 1
  /\ UNCHANGED <<listVars, status, cur, again, transition_started, historyVars>>

device_resume ==
  /\ phase' = "resume"
  /\ transition_started' = FALSE
  /\ UNCHANGED <<listVars, status, cur, again, pos, historyVars>>

DpmInit ==
  /\ dpm_list = <<>>
  /\ moved = <<>>
  /\ status = [d \in Devices |-> DPM_ON]
  /\ cur = NoDevice
  /\ phase = "idle"
  /\ again = FALSE
  /\ pos = 0
  /\ transition_started = FALSE
  /\ stage = [d \in Devices |-> "on"]
  /\ warned = {}
  /\ late = {}

Hotplug == \E d \in Devices : device_pm_add(d) \/ device_pm_remove(d)

\* The steps inside a call.
DpmLoop ==
  \/ dpm_prepare_next \/ prepare_device_ok \/ prepare_device_again
  \/ prepare_device_fails \/ dpm_suspend_next \/ suspend_device_ok
  \/ suspend_device_fails \/ suspend_device_noirq_ok
  \/ suspend_device_noirq_fails \/ device_power_down_done
  \/ dpm_power_up_next \/ device_power_up_done \/ dpm_resume_next
  \/ resume_device_done \/ dpm_complete_next \/ complete_device_done

\* The order in which the callers owe the calls.
DpmCall ==
  \/ phase = "idle" /\ device_suspend
  \/ phase = "suspended" /\ device_power_down
  \/ phase = "deep" /\ device_power_up
  \/ phase \in {"suspended", "failed"} /\ device_resume

DpmNext == Hotplug \/ DpmLoop \/ DpmCall

DpmSpec == DpmInit /\ [][DpmNext]_dpmVars

-----------------------------------------------------------------------------
(* Properties.                                                             *)

NoDuplicates(list) ==
  \A i, j \in 1 .. Len(list) : list[i] = list[j] => i = j

\* The lists hold each device at most once, and every variable keeps its type.
DpmTypeOK ==
  /\ dpm_list \in Seq(Devices) /\ moved \in Seq(Devices)
  /\ NoDuplicates(dpm_list \o moved)
  /\ status \in [Devices -> DPM_ON .. DPM_OFF_IRQ]
  /\ cur \in Devices \cup {NoDevice}
  /\ phase \in Phases
  /\ again \in BOOLEAN
  /\ pos \in 0 .. (Len(dpm_list) + 1)
  /\ transition_started \in BOOLEAN
  /\ stage \in [Devices -> Stages]
  /\ warned \subseteq Listed
  /\ late \subseteq Listed

\* When device_resume has returned, every registered device works again: each
\* prepared device was completed and each suspended one resumed, whichever
\* callback failed before and whichever devices came or went; when
\* device_power_down has succeeded, every registered device is in deep sleep
\* (pm.h:285-305).
AllOrNothing ==
  /\ phase = "idle" => /\ \A d \in Listed : status[d] = DPM_ON /\ stage[d] = "on"
                       /\ moved = <<>>
                       /\ ~transition_started
  /\ phase = "deep" => \A d \in Listed : status[d] = DPM_OFF_IRQ /\ stage[d] = "deep"

Off == {"off", "deep"}

\* A device is suspended only when its children are, and resumed before them,
\* except for children that device_pm_add warned about and those that were
\* registered while dpm_complete ran (main.c:33-40, 82-93).
ChildrenFirst ==
  \A d \in Listed \ (warned \cup late) :
    Parent[d] # NoDevice /\ stage[Parent[d]] \in Off => stage[d] \in Off

\* The devices in the order in which the list will be when the loop ends.
Order == IF phase \in {"prepare", "resume"} THEN moved \o dpm_list
                                            ELSE dpm_list \o moved

Before(list, d, e) ==
  \E i, j \in 1 .. Len(list) : i < j /\ list[i] = d /\ list[j] = e

\* Every device that was registered without a warning stands behind its parent,
\* as the comment on dpm_list says of all devices (main.c:33-35).
DepthFirst ==
  \A d \in Listed \ warned : Parent[d] # NoDevice => Before(Order, Parent[d], d)

\* Every device stands behind its parent, whatever the loops move and whoever
\* registers in between, with the exceptions of ChildrenFirst.
OrderKept ==
  \A d \in Listed \ (warned \cup late) :
    Parent[d] # NoDevice => Before(Order, Parent[d], d)

\* The list and the sleep respect the tree of devices: no device stands before
\* its parent, and none is up below a parent that is off.
FamiliesInOrder == OrderKept /\ ChildrenFirst

Legal == {<<"on", "prepared">>, <<"prepared", "off">>, <<"off", "deep">>,
          <<"deep", "off">>, <<"off", "prepared">>, <<"prepared", "on">>}

\* The callbacks of a device come in the order prepare, suspend, suspend_noirq,
\* resume_noirq, resume, complete, with only the way back after a failure,
\* unless the device was registered under a warning.
CallbacksInOrder ==
  [][\A d \in (Listed \cap Listed') \ warned :
       stage[d] # stage'[d] => <<stage[d], stage'[d]>> \in Legal]_dpmVars
=============================================================================
