--------------------------- MODULE FbEarlySuspend ---------------------------
(***************************************************************************)
(* The handshake with the program that draws on the framebuffer            *)
(* (kernel/power/fbearlysuspend.c).  The early-suspend handler of level     *)
(* STOP_DRAWING asks user space to stop and waits up to a second for the    *)
(* answer; user space waits for the request by reading wait_for_fb_sleep,   *)
(* and answers, and waits for the end of the sleep, by reading              *)
(* wait_for_fb_wake.                                                        *)
(*                                                                         *)
(* The handlers are called in turn (EarlySuspend: CallsAlternate) by the    *)
(* thread of suspend_work_queue.  With one CPU and no preemption a thread   *)
(* tests its condition and goes to sleep in one step; a thread that was     *)
(* woken tests it again when it gets the CPU, and much may happen before.   *)
(***************************************************************************)
EXTENDS Naturals

CONSTANTS
  Display,   \* the thread that stops and starts the drawing
  Watchers,  \* other threads, which read wait_for_fb_sleep only
  Worker     \* the thread of suspend_work_queue

Threads == {Display} \cup Watchers

ASSUME ThreadsAssumption == Display \notin Watchers /\ Worker \notin Threads

VARIABLES
  fb_state,
  asleep,   \* the threads asleep on fb_state_wq
  worker,   \* the place of the handlers: "up", "stop_wait" or "down"
  thread,   \* the place of each reader: "user", "sleep_show", "wake_show"
  stage,    \* what Display does next when it is in user space
  drawing   \* the program draws

fbVars == <<fb_state, asleep, worker, thread, stage, drawing>>

userVars == <<thread, stage, drawing>>

FbStates == {"STOPPED_DRAWING", "REQUEST_STOP_DRAWING", "DRAWING_OK"}

\* The loop of Display: read wait_for_fb_sleep, stop, read wait_for_fb_wake,
\* start.
Stages == {"await_sleep", "release", "await_wake", "acquire"}

-----------------------------------------------------------------------------
(* The handlers.                                                           *)

\* Wrong: nobody is told.
stop_drawing_early_suspend_untold ==
  /\ worker = "up"
  /\ fb_state' = "REQUEST_STOP_DRAWING"
  /\ asleep' = asleep \cup {Worker}
  /\ worker' = "stop_wait"
  /\ UNCHANGED userVars

\* wake_up_all, then the wait.
stop_drawing_early_suspend ==
  /\ worker = "up"
  /\ fb_state' = "REQUEST_STOP_DRAWING"
  /\ asleep' = {Worker}
  /\ worker' = "stop_wait"
  /\ UNCHANGED userVars

\* The answer has come, or the second is over; in that case the request stays.
stop_drawing_returns ==
  /\ worker = "stop_wait"
  /\ worker' = "down"
  /\ asleep' = asleep \ {Worker}
  /\ UNCHANGED <<fb_state, userVars>>

\* Wrong: the readers are not woken.
start_drawing_late_resume_untold ==
  /\ worker = "down"
  /\ fb_state' = "DRAWING_OK"
  /\ worker' = "up"
  /\ UNCHANGED <<asleep, userVars>>

start_drawing_late_resume ==
  /\ worker = "down"
  /\ fb_state' = "DRAWING_OK"
  /\ asleep' = {}
  /\ worker' = "up"
  /\ UNCHANGED userVars

-----------------------------------------------------------------------------
(* The files.                                                              *)

\* A read returns to the program.  Display goes on to stage s.
Return(t, s) ==
  /\ thread' = [thread EXCEPT ![t] = "user"]
  /\ stage' = IF t = Display THEN s ELSE stage

\* The condition of the file's wait_event_interruptible, and where Display goes
\* when it holds.
Condition(file, state) ==
  IF file = "sleep_show" THEN state # "DRAWING_OK" ELSE state = "DRAWING_OK"

After(file) == IF file = "sleep_show" THEN "release" ELSE "acquire"

\* A read begins: its condition holds and it returns at once, or it sleeps.
\* others are the threads that stay asleep.
Wait(t, file, state, others) ==
  IF Condition(file, state)
  THEN Return(t, After(file)) /\ asleep' = others
  ELSE /\ thread' = [thread EXCEPT ![t] = file]
       /\ asleep' = others \cup {t}
       /\ UNCHANGED stage

Satisfied(t) == thread[t] # "user" /\ Condition(thread[t], fb_state)

\* Wrong: the reader of the first file answers.
wait_for_fb_sleep_show_answers(t) ==
  /\ thread[t] = "user"
  /\ t = Display => stage = "await_sleep"
  /\ fb_state' = IF fb_state = "REQUEST_STOP_DRAWING" THEN "STOPPED_DRAWING"
                                                     ELSE fb_state
  /\ Wait(t, "sleep_show", fb_state, asleep)
  /\ UNCHANGED <<worker, drawing>>

wait_for_fb_sleep_show(t) ==
  /\ thread[t] = "user"
  /\ t = Display => stage = "await_sleep"
  /\ Wait(t, "sleep_show", fb_state, asleep)
  /\ UNCHANGED <<fb_state, worker, drawing>>

\* A request is answered where the read begins, and only there.
wait_for_fb_wake_show(t) ==
  /\ thread[t] = "user"
  /\ t = Display /\ stage = "await_wake"
  /\ LET answers == fb_state = "REQUEST_STOP_DRAWING"
     IN  /\ fb_state' = IF answers THEN "STOPPED_DRAWING" ELSE fb_state
         /\ Wait(t, "wake_show", fb_state', IF answers THEN {} ELSE asleep)
  /\ UNCHANGED <<worker, drawing>>

\* A reader that was woken runs: the condition holds and the read returns, or it goes back
\* to sleep.
read_goes_on(t) ==
  /\ thread[t] # "user" /\ t \notin asleep
  /\ IF Satisfied(t)
     THEN Return(t, After(thread[t])) /\ UNCHANGED asleep
     ELSE asleep' = asleep \cup {t} /\ UNCHANGED <<thread, stage>>
  /\ UNCHANGED <<fb_state, worker, drawing>>

\* A signal ends the wait: an error, after which the program reads again,
\* unless the condition has come true meanwhile.
read_interrupted(t) ==
  /\ thread[t] # "user" /\ ~Satisfied(t)
  /\ Return(t, stage)
  /\ asleep' = asleep \ {t}
  /\ UNCHANGED <<fb_state, worker, drawing>>

-----------------------------------------------------------------------------
(* The program.                                                            *)

screenReleased ==
  /\ thread[Display] = "user" /\ stage = "release"
  /\ drawing' = FALSE
  /\ stage' = "await_wake"
  /\ UNCHANGED <<fb_state, asleep, worker, thread>>

screenAcquired ==
  /\ thread[Display] = "user" /\ stage = "acquire"
  /\ drawing' = TRUE
  /\ stage' = "await_sleep"
  /\ UNCHANGED <<fb_state, asleep, worker, thread>>

-----------------------------------------------------------------------------

FbInit ==
  /\ fb_state = "DRAWING_OK"
  /\ asleep = {}
  /\ worker = "up"
  /\ thread = [t \in Threads |-> "user"]
  /\ stage = "await_sleep"
  /\ drawing = TRUE

Handler ==
  \/ stop_drawing_early_suspend \/ stop_drawing_returns
  \/ start_drawing_late_resume

Read(t) == wait_for_fb_sleep_show(t) \/ wait_for_fb_wake_show(t)
           \/ read_goes_on(t)

FbNext ==
  \/ Handler
  \/ \E t \in Threads : Read(t) \/ read_interrupted(t)
  \/ screenReleased \/ screenAcquired

FbSpec == FbInit /\ [][FbNext]_fbVars

\* The time-out bounds the handler; every thread that can run gets the CPU.
\* Nothing obliges the user to switch the screen off or on.
FbFairness ==
  /\ WF_fbVars(stop_drawing_returns)
  /\ WF_fbVars(screenReleased \/ screenAcquired)
  /\ WF_fbVars(read_goes_on(Display))
  /\ WF_fbVars(wait_for_fb_sleep_show(Display) \/ wait_for_fb_wake_show(Display))

FbFairSpec == FbSpec /\ FbFairness

-----------------------------------------------------------------------------
(* Properties.                                                             *)

\* Every variable keeps its type; the handlers leave drawing allowed exactly
\* while the screen is on, whatever the readers did since.
FbTypeOK ==
  /\ fb_state \in FbStates
  /\ asleep \subseteq Threads \cup {Worker}
  /\ worker \in {"up", "stop_wait", "down"}
  /\ thread \in [Threads -> {"user", "sleep_show", "wake_show"}]
  /\ stage \in Stages
  /\ drawing \in BOOLEAN
  /\ (fb_state = "DRAWING_OK") <=> (worker = "up")

\* When the handler has had its answer, nobody draws until the screen is on
\* again, although answers may come late, for an earlier request or after a
\* signal (fbearlysuspend.c:40-46, 88-93).
QuietWhenStopped == fb_state = "STOPPED_DRAWING" => ~drawing

\* No wake-up is lost: whoever is asleep on fb_state_wq waits for something
\* that is not the case now (fbearlysuspend.c:40, 57, 91).
NoLostWakeup ==
  \A t \in asleep :
    IF t = Worker THEN worker = "stop_wait" /\ fb_state # "STOPPED_DRAWING"
    ELSE thread[t] # "user" /\ ~Satisfied(t)

\* The handshake is sound in every state.
HandshakeSound == FbTypeOK /\ QuietWhenStopped /\ NoLostWakeup

\* The handler returns even if user space never answers, so that
\* suspend_work_queue goes on.
HandlerReturns == worker = "stop_wait" ~> worker = "down"

\* A screen that stays off is not drawn on for ever, even if the request timed
\* out: the late answer still comes.
StopsAtLast == <>[](fb_state # "DRAWING_OK") => <>[]~drawing

\* Switching the screen off comes to its end on both sides.
ScreenGoesOff == HandlerReturns /\ StopsAtLast

\* A screen that stays on is drawn on again, whatever reads were interrupted
\* or late.
DrawsAgain == <>[](fb_state = "DRAWING_OK") => <>[]drawing
=============================================================================
