-------------------------- MODULE GlesEngineTimed ---------------------------
(***************************************************************************)
(* GlesEngine with time.  The destructor of gles_engine joins neither      *)
(* thread: it clears a flag, sleeps for longer than a thread's cycle and   *)
(* frees what the thread uses.  Whether that is enough is a matter of      *)
(* time, so here each thread has a timer, and a Tick lets a millisecond    *)
(* pass.                                                                   *)
(*                                                                         *)
(* A timer says how long its thread may still take for its next step.  A   *)
(* step takes at most MaxDelay and no less than nothing; a sleep adds its  *)
(* length, and until it is over (the timer is down to MaxDelay) the thread *)
(* does not move.                                                          *)
(***************************************************************************)
EXTENDS GlesEngine, Naturals

CONSTANTS
  MaxDelay,         \* the longest a runnable thread takes for one step
  RenderCycleWait,  \* RENDER_THREAD_CYCLE_WAIT_TIMEOUT
  DataCycleWait,    \* DATA_THREAD_CYCLE_WAIT_TIMEOUT
  RenderStop,       \* RENDER_THREAD_STOP_TIMEOUT
  DataStop,         \* DATA_THREAD_STOP_TIMEOUT
  CommandGap,       \* the least time from the end of a handler to a command
  FocusFirst        \* whether Android takes the focus before the window

(* The longest part of a cycle: the sleep, or a frame under the lock. *)
CycleRest ==
  IF RenderCycleWait > 2 * MaxDelay THEN RenderCycleWait ELSE 2 * MaxDelay

(* The program's 250 and 50 satisfy this for every MaxDelay up to 31 ms.   *)
(* The two sleeps of the destructor add up for the render thread, since    *)
(* nothing it uses is freed between them.                                  *)
ASSUME TimedAssumption ==
  /\ MaxDelay \in Nat \ {0}
  /\ RenderCycleWait \in Nat /\ DataCycleWait \in Nat
  /\ RenderStop \in Nat /\ DataStop \in Nat
  /\ RenderStop + DataStop > 14 * MaxDelay + CycleRest
  /\ DataStop > 4 * MaxDelay + DataCycleWait
  /\ CommandGap \in Nat
  /\ FocusFirst \in BOOLEAN

VARIABLES mainDue, renderDue, dataDue

timers == <<mainDue, renderDue, dataDue>>
timedVars == <<vars, timers>>

(* Plausible bug, MainAllowance: the destructor does not sleep. *)
MainAllowanceNoSleep(pc) ==
  MaxDelay + (CASE pc = "poll" -> CommandGap [] OTHER -> 0)

(* How long a thread may stay at a control point it comes to. *)
MainAllowance(pc) ==
  MaxDelay + (CASE pc = "dtor_render_sleep" -> RenderStop
                [] pc = "dtor_data_sleep" -> DataStop
                [] pc = "poll" -> CommandGap
                [] OTHER -> 0)
RenderAllowance(pc) == MaxDelay + (IF pc = "sleep" THEN RenderCycleWait ELSE 0)
DataAllowance(pc) == MaxDelay + (IF pc = "sleep" THEN DataCycleWait ELSE 0)

Awake(due) == due <= MaxDelay

-----------------------------------------------------------------------------
(* In these states a thread's time does not run: it has not started, has    *)
(* ended, or waits for the mutex another thread holds.                      *)
MainBlocked ==
  mainPc = "returned" \/ (mainPc = "lock" /\ renderMutex = "render")
RenderBlocked ==
  \/ renderPc \in {"idle", "done"}
  \/ renderPc \in {"lock_init", "lock_draw", "stop_lock"} /\ renderMutex = "main"
DataBlocked == dataPc \in {"idle", "done"}

(* Android may leave the application thread at its poll for ever. *)
Tick ==
  /\ Running /\ ~(MainBlocked /\ RenderBlocked /\ DataBlocked)
  /\ MainBlocked \/ mainPc = "poll" \/ mainDue > 0
  /\ RenderBlocked \/ renderDue > 0
  /\ DataBlocked \/ dataDue > 0
  /\ mainDue' = IF MainBlocked THEN MaxDelay
                ELSE IF mainDue > 0 THEN mainDue - 1 ELSE 0
  /\ renderDue' = IF RenderBlocked THEN MaxDelay ELSE renderDue - 1
  /\ dataDue' = IF DataBlocked THEN MaxDelay ELSE dataDue - 1
  /\ UNCHANGED vars

(* A command comes CommandGap after the handler of the one before it at     *)
(* the earliest; with FocusFirst the window is taken away only from an      *)
(* activity that has lost the focus.                                        *)
TimedCommand ==
  /\ Command /\ Awake(mainDue)
  /\ FocusFirst => (animated => mainPc' # "destroy_display")
  /\ mainDue' = MainAllowance(mainPc')
  /\ UNCHANGED <<renderDue, dataDue>>

TimedMainStep ==
  /\ MainStep /\ Awake(mainDue)
  /\ mainDue' = MainAllowance(mainPc')
  /\ UNCHANGED <<renderDue, dataDue>>

TimedRenderStep ==
  /\ RenderStep /\ Awake(renderDue)
  /\ renderDue' = RenderAllowance(renderPc')
  /\ UNCHANGED <<mainDue, dataDue>>

(* Plausible bug, TimedDataStep: it sleeps as long as the render thread. *)
TimedDataStepLongSleep ==
  /\ DataStep /\ Awake(dataDue)
  /\ dataDue' = RenderAllowance(dataPc')
  /\ UNCHANGED <<mainDue, renderDue>>

TimedDataStep ==
  /\ DataStep /\ Awake(dataDue)
  /\ dataDue' = DataAllowance(dataPc')
  /\ UNCHANGED <<mainDue, renderDue>>

TimedInit ==
  /\ Init
  /\ mainDue = MaxDelay /\ renderDue = MaxDelay /\ dataDue = MaxDelay

TimedNext ==
  \/ TimedCommand \/ TimedMainStep \/ TimedRenderStep \/ TimedDataStep
  \/ Tick
  \/ Ended /\ UNCHANGED timers

TimedSpec == TimedInit /\ [][TimedNext]_timedVars

(* Time goes on, and so, by the timers, does every thread. *)
TimedFairSpec == TimedSpec /\ WF_timedVars(TimedNext)
-----------------------------------------------------------------------------
(* Properties. *)

TimedTypeOK ==
  /\ mainDue \in Nat /\ renderDue \in Nat /\ dataDue \in Nat
  /\ renderDue <= RenderAllowance(renderPc)
  /\ dataDue <= DataAllowance(dataPc)

(* The destructor frees m_d, the calculator and android_main the logger only *)
(* when both threads are through with them, although nobody joins a thread.  *)
NoUseAfterFree == fault # "use_after_free"

(* Where TERM_WINDOW comes after LOST_FOCUS and a command leaves the render *)
(* thread the time to get past its two tests, each frame has an engine.     *)
Orderly == FocusFirst /\ CommandGap > 2 * MaxDelay
OrderlyFrameHasEngine == Orderly => FrameHasEngine

(* Once android_main has handled a command, an engine is on the window the  *)
(* activity has now: that is why TERM_WINDOW deletes it and INIT_WINDOW has *)
(* one created only where there is none.                                    *)
EngineOnAppWindow ==
  (Running /\ mainPc = "poll" /\ displayEngine # NoWindow) => displayEngine = window

(* onDestroy waits for android_main, which ends, and both threads with it,  *)
(* unless the process fails to begin with a window that is gone.            *)
ShutdownCompletes ==
  mainPc = "dtor_animated"
    ~> (\/ mainPc = "returned" /\ renderPc = "done" /\ dataPc = "done"
        \/ fault \in {"no_window", "null_engine", "terminate"})
=============================================================================
