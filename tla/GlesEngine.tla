----------------------------- MODULE GlesEngine -----------------------------
(***************************************************************************)
(* The rendering core of gles-engine: the application thread that runs     *)
(* android_main and engine_handle_cmd (main.cpp), and the render and data  *)
(* threads of class gles_engine (gles_engine.cpp), with the EGL display    *)
(* engine they share.                                                      *)
(*                                                                         *)
(* One action is one access to shared state, so the model has every        *)
(* interleaving the three threads can produce.  A sleep is a control point *)
(* at which nothing says when the thread goes on: what the lengths of the  *)
(* sleeps add is the subject of module GlesEngineTimed.                    *)
(*                                                                         *)
(* Every loop of the threads calls functions the compiler cannot look      *)
(* into, so the plain bool flags are re-read each time round.              *)
(***************************************************************************)
CONSTANTS
  Windows,     \* the native windows Android may give the activity
  NoWindow,    \* no window (app->window == NULL), and no display engine
  EglMayFail   \* whether eglMakeCurrent may fail on a live window

ASSUME GlesEngineAssumption ==
  /\ Windows # {}
  /\ NoWindow \notin Windows
  /\ EglMayFail \in BOOLEAN

VARIABLES
  mainPc,         \* control point of the application thread
  renderPc,       \* control point of the render thread
  dataPc,         \* control point of the data thread
  window,         \* app->window
  worked,         \* m_d->render_thread_worked
  animated,       \* m_d->render_thread_animated
  initialized,    \* m_d->render_thread_initialized
  dataWorked,     \* m_d->data_thread_worked
  dataUpdated,    \* m_d->data_thread_updated
  displayEngine,  \* m_d->display_engine: the window its surface is on, or none
  renderMutex,    \* who holds m_d->render_mutex
  freed,          \* m_d, the fps calculator and the logger have been deleted
  fault           \* what ended the process abnormally, if anything did

controls == <<mainPc, renderPc, dataPc>>
renderFlags == <<worked, animated, initialized>>
dataFlags == <<dataWorked, dataUpdated>>
vars == <<controls, window, renderFlags, dataFlags, displayEngine,
          renderMutex, freed, fault>>

MainPcs ==
  {"ctor_render", "ctor_data", "poll", "init_display", "enable",
   "destroy_display", "lock", "delete", "unlock", "window_gone",
   "dtor_animated", "dtor_initialized", "dtor_render_sleep",
   "dtor_data_worked", "dtor_data_updated", "dtor_data_sleep", "returned"}
RenderPcs ==
  {"idle", "while", "test_initialized", "test_no_engine", "lock_init", "init",
   "unlock_init", "test_animated", "test_engine", "lock_draw", "draw",
   "unlock_draw", "sleep", "stop_initialized", "stop_lock", "stop_delete",
   "stop_unlock", "stop_log", "done"}
DataPcs == {"idle", "while", "test_updated", "sleep", "stop_log", "done"}

(* Where a thread does not touch the objects the destructor deletes. *)
AtRest == {"idle", "sleep", "done"}

Running == fault = "none"

MainGoto(from, to) ==
  mainPc = from /\ mainPc' = to /\ UNCHANGED <<renderPc, dataPc>>
RenderGoto(from, to) ==
  ~freed /\ renderPc = from /\ renderPc' = to /\ UNCHANGED <<mainPc, dataPc>>
DataGoto(from, to) ==
  ~freed /\ dataPc = from /\ dataPc' = to /\ UNCHANGED <<mainPc, renderPc>>

(* What a step that only moves a control point leaves alone. *)
data == <<window, renderFlags, dataFlags, displayEngine, renderMutex, freed, fault>>

-----------------------------------------------------------------------------
(* Plausible bugs, each a replacement for the action named in its comment. *)
(* No specification uses them; each shows that a property can fail.        *)

(* MainUnlock: the mutex is left in no known state. *)
MainUnlockTwice ==
  /\ MainGoto("unlock", "window_gone")
  /\ renderMutex' = "unlocked twice"
  /\ UNCHANGED <<window, renderFlags, dataFlags, displayEngine, freed, fault>>

(* DestroyDisplay: the flag is not cleared. *)
DestroyDisplayKeepsFlag ==
  /\ MainGoto("destroy_display", "lock")
  /\ UNCHANGED data

(* TestWorked: the loop ends without destroy_display(). *)
TestWorkedNoDestroy ==
  /\ \/ worked /\ RenderGoto("while", "test_initialized")
     \/ ~worked /\ RenderGoto("while", "stop_log")
  /\ UNCHANGED data

(* MainLock: lock_guard is a temporary, so nothing is locked. *)
MainLockTemporary ==
  /\ MainGoto("lock", "delete")
  /\ UNCHANGED data

(* CmdTermWindow: disable() is forgotten. *)
CmdTermWindowKeepsDrawing ==
  /\ MainGoto("poll", "destroy_display")
  /\ window # NoWindow
  /\ UNCHANGED data

(* MainDelete: the lock is taken, but the engine is not deleted. *)
MainDeleteForgotten ==
  /\ MainGoto("delete", "unlock")
  /\ UNCHANGED data

(* TestAnimated: the flag is not looked at. *)
TestAnimatedIgnored ==
  /\ RenderGoto("test_animated", "test_engine")
  /\ UNCHANGED data

(* CmdDestroy: the destructor does not clear render_thread_worked. *)
CmdDestroyKeepsWorked ==
  /\ MainGoto("poll", "dtor_animated")
  /\ window = NoWindow
  /\ UNCHANGED data

(* DtorDataWorked: the destructor does not clear data_thread_worked. *)
DtorKeepsDataWorked ==
  /\ MainGoto("dtor_data_worked", "dtor_data_updated")
  /\ UNCHANGED data

-----------------------------------------------------------------------------
(* The constructor of gles_engine, from the application thread. *)

Init ==
  /\ mainPc = "ctor_render" /\ renderPc = "idle" /\ dataPc = "idle"
  /\ window = NoWindow /\ displayEngine = NoWindow
  /\ worked = FALSE /\ animated = FALSE /\ initialized = FALSE
  /\ dataWorked = FALSE /\ dataUpdated = FALSE
  /\ renderMutex = "free" /\ freed = FALSE /\ fault = "none"

(* The flag is set before the thread exists, so the two are one step. *)
StartRenderThread ==
  /\ mainPc = "ctor_render" /\ mainPc' = "ctor_data"
  /\ worked' = TRUE
  /\ renderPc' = "while"
  /\ UNCHANGED <<dataPc, window, animated, initialized, dataFlags,
                 displayEngine, renderMutex, freed, fault>>

StartDataThread ==
  /\ mainPc = "ctor_data" /\ mainPc' = "poll"
  /\ dataWorked' = TRUE /\ dataUpdated' = TRUE
  /\ dataPc' = "while"
  /\ UNCHANGED <<renderPc, window, renderFlags, displayEngine, renderMutex,
                 freed, fault>>

-----------------------------------------------------------------------------
(* Commands: what the loop of android_main takes from the glue.  The glue   *)
(* sets app->window before it hands over APP_CMD_INIT_WINDOW and clears it  *)
(* after APP_CMD_TERM_WINDOW has been handled; Android destroys the window  *)
(* before the activity.  The window of a surface that still exists is       *)
(* referenced by it, so a new window is another one.                        *)

CmdInitWindow ==
  /\ MainGoto("poll", "init_display")
  /\ window = NoWindow
  /\ \E w \in Windows \ {displayEngine} : window' = w
  /\ UNCHANGED <<renderFlags, dataFlags, displayEngine, renderMutex, freed, fault>>

(* Handler of APP_CMD_TERM_WINDOW up to the end of disable(). *)
CmdTermWindow ==
  /\ MainGoto("poll", "destroy_display")
  /\ window # NoWindow
  /\ animated' = FALSE
  /\ UNCHANGED <<window, worked, initialized, dataFlags, displayEngine,
                 renderMutex, freed, fault>>

CmdGainedFocus ==
  /\ MainGoto("poll", "poll")
  /\ animated' = TRUE
  /\ UNCHANGED <<window, worked, initialized, dataFlags, displayEngine,
                 renderMutex, freed, fault>>

CmdLostFocus ==
  /\ MainGoto("poll", "poll")
  /\ animated' = FALSE
  /\ UNCHANGED <<window, worked, initialized, dataFlags, displayEngine,
                 renderMutex, freed, fault>>

(* destroyRequested has been set: the loop deletes the engine, whose       *)
(* destructor first clears render_thread_worked.                           *)
CmdDestroy ==
  /\ MainGoto("poll", "dtor_animated")
  /\ window = NoWindow
  /\ worked' = FALSE
  /\ UNCHANGED <<window, animated, initialized, dataFlags, displayEngine,
                 renderMutex, freed, fault>>

Command ==
  Running /\ (\/ CmdInitWindow \/ CmdTermWindow \/ CmdGainedFocus
              \/ CmdLostFocus \/ CmdDestroy)

-----------------------------------------------------------------------------
(* The rest of the handlers. *)

InitDisplay ==
  /\ MainGoto("init_display", "enable")
  /\ initialized' = TRUE
  /\ UNCHANGED <<window, worked, animated, dataFlags, displayEngine,
                 renderMutex, freed, fault>>

Enable ==
  /\ MainGoto("enable", "poll")
  /\ animated' = TRUE
  /\ UNCHANGED <<window, worked, initialized, dataFlags, displayEngine,
                 renderMutex, freed, fault>>

DestroyDisplay ==
  /\ MainGoto("destroy_display", "lock")
  /\ initialized' = FALSE
  /\ UNCHANGED <<window, worked, animated, dataFlags, displayEngine,
                 renderMutex, freed, fault>>

MainLock ==
  /\ MainGoto("lock", "delete")
  /\ renderMutex = "free" /\ renderMutex' = "main"
  /\ UNCHANGED <<window, renderFlags, dataFlags, displayEngine, freed, fault>>

MainDelete ==
  /\ MainGoto("delete", "unlock")
  /\ displayEngine' = NoWindow
  /\ UNCHANGED <<window, renderFlags, dataFlags, renderMutex, freed, fault>>

MainUnlock ==
  /\ MainGoto("unlock", "window_gone")
  /\ renderMutex' = "free"
  /\ UNCHANGED <<window, renderFlags, dataFlags, displayEngine, freed, fault>>

(* The glue, once the handler has returned. *)
WindowGone ==
  /\ MainGoto("window_gone", "poll")
  /\ window' = NoWindow
  /\ UNCHANGED <<renderFlags, dataFlags, displayEngine, renderMutex, freed, fault>>

-----------------------------------------------------------------------------
(* The destructor of gles_engine. *)

DtorAnimated ==
  /\ MainGoto("dtor_animated", "dtor_initialized")
  /\ animated' = FALSE
  /\ UNCHANGED <<window, worked, initialized, dataFlags, displayEngine,
                 renderMutex, freed, fault>>

DtorInitialized ==
  /\ MainGoto("dtor_initialized", "dtor_render_sleep")
  /\ initialized' = FALSE
  /\ UNCHANGED <<window, worked, animated, dataFlags, displayEngine,
                 renderMutex, freed, fault>>

(* Deleting the boost::thread detaches it; nobody joins the render thread. *)
DtorRenderSlept ==
  /\ MainGoto("dtor_render_sleep", "dtor_data_worked")
  /\ UNCHANGED data

DtorDataWorked ==
  /\ MainGoto("dtor_data_worked", "dtor_data_updated")
  /\ dataWorked' = FALSE
  /\ UNCHANGED <<window, renderFlags, dataUpdated, displayEngine, renderMutex,
                 freed, fault>>

DtorDataUpdated ==
  /\ MainGoto("dtor_data_updated", "dtor_data_sleep")
  /\ dataUpdated' = FALSE
  /\ UNCHANGED <<window, renderFlags, dataWorked, displayEngine, renderMutex,
                 freed, fault>>

(* The calculator, m_d and, back in android_main, the logger are deleted in *)
(* a row; android_main returns.                                             *)
DtorFree ==
  /\ MainGoto("dtor_data_sleep", "returned")
  /\ freed' = TRUE
  /\ UNCHANGED <<window, renderFlags, dataFlags, displayEngine, renderMutex, fault>>

MainStep ==
  Running /\ (\/ StartRenderThread \/ StartDataThread
              \/ InitDisplay \/ Enable
              \/ DestroyDisplay \/ MainLock \/ MainDelete \/ MainUnlock \/ WindowGone
              \/ DtorAnimated \/ DtorInitialized \/ DtorRenderSlept
              \/ DtorDataWorked \/ DtorDataUpdated \/ DtorFree)

-----------------------------------------------------------------------------
(* The render thread.  Both conditions of the loop are read one operand at *)
(* a time and without the lock.                                            *)

TestWorked ==
  /\ \/ worked /\ RenderGoto("while", "test_initialized")
     \/ ~worked /\ RenderGoto("while", "stop_initialized")
  /\ UNCHANGED data

TestInitialized ==
  /\ \/ initialized /\ RenderGoto("test_initialized", "test_no_engine")
     \/ ~initialized /\ RenderGoto("test_initialized", "test_animated")
  /\ UNCHANGED data

TestNoEngine ==
  /\ \/ displayEngine = NoWindow /\ RenderGoto("test_no_engine", "lock_init")
     \/ displayEngine # NoWindow /\ RenderGoto("test_no_engine", "test_animated")
  /\ UNCHANGED data

RenderLock(from, to) ==
  /\ RenderGoto(from, to)
  /\ renderMutex = "free" /\ renderMutex' = "render"
  /\ UNCHANGED <<window, renderFlags, dataFlags, displayEngine, freed, fault>>

RenderUnlock(from, to) ==
  /\ RenderGoto(from, to)
  /\ renderMutex' = "free"
  /\ UNCHANGED <<window, renderFlags, dataFlags, displayEngine, freed, fault>>

(* init_display_impl: an engine for the window app->window is then. *)
InitDisplayImpl ==
  /\ RenderGoto("init", "unlock_init")
  /\ window # NoWindow
  /\ displayEngine' = IF displayEngine # NoWindow THEN displayEngine ELSE window
  /\ UNCHANGED <<window, renderFlags, dataFlags, renderMutex, freed, fault>>

(* The window has gone: the constructor of egl_engine is given NULL. *)
InitWithoutWindow ==
  /\ RenderGoto("init", "init")
  /\ window = NoWindow
  /\ fault' = "no_window"
  /\ UNCHANGED <<window, renderFlags, dataFlags, displayEngine, renderMutex, freed>>

(* eglMakeCurrent fails: the exception leaves the thread's function. *)
InitThrows ==
  /\ RenderGoto("init", "init")
  /\ EglMayFail /\ window # NoWindow
  /\ fault' = "terminate"
  /\ UNCHANGED <<window, renderFlags, dataFlags, displayEngine, renderMutex, freed>>

TestAnimated ==
  /\ \/ animated /\ RenderGoto("test_animated", "test_engine")
     \/ ~animated /\ RenderGoto("test_animated", "sleep")
  /\ UNCHANGED data

TestEngine ==
  /\ \/ displayEngine # NoWindow /\ RenderGoto("test_engine", "lock_draw")
     \/ displayEngine = NoWindow /\ RenderGoto("test_engine", "sleep")
  /\ UNCHANGED data

Draw ==
  /\ RenderGoto("draw", "unlock_draw")
  /\ displayEngine # NoWindow
  /\ UNCHANGED data

(* swap_buffers is called through a null display_engine. *)
DrawWithoutEngine ==
  /\ RenderGoto("draw", "draw")
  /\ displayEngine = NoWindow
  /\ fault' = "null_engine"
  /\ UNCHANGED <<window, renderFlags, dataFlags, displayEngine, renderMutex, freed>>

RenderWakes ==
  /\ renderPc = "sleep" /\ renderPc' = "while"
  /\ UNCHANGED <<mainPc, dataPc>>
  /\ UNCHANGED data

(* Past the loop: destroy_display() once more, then the last log line. *)
StopInitialized ==
  /\ RenderGoto("stop_initialized", "stop_lock")
  /\ initialized' = FALSE
  /\ UNCHANGED <<window, worked, animated, dataFlags, displayEngine,
                 renderMutex, freed, fault>>

StopDelete ==
  /\ RenderGoto("stop_delete", "stop_unlock")
  /\ displayEngine' = NoWindow
  /\ UNCHANGED <<window, renderFlags, dataFlags, renderMutex, freed, fault>>

StopLog ==
  /\ RenderGoto("stop_log", "done")
  /\ UNCHANGED data

RenderUseAfterFree ==
  /\ freed /\ renderPc \notin AtRest
  /\ fault' = "use_after_free"
  /\ UNCHANGED <<controls, window, renderFlags, dataFlags, displayEngine,
                 renderMutex, freed>>

RenderStep ==
  Running /\ (\/ TestWorked \/ TestInitialized \/ TestNoEngine
              \/ RenderLock("lock_init", "init")
              \/ InitDisplayImpl \/ InitWithoutWindow \/ InitThrows
              \/ RenderUnlock("unlock_init", "test_animated")
              \/ TestAnimated \/ TestEngine
              \/ RenderLock("lock_draw", "draw")
              \/ Draw \/ DrawWithoutEngine
              \/ RenderUnlock("unlock_draw", "while")
              \/ RenderWakes
              \/ StopInitialized
              \/ RenderLock("stop_lock", "stop_delete")
              \/ StopDelete
              \/ RenderUnlock("stop_unlock", "stop_log")
              \/ StopLog
              \/ RenderUseAfterFree)

-----------------------------------------------------------------------------
(* The data thread.  Its angle m_rotate decides nothing and is left out. *)

TestDataWorked ==
  /\ \/ dataWorked /\ DataGoto("while", "test_updated")
     \/ ~dataWorked /\ DataGoto("while", "stop_log")
  /\ UNCHANGED data

(* Updates the angle when data_thread_updated is set, then sleeps. *)
UpdateData ==
  /\ DataGoto("test_updated", "sleep")
  /\ UNCHANGED data

DataWakes ==
  /\ dataPc = "sleep" /\ dataPc' = "while"
  /\ UNCHANGED <<mainPc, renderPc>>
  /\ UNCHANGED data

DataStopLog ==
  /\ DataGoto("stop_log", "done")
  /\ UNCHANGED data

DataUseAfterFree ==
  /\ freed /\ dataPc \notin AtRest
  /\ fault' = "use_after_free"
  /\ UNCHANGED <<controls, window, renderFlags, dataFlags, displayEngine,
                 renderMutex, freed>>

DataStep ==
  Running /\ (\/ TestDataWorked \/ UpdateData \/ DataWakes \/ DataStopLog
              \/ DataUseAfterFree)

-----------------------------------------------------------------------------
(* Nothing is left to run: the process has failed, or all three have ended. *)
Ended ==
  /\ ~Running \/ (mainPc = "returned" /\ renderPc = "done" /\ dataPc = "done")
  /\ UNCHANGED vars

Next == Command \/ MainStep \/ RenderStep \/ DataStep \/ Ended

Spec == Init /\ [][Next]_vars

(* A runnable thread is scheduled in the end.  Nothing obliges Android to   *)
(* send a command, and a lock that is released and taken again and again    *)
(* owes a waiter nothing: boost::mutex is not fair, so weak fairness it is. *)
Fairness ==
  /\ WF_vars(MainStep)
  /\ WF_vars(RenderStep)
  /\ WF_vars(DataStep)

FairSpec == Spec /\ Fairness
-----------------------------------------------------------------------------
(* Properties. *)

(* The variables keep the values the program can give them. *)
TypeOK ==
  /\ mainPc \in MainPcs /\ renderPc \in RenderPcs /\ dataPc \in DataPcs
  /\ window \in Windows \cup {NoWindow}
  /\ displayEngine \in Windows \cup {NoWindow}
  /\ worked \in BOOLEAN /\ animated \in BOOLEAN /\ initialized \in BOOLEAN
  /\ dataWorked \in BOOLEAN /\ dataUpdated \in BOOLEAN /\ freed \in BOOLEAN
  /\ renderMutex \in {"free", "main", "render"}
  /\ fault \in {"none", "null_engine", "no_window", "terminate", "use_after_free"}

(* The flag that sends the render thread to create an engine is up only     *)
(* while there is a window: init_display() runs after the glue has set      *)
(* app->window, and every path that takes the window away first goes        *)
(* through destroy_display().                                               *)
FlagNeedsWindow == initialized => window # NoWindow

(* The render thread leaves no EGL surface behind: once it is past its last *)
(* destroy_display(), nobody creates an engine again.                       *)
EngineReleasedAtExit ==
  renderPc \in {"stop_unlock", "stop_log", "done"} => displayEngine = NoWindow

(* Mutual exclusion as the program relies on it: display_engine is created, *)
(* drawn with and deleted as the abstract monitor allows, each time by the  *)
(* thread that holds render_mutex.                                          *)
Monitor == INSTANCE EngineMonitor WITH
  Surfaces <- Windows, None <- NoWindow, engine <- displayEngine,
  holder <- renderMutex, drawing <- (renderPc = "draw" /\ displayEngine # NoWindow)
ImplementsMonitor == Monitor!Spec

(* Android waits for the TERM_WINDOW handler to return.  It does, although  *)
(* nothing makes the mutex fair, because disable() and the flag come before *)
(* the lock: the render thread soon stops asking for it.                    *)
TermWindowCompletes ==
  mainPc = "destroy_display" ~> (mainPc = "poll" \/ ~Running)

(* destroy_display() never overtakes the render thread between its test of  *)
(* the flag and the creation of an engine, the code's one unlocked gap.     *)
NotOvertaken ==
  [](~initialized => renderPc \notin {"test_no_engine", "lock_init", "init"})

(* A window that stays, with the engine enabled, gets frames of its own:    *)
(* the render thread draws with an engine on that very window, whatever     *)
(* windows came before it.  This takes NotOvertaken: an engine created in   *)
(* the gap is on a window that is gone, and later windows inherit it.       *)
WindowGetsFrame ==
  NotOvertaken =>
    ((mainPc = "poll" /\ initialized /\ animated)
       ~> \/ renderPc = "draw" /\ displayEngine = window
          \/ ~initialized \/ ~animated \/ ~Running)

(* The test of display_engine before a frame means that the frame, and the  *)
(* swap at its end, have an engine to work with.                            *)
FrameHasEngine == fault # "null_engine"
=============================================================================
