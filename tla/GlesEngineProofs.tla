-------------------------- MODULE GlesEngineProofs --------------------------
(***************************************************************************)
(* Proofs about GlesEngine, for every set of windows, and then about       *)
(* GlesEngineTimed.  The first part uses nothing of the second module, nor *)
(* its assumption.                                                         *)
(*                                                                         *)
(* The inductive invariant is Inv.  FlagNeedsWindow and                    *)
(* EngineReleasedAtExit are parts of it; the first is inductive only       *)
(* together with what the handlers of the application thread know about    *)
(* the window (HandlerKnows).  That every step is one the monitor allows   *)
(* needs to know which control points are inside the critical sections     *)
(* (MutexHeld).  No thread but the render thread takes the mutex as        *)
(* "render", so MutexHeld also needs that the thread is started once      *)
(* (Started).                                                              *)
(***************************************************************************)
EXTENDS GlesEngineTimed, TLAPS

MainInside == {"delete", "unlock"}
RenderInside ==
  {"init", "unlock_init", "draw", "unlock_draw", "stop_delete", "stop_unlock"}

Started ==
  /\ renderPc = "idle" <=> mainPc = "ctor_render"
  /\ dataPc = "idle" <=> mainPc \in {"ctor_render", "ctor_data"}

MutexHeld ==
  /\ renderMutex = "main" <=> mainPc \in MainInside
  /\ renderMutex = "render" <=> renderPc \in RenderInside

HandlerKnows ==
  /\ mainPc \in {"init_display", "enable", "destroy_display"} => window # NoWindow
  /\ mainPc \in {"lock", "delete", "unlock", "window_gone"} => ~initialized

Inv ==
  /\ TypeOK
  /\ Started
  /\ MutexHeld
  /\ HandlerKnows
  /\ FlagNeedsWindow
  /\ EngineReleasedAtExit

-----------------------------------------------------------------------------
(* Each part of the invariant is kept by every step. *)

(* Every step of the threads keeps the types. *)
LEMMA TypeStep == TypeOK /\ [Next]_vars => TypeOK'
<1> SUFFICES ASSUME TypeOK, [Next]_vars PROVE TypeOK'
  OBVIOUS
<1> USE DEF TypeOK, MainPcs, RenderPcs, DataPcs, data, controls, renderFlags,
    dataFlags
<1>1. CASE Command
  <2>1. CASE CmdInitWindow
    BY <2>1 DEF CmdInitWindow, MainGoto
  <2>2. CASE CmdTermWindow
    <3>1. animated' \in BOOLEAN
      BY <2>2 DEF CmdTermWindow
    <3> QED
      BY <2>2, <3>1 DEF CmdTermWindow, MainGoto
  <2>3. CASE CmdGainedFocus
    <3>1. animated' \in BOOLEAN
      BY <2>3 DEF CmdGainedFocus
    <3> QED
      BY <2>3, <3>1 DEF CmdGainedFocus, MainGoto
  <2>4. CASE CmdLostFocus
    <3>1. animated' \in BOOLEAN
      BY <2>4 DEF CmdLostFocus
    <3> QED
      BY <2>4, <3>1 DEF CmdLostFocus, MainGoto
  <2>5. CASE CmdDestroy
    <3>1. worked' \in BOOLEAN
      BY <2>5 DEF CmdDestroy
    <3> QED
      BY <2>5, <3>1 DEF CmdDestroy, MainGoto
  <2> QED
    BY <1>1, <2>1, <2>2, <2>3, <2>4, <2>5 DEF Command
<1>2. CASE MainStep
  <2>1. CASE StartRenderThread
    <3>1. worked' \in BOOLEAN
      BY <2>1 DEF StartRenderThread
    <3> QED
      BY <2>1, <3>1 DEF StartRenderThread
  <2>2. CASE StartDataThread
    <3>1. dataWorked' \in BOOLEAN /\ dataUpdated' \in BOOLEAN
      BY <2>2 DEF StartDataThread
    <3> QED
      BY <2>2, <3>1 DEF StartDataThread
  <2>3. CASE InitDisplay
    <3>1. initialized' \in BOOLEAN
      BY <2>3 DEF InitDisplay
    <3> QED
      BY <2>3, <3>1 DEF InitDisplay, MainGoto
  <2>4. CASE Enable
    <3>1. animated' \in BOOLEAN
      BY <2>4 DEF Enable
    <3> QED
      BY <2>4, <3>1 DEF Enable, MainGoto
  <2>5. CASE DestroyDisplay
    <3>1. initialized' \in BOOLEAN
      BY <2>5 DEF DestroyDisplay
    <3> QED
      BY <2>5, <3>1 DEF DestroyDisplay, MainGoto
  <2>6. CASE MainLock \/ MainDelete \/ MainUnlock \/ WindowGone
    BY <2>6 DEF MainLock, MainDelete, MainUnlock, WindowGone, MainGoto
  <2>7. CASE DtorRenderSlept
    BY <2>7 DEF DtorRenderSlept, MainGoto
  <2>8. CASE DtorAnimated
    <3>1. animated' \in BOOLEAN
      BY <2>8 DEF DtorAnimated
    <3> QED
      BY <2>8, <3>1 DEF DtorAnimated, MainGoto
  <2>9. CASE DtorInitialized
    <3>1. initialized' \in BOOLEAN
      BY <2>9 DEF DtorInitialized
    <3> QED
      BY <2>9, <3>1 DEF DtorInitialized, MainGoto
  <2>10. CASE DtorDataWorked
    <3>1. dataWorked' \in BOOLEAN
      BY <2>10 DEF DtorDataWorked
    <3> QED
      BY <2>10, <3>1 DEF DtorDataWorked, MainGoto
  <2>11. CASE DtorDataUpdated
    <3>1. dataUpdated' \in BOOLEAN
      BY <2>11 DEF DtorDataUpdated
    <3> QED
      BY <2>11, <3>1 DEF DtorDataUpdated, MainGoto
  <2>12. CASE DtorFree
    <3>1. freed' \in BOOLEAN
      BY <2>12 DEF DtorFree
    <3> QED
      BY <2>12, <3>1 DEF DtorFree, MainGoto
  <2> QED
    BY <1>2, <2>1, <2>2, <2>3, <2>4, <2>5, <2>6, <2>7, <2>8, <2>9, <2>10,
        <2>11, <2>12 DEF MainStep
<1>3. CASE RenderStep
  <2>1. CASE \/ TestWorked
             \/ TestInitialized
             \/ TestNoEngine
             \/ TestAnimated
             \/ TestEngine
    BY <2>1 DEF TestWorked, TestInitialized, TestNoEngine, TestAnimated,
        TestEngine, RenderGoto
  <2>2. CASE \/ RenderLock("lock_init", "init")
             \/ RenderLock("lock_draw", "draw")
             \/ RenderLock("stop_lock", "stop_delete")
    BY <2>2 DEF RenderLock, RenderGoto
  <2>3. CASE \/ RenderUnlock("unlock_init", "test_animated")
             \/ RenderUnlock("unlock_draw", "while")
             \/ RenderUnlock("stop_unlock", "stop_log")
    BY <2>3 DEF RenderUnlock, RenderGoto
  <2>4. CASE InitDisplayImpl \/ InitWithoutWindow \/ InitThrows
    BY <2>4 DEF InitDisplayImpl, InitWithoutWindow, InitThrows, RenderGoto
  <2>5. CASE Draw \/ DrawWithoutEngine \/ RenderWakes
    BY <2>5 DEF Draw, DrawWithoutEngine, RenderWakes, RenderGoto
  <2>6. CASE StopDelete \/ StopLog \/ RenderUseAfterFree
    BY <2>6 DEF StopDelete, StopLog, RenderUseAfterFree, RenderGoto
  <2>7. CASE StopInitialized
    <3>1. initialized' \in BOOLEAN
      BY <2>7 DEF StopInitialized
    <3> QED
      BY <2>7, <3>1 DEF StopInitialized, RenderGoto
  <2> QED
    BY <1>3, <2>1, <2>2, <2>3, <2>4, <2>5, <2>6, <2>7 DEF RenderStep
<1>4. CASE DataStep
  <2>1. CASE \/ TestDataWorked
             \/ UpdateData
             \/ DataWakes
             \/ DataStopLog
             \/ DataUseAfterFree
    BY <2>1 DEF TestDataWorked, UpdateData, DataWakes, DataStopLog,
        DataUseAfterFree, DataGoto
  <2> QED
    BY <1>4, <2>1 DEF DataStep
<1>5. CASE Ended \/ UNCHANGED vars
  BY <1>5 DEF Ended, vars
<1> QED
  BY <1>1, <1>2, <1>3, <1>4, <1>5 DEF Next

(* No thread that has started becomes idle again. *)
LEMMA StartedStep == Started /\ [Next]_vars => Started'
<1> SUFFICES ASSUME Started, [Next]_vars PROVE Started'
  OBVIOUS
<1> USE DEF Started, data, controls, renderFlags, dataFlags
<1>1. CASE Command
  <2>1. CASE CmdInitWindow \/ CmdTermWindow \/ CmdGainedFocus
    BY <2>1 DEF CmdInitWindow, CmdTermWindow, CmdGainedFocus, MainGoto
  <2>2. CASE CmdLostFocus \/ CmdDestroy
    BY <2>2 DEF CmdLostFocus, CmdDestroy, MainGoto
  <2> QED
    BY <1>1, <2>1, <2>2 DEF Command
<1>2. CASE MainStep
  <2>1. CASE StartRenderThread \/ StartDataThread
    BY <2>1 DEF StartRenderThread, StartDataThread
  <2>2. CASE InitDisplay \/ Enable \/ DestroyDisplay
    BY <2>2 DEF InitDisplay, Enable, DestroyDisplay, MainGoto
  <2>3. CASE MainLock \/ MainDelete \/ MainUnlock \/ WindowGone
    BY <2>3 DEF MainLock, MainDelete, MainUnlock, WindowGone, MainGoto
  <2>4. CASE DtorAnimated \/ DtorInitialized \/ DtorRenderSlept
    BY <2>4 DEF DtorAnimated, DtorInitialized, DtorRenderSlept, MainGoto
  <2>5. CASE DtorDataWorked \/ DtorDataUpdated \/ DtorFree
    BY <2>5 DEF DtorDataWorked, DtorDataUpdated, DtorFree, MainGoto
  <2> QED
    BY <1>2, <2>1, <2>2, <2>3, <2>4, <2>5 DEF MainStep
<1>3. CASE RenderStep
  <2>1. CASE \/ TestWorked
             \/ TestInitialized
             \/ TestNoEngine
             \/ TestAnimated
             \/ TestEngine
    BY <2>1 DEF TestWorked, TestInitialized, TestNoEngine, TestAnimated,
        TestEngine, RenderGoto
  <2>2. CASE \/ RenderLock("lock_init", "init")
             \/ RenderLock("lock_draw", "draw")
             \/ RenderLock("stop_lock", "stop_delete")
    BY <2>2 DEF RenderLock, RenderGoto
  <2>3. CASE \/ RenderUnlock("unlock_init", "test_animated")
             \/ RenderUnlock("unlock_draw", "while")
             \/ RenderUnlock("stop_unlock", "stop_log")
    BY <2>3 DEF RenderUnlock, RenderGoto
  <2>4. CASE InitDisplayImpl \/ InitWithoutWindow \/ InitThrows
    BY <2>4 DEF InitDisplayImpl, InitWithoutWindow, InitThrows, RenderGoto
  <2>5. CASE Draw \/ DrawWithoutEngine \/ RenderWakes
    BY <2>5 DEF Draw, DrawWithoutEngine, RenderWakes, RenderGoto
  <2>6. CASE StopInitialized \/ StopDelete \/ StopLog \/ RenderUseAfterFree
    BY <2>6 DEF StopInitialized, StopDelete, StopLog, RenderUseAfterFree,
        RenderGoto
  <2> QED
    BY <1>3, <2>1, <2>2, <2>3, <2>4, <2>5, <2>6 DEF RenderStep
<1>4. CASE DataStep
  <2>1. CASE \/ TestDataWorked
             \/ UpdateData
             \/ DataWakes
             \/ DataStopLog
             \/ DataUseAfterFree
    BY <2>1 DEF TestDataWorked, UpdateData, DataWakes, DataStopLog,
        DataUseAfterFree, DataGoto
  <2> QED
    BY <1>4, <2>1 DEF DataStep
<1>5. CASE Ended \/ UNCHANGED vars
  BY <1>5 DEF Ended, vars
<1> QED
  BY <1>1, <1>2, <1>3, <1>4, <1>5 DEF Next

(* Lock and unlock keep render_mutex and the control points in agreement. *)
LEMMA MutexHeldStep == Started /\ MutexHeld /\ [Next]_vars => MutexHeld'
<1> SUFFICES ASSUME Started, MutexHeld, [Next]_vars PROVE MutexHeld'
  OBVIOUS
<1> USE DEF Started, MutexHeld, MainInside, RenderInside, data, controls,
    renderFlags, dataFlags
<1>1. CASE Command
  <2>1. CASE CmdInitWindow \/ CmdTermWindow \/ CmdGainedFocus
    BY <2>1 DEF CmdInitWindow, CmdTermWindow, CmdGainedFocus, MainGoto
  <2>2. CASE CmdLostFocus \/ CmdDestroy
    BY <2>2 DEF CmdLostFocus, CmdDestroy, MainGoto
  <2> QED
    BY <1>1, <2>1, <2>2 DEF Command
<1>2. CASE MainStep
  <2>1. CASE StartRenderThread \/ StartDataThread
    BY <2>1 DEF StartRenderThread, StartDataThread
  <2>2. CASE InitDisplay \/ Enable \/ DestroyDisplay
    BY <2>2 DEF InitDisplay, Enable, DestroyDisplay, MainGoto
  <2>3. CASE MainLock \/ MainDelete \/ MainUnlock \/ WindowGone
    BY <2>3 DEF MainLock, MainDelete, MainUnlock, WindowGone, MainGoto
  <2>4. CASE DtorAnimated \/ DtorInitialized \/ DtorRenderSlept
    BY <2>4 DEF DtorAnimated, DtorInitialized, DtorRenderSlept, MainGoto
  <2>5. CASE DtorDataWorked \/ DtorDataUpdated \/ DtorFree
    BY <2>5 DEF DtorDataWorked, DtorDataUpdated, DtorFree, MainGoto
  <2> QED
    BY <1>2, <2>1, <2>2, <2>3, <2>4, <2>5 DEF MainStep
<1>3. CASE RenderStep
  <2>1. CASE \/ TestWorked
             \/ TestInitialized
             \/ TestNoEngine
             \/ TestAnimated
             \/ TestEngine
    BY <2>1 DEF TestWorked, TestInitialized, TestNoEngine, TestAnimated,
        TestEngine, RenderGoto
  <2>2. CASE \/ RenderLock("lock_init", "init")
             \/ RenderLock("lock_draw", "draw")
             \/ RenderLock("stop_lock", "stop_delete")
    BY <2>2 DEF RenderLock, RenderGoto
  <2>3. CASE \/ RenderUnlock("unlock_init", "test_animated")
             \/ RenderUnlock("unlock_draw", "while")
             \/ RenderUnlock("stop_unlock", "stop_log")
    BY <2>3 DEF RenderUnlock, RenderGoto
  <2>4. CASE InitDisplayImpl \/ InitWithoutWindow \/ InitThrows
    BY <2>4 DEF InitDisplayImpl, InitWithoutWindow, InitThrows, RenderGoto
  <2>5. CASE Draw \/ DrawWithoutEngine \/ RenderWakes
    BY <2>5 DEF Draw, DrawWithoutEngine, RenderWakes, RenderGoto
  <2>6. CASE StopInitialized \/ StopDelete \/ StopLog \/ RenderUseAfterFree
    BY <2>6 DEF StopInitialized, StopDelete, StopLog, RenderUseAfterFree,
        RenderGoto
  <2> QED
    BY <1>3, <2>1, <2>2, <2>3, <2>4, <2>5, <2>6 DEF RenderStep
<1>4. CASE DataStep
  <2>1. CASE \/ TestDataWorked
             \/ UpdateData
             \/ DataWakes
             \/ DataStopLog
             \/ DataUseAfterFree
    BY <2>1 DEF TestDataWorked, UpdateData, DataWakes, DataStopLog,
        DataUseAfterFree, DataGoto
  <2> QED
    BY <1>4, <2>1 DEF DataStep
<1>5. CASE Ended \/ UNCHANGED vars
  BY <1>5 DEF Ended, vars
<1> QED
  BY <1>1, <1>2, <1>3, <1>4, <1>5 DEF Next

(* The flag goes up with a window and comes down before the window goes. *)
LEMMA FlagStep == HandlerKnows /\ FlagNeedsWindow /\ [Next]_vars => (HandlerKnows /\ FlagNeedsWindow)'
<1> SUFFICES ASSUME HandlerKnows, FlagNeedsWindow, [Next]_vars PROVE (HandlerKnows /\ FlagNeedsWindow)'
  OBVIOUS
<1> USE GlesEngineAssumption DEF HandlerKnows, FlagNeedsWindow, data,
    controls, renderFlags, dataFlags
<1>1. CASE Command
  <2>1. CASE CmdInitWindow \/ CmdTermWindow \/ CmdGainedFocus
    BY <2>1 DEF CmdInitWindow, CmdTermWindow, CmdGainedFocus, MainGoto
  <2>2. CASE CmdLostFocus \/ CmdDestroy
    BY <2>2 DEF CmdLostFocus, CmdDestroy, MainGoto
  <2> QED
    BY <1>1, <2>1, <2>2 DEF Command
<1>2. CASE MainStep
  <2>1. CASE StartRenderThread \/ StartDataThread
    BY <2>1 DEF StartRenderThread, StartDataThread
  <2>2. CASE InitDisplay \/ Enable \/ DestroyDisplay
    BY <2>2 DEF InitDisplay, Enable, DestroyDisplay, MainGoto
  <2>3. CASE MainLock \/ MainDelete \/ MainUnlock \/ WindowGone
    BY <2>3 DEF MainLock, MainDelete, MainUnlock, WindowGone, MainGoto
  <2>4. CASE DtorAnimated \/ DtorInitialized \/ DtorRenderSlept
    BY <2>4 DEF DtorAnimated, DtorInitialized, DtorRenderSlept, MainGoto
  <2>5. CASE DtorDataWorked \/ DtorDataUpdated \/ DtorFree
    BY <2>5 DEF DtorDataWorked, DtorDataUpdated, DtorFree, MainGoto
  <2> QED
    BY <1>2, <2>1, <2>2, <2>3, <2>4, <2>5 DEF MainStep
<1>3. CASE RenderStep
  <2>1. CASE \/ TestWorked
             \/ TestInitialized
             \/ TestNoEngine
             \/ TestAnimated
             \/ TestEngine
    BY <2>1 DEF TestWorked, TestInitialized, TestNoEngine, TestAnimated,
        TestEngine, RenderGoto
  <2>2. CASE \/ RenderLock("lock_init", "init")
             \/ RenderLock("lock_draw", "draw")
             \/ RenderLock("stop_lock", "stop_delete")
    BY <2>2 DEF RenderLock, RenderGoto
  <2>3. CASE \/ RenderUnlock("unlock_init", "test_animated")
             \/ RenderUnlock("unlock_draw", "while")
             \/ RenderUnlock("stop_unlock", "stop_log")
    BY <2>3 DEF RenderUnlock, RenderGoto
  <2>4. CASE InitDisplayImpl \/ InitWithoutWindow \/ InitThrows
    BY <2>4 DEF InitDisplayImpl, InitWithoutWindow, InitThrows, RenderGoto
  <2>5. CASE Draw \/ DrawWithoutEngine \/ RenderWakes
    BY <2>5 DEF Draw, DrawWithoutEngine, RenderWakes, RenderGoto
  <2>6. CASE StopInitialized \/ StopDelete \/ StopLog \/ RenderUseAfterFree
    BY <2>6 DEF StopInitialized, StopDelete, StopLog, RenderUseAfterFree,
        RenderGoto
  <2> QED
    BY <1>3, <2>1, <2>2, <2>3, <2>4, <2>5, <2>6 DEF RenderStep
<1>4. CASE DataStep
  <2>1. CASE \/ TestDataWorked
             \/ UpdateData
             \/ DataWakes
             \/ DataStopLog
             \/ DataUseAfterFree
    BY <2>1 DEF TestDataWorked, UpdateData, DataWakes, DataStopLog,
        DataUseAfterFree, DataGoto
  <2> QED
    BY <1>4, <2>1 DEF DataStep
<1>5. CASE Ended \/ UNCHANGED vars
  BY <1>5 DEF Ended, vars
<1> QED
  BY <1>1, <1>2, <1>3, <1>4, <1>5 DEF Next

(* Past its loop the render thread creates no engine. *)
LEMMA ExitStep == EngineReleasedAtExit /\ [Next]_vars => EngineReleasedAtExit'
<1> SUFFICES ASSUME EngineReleasedAtExit, [Next]_vars PROVE EngineReleasedAtExit'
  OBVIOUS
<1> USE DEF EngineReleasedAtExit, data, controls, renderFlags, dataFlags
<1>1. CASE Command
  <2>1. CASE CmdInitWindow \/ CmdTermWindow \/ CmdGainedFocus
    BY <2>1 DEF CmdInitWindow, CmdTermWindow, CmdGainedFocus, MainGoto
  <2>2. CASE CmdLostFocus \/ CmdDestroy
    BY <2>2 DEF CmdLostFocus, CmdDestroy, MainGoto
  <2> QED
    BY <1>1, <2>1, <2>2 DEF Command
<1>2. CASE MainStep
  <2>1. CASE StartRenderThread \/ StartDataThread
    BY <2>1 DEF StartRenderThread, StartDataThread
  <2>2. CASE InitDisplay \/ Enable \/ DestroyDisplay
    BY <2>2 DEF InitDisplay, Enable, DestroyDisplay, MainGoto
  <2>3. CASE MainLock \/ MainDelete \/ MainUnlock \/ WindowGone
    BY <2>3 DEF MainLock, MainDelete, MainUnlock, WindowGone, MainGoto
  <2>4. CASE DtorAnimated \/ DtorInitialized \/ DtorRenderSlept
    BY <2>4 DEF DtorAnimated, DtorInitialized, DtorRenderSlept, MainGoto
  <2>5. CASE DtorDataWorked \/ DtorDataUpdated \/ DtorFree
    BY <2>5 DEF DtorDataWorked, DtorDataUpdated, DtorFree, MainGoto
  <2> QED
    BY <1>2, <2>1, <2>2, <2>3, <2>4, <2>5 DEF MainStep
<1>3. CASE RenderStep
  <2>1. CASE \/ TestWorked
             \/ TestInitialized
             \/ TestNoEngine
             \/ TestAnimated
             \/ TestEngine
    BY <2>1 DEF TestWorked, TestInitialized, TestNoEngine, TestAnimated,
        TestEngine, RenderGoto
  <2>2. CASE \/ RenderLock("lock_init", "init")
             \/ RenderLock("lock_draw", "draw")
             \/ RenderLock("stop_lock", "stop_delete")
    BY <2>2 DEF RenderLock, RenderGoto
  <2>3. CASE \/ RenderUnlock("unlock_init", "test_animated")
             \/ RenderUnlock("unlock_draw", "while")
             \/ RenderUnlock("stop_unlock", "stop_log")
    BY <2>3 DEF RenderUnlock, RenderGoto
  <2>4. CASE InitDisplayImpl \/ InitWithoutWindow \/ InitThrows
    BY <2>4 DEF InitDisplayImpl, InitWithoutWindow, InitThrows, RenderGoto
  <2>5. CASE Draw \/ DrawWithoutEngine \/ RenderWakes
    BY <2>5 DEF Draw, DrawWithoutEngine, RenderWakes, RenderGoto
  <2>6. CASE StopInitialized \/ StopDelete \/ StopLog \/ RenderUseAfterFree
    BY <2>6 DEF StopInitialized, StopDelete, StopLog, RenderUseAfterFree,
        RenderGoto
  <2> QED
    BY <1>3, <2>1, <2>2, <2>3, <2>4, <2>5, <2>6 DEF RenderStep
<1>4. CASE DataStep
  <2>1. CASE \/ TestDataWorked
             \/ UpdateData
             \/ DataWakes
             \/ DataStopLog
             \/ DataUseAfterFree
    BY <2>1 DEF TestDataWorked, UpdateData, DataWakes, DataStopLog,
        DataUseAfterFree, DataGoto
  <2> QED
    BY <1>4, <2>1 DEF DataStep
<1>5. CASE Ended \/ UNCHANGED vars
  BY <1>5 DEF Ended, vars
<1> QED
  BY <1>1, <1>2, <1>3, <1>4, <1>5 DEF Next

-----------------------------------------------------------------------------
(* The invariant holds before the constructor has run. *)
LEMMA InitInv == Init => Inv
  BY DEF Init, Inv, TypeOK, MainPcs, RenderPcs, DataPcs, Started,
    MutexHeld, MainInside, RenderInside, HandlerKnows, FlagNeedsWindow,
    EngineReleasedAtExit

(* Every step keeps the invariant, part by part. *)
LEMMA InvStep == Inv /\ [Next]_vars => Inv'
  BY TypeStep, StartedStep, MutexHeldStep, FlagStep, ExitStep DEF Inv

(* The invariant holds throughout. *)
THEOREM Invariance == Spec => []Inv
  BY InitInv, InvStep, PTL DEF Spec

(* Every variable keeps to the values the program gives it. *)
THEOREM TypeCorrect == Spec => []TypeOK
<1>1. Inv => TypeOK
  BY DEF Inv
<1> QED
  BY <1>1, Invariance, PTL

(* render_thread_initialized is never up without a window: see              *)
(* FlagNeedsWindow.                                                         *)
THEOREM FlagNeedsWindowHolds == Spec => []FlagNeedsWindow
<1>1. Inv => FlagNeedsWindow
  BY DEF Inv
<1> QED
  BY <1>1, Invariance, PTL

(* No EGL surface survives the render thread's last destroy_display().      *)
THEOREM EngineReleasedAtExitHolds == Spec => []EngineReleasedAtExit
<1>1. Inv => EngineReleasedAtExit
  BY DEF Inv
<1> QED
  BY <1>1, Invariance, PTL

-----------------------------------------------------------------------------
(* Each step of the threads is a step of the monitor, or leaves it alone. *)
LEMMA MonitorStep ==
  Inv /\ [Next]_vars => [Monitor!MonitorNext]_(Monitor!monitor)
<1> SUFFICES ASSUME Inv, [Next]_vars
             PROVE  [Monitor!MonitorNext]_(Monitor!monitor)
  OBVIOUS
<1> USE GlesEngineAssumption
    DEF Monitor!monitor, data, controls, renderFlags, dataFlags
<1>1. CASE Command
  BY <1>1 DEF Command, CmdInitWindow, CmdTermWindow, CmdGainedFocus,
    CmdLostFocus, CmdDestroy, MainGoto
<1>2. CASE MainStep
  <2>1. CASE StartRenderThread
    <3>1. renderPc # "draw" /\ renderPc' # "draw"
      BY <2>1 DEF Inv, Started, StartRenderThread
    <3> QED
      BY <2>1, <3>1 DEF StartRenderThread
  <2>2. CASE MainLock
    <3>1. Monitor!Enter("main")
      BY <2>2 DEF MainLock, MainGoto, Monitor!Enter
    <3> QED
      BY <3>1 DEF Monitor!MonitorNext, Monitor!Threads
  <2>3. CASE MainDelete
    <3>1. renderMutex = "main" /\ renderPc # "draw"
      BY <2>3 DEF MainDelete, MainGoto, Inv, MutexHeld, MainInside, RenderInside
    <3>2. Monitor!Delete("main")
      BY <2>3, <3>1 DEF MainDelete, MainGoto, Monitor!Delete
    <3> QED
      BY <3>2 DEF Monitor!MonitorNext, Monitor!Threads
  <2>4. CASE MainUnlock
    <3>1. renderMutex = "main" /\ renderPc # "draw"
      BY <2>4 DEF MainUnlock, MainGoto, Inv, MutexHeld, MainInside, RenderInside
    <3>2. Monitor!Leave("main")
      BY <2>4, <3>1 DEF MainUnlock, MainGoto, Monitor!Leave
    <3> QED
      BY <3>2 DEF Monitor!MonitorNext, Monitor!Threads
  <2>5. CASE \/ StartDataThread \/ InitDisplay \/ Enable \/ DestroyDisplay
             \/ WindowGone \/ DtorAnimated \/ DtorInitialized \/ DtorRenderSlept
             \/ DtorDataWorked \/ DtorDataUpdated \/ DtorFree
    BY <2>5 DEF StartDataThread, InitDisplay, Enable, DestroyDisplay,
      WindowGone, DtorAnimated, DtorInitialized, DtorRenderSlept,
      DtorDataWorked, DtorDataUpdated, DtorFree, MainGoto
  <2> QED
    BY <1>2, <2>1, <2>2, <2>3, <2>4, <2>5 DEF MainStep
<1>3. CASE RenderStep
  <2>1. CASE RenderLock("lock_draw", "draw")
    <3>1. CASE displayEngine = NoWindow
      <4>1. Monitor!Enter("render")
        BY <2>1, <3>1 DEF RenderLock, RenderGoto, Monitor!Enter
      <4> QED
        BY <4>1 DEF Monitor!MonitorNext, Monitor!Threads
    <3>2. CASE displayEngine # NoWindow
      <4>1. Monitor!EnterToDraw
        BY <2>1, <3>2 DEF RenderLock, RenderGoto, Monitor!EnterToDraw
      <4> QED
        BY <4>1 DEF Monitor!MonitorNext
    <3> QED
      BY <3>1, <3>2
  <2>2. CASE \/ RenderLock("lock_init", "init")
             \/ RenderLock("stop_lock", "stop_delete")
    <3>1. Monitor!Enter("render")
      BY <2>2 DEF RenderLock, RenderGoto, Monitor!Enter
    <3> QED
      BY <3>1 DEF Monitor!MonitorNext, Monitor!Threads
  <2>3. CASE \/ RenderUnlock("unlock_init", "test_animated")
             \/ RenderUnlock("unlock_draw", "while")
             \/ RenderUnlock("stop_unlock", "stop_log")
    <3>1. renderMutex = "render"
      BY <2>3 DEF RenderUnlock, RenderGoto, Inv, MutexHeld, RenderInside
    <3>2. Monitor!Leave("render")
      BY <2>3, <3>1 DEF RenderUnlock, RenderGoto, Monitor!Leave
    <3> QED
      BY <3>2 DEF Monitor!MonitorNext, Monitor!Threads
  <2>4. CASE InitDisplayImpl
    <3>1. renderMutex = "render" /\ window \in Windows
      BY <2>4 DEF InitDisplayImpl, RenderGoto, Inv, TypeOK, MutexHeld, RenderInside
    <3>2. CASE displayEngine = NoWindow
      <4>1. Monitor!Create
        BY <2>4, <3>1, <3>2 DEF InitDisplayImpl, RenderGoto, Monitor!Create
      <4> QED
        BY <4>1 DEF Monitor!MonitorNext
    <3>3. CASE displayEngine # NoWindow
      BY <2>4, <3>3 DEF InitDisplayImpl, RenderGoto
    <3> QED
      BY <3>2, <3>3
  <2>5. CASE Draw
    <3>1. renderMutex = "render"
      BY <2>5 DEF Draw, RenderGoto, Inv, MutexHeld, RenderInside
    <3>2. Monitor!EndDrawing
      BY <2>5, <3>1 DEF Draw, RenderGoto, Monitor!EndDrawing
    <3> QED
      BY <3>2 DEF Monitor!MonitorNext
  <2>6. CASE StopDelete
    <3>1. renderMutex = "render"
      BY <2>6 DEF StopDelete, RenderGoto, Inv, MutexHeld, RenderInside
    <3>2. Monitor!Delete("render")
      BY <2>6, <3>1 DEF StopDelete, RenderGoto, Monitor!Delete
    <3> QED
      BY <3>2 DEF Monitor!MonitorNext, Monitor!Threads
  <2>7. CASE TestWorked \/ TestInitialized \/ TestNoEngine \/ TestAnimated \/ TestEngine
    BY <2>7 DEF TestWorked, TestInitialized, TestNoEngine, TestAnimated,
      TestEngine, RenderGoto
  <2>8. CASE InitWithoutWindow \/ InitThrows \/ DrawWithoutEngine
    BY <2>8 DEF InitWithoutWindow, InitThrows, DrawWithoutEngine, RenderGoto
  <2>9. CASE RenderWakes \/ StopInitialized \/ StopLog \/ RenderUseAfterFree
    BY <2>9 DEF RenderWakes, StopInitialized, StopLog, RenderUseAfterFree, RenderGoto
  <2> QED
    BY <1>3, <2>1, <2>2, <2>3, <2>4, <2>5, <2>6, <2>7, <2>8, <2>9 DEF RenderStep
<1>4. CASE DataStep
  BY <1>4 DEF DataStep, TestDataWorked, UpdateData, DataWakes, DataStopLog,
    DataUseAfterFree, DataGoto
<1>5. CASE Ended \/ UNCHANGED vars
  BY <1>5 DEF Ended, vars
<1> QED
  BY <1>1, <1>2, <1>3, <1>4, <1>5 DEF Next

(* The three threads use display_engine as EngineMonitor allows, whatever    *)
(* the windows are and whenever Android's commands come.                     *)
THEOREM SpecImplementsMonitor == Spec => ImplementsMonitor
<1>1. Init => Monitor!MonitorInit
  BY DEF Init, Monitor!MonitorInit
<1>2. Inv /\ [Next]_vars => [Monitor!MonitorNext]_(Monitor!monitor)
  BY MonitorStep
<1> QED
  BY <1>1, <1>2, Invariance, PTL DEF Spec, ImplementsMonitor, Monitor!Spec

(* What the monitor means for display_engine.  The test of display_engine   *)
(* in front of the lock is not repeated behind it, and still no engine is   *)
(* overwritten by another: it goes only by being deleted, and not while the *)
(* render thread draws with it.                                             *)
EngineStays ==
  displayEngine # NoWindow =>
    /\ displayEngine' \in {displayEngine, NoWindow}
    /\ renderPc = "draw" => displayEngine' = displayEngine

(* No step of a thread leaks an engine or deletes one that is in use.       *)
THEOREM EngineStaysHolds == Spec => [][EngineStays]_vars
<1>1. [Monitor!MonitorNext]_(Monitor!monitor) => EngineStays
  BY DEF Monitor!MonitorNext, Monitor!monitor, Monitor!Enter, Monitor!EnterToDraw,
    Monitor!Leave, Monitor!Create, Monitor!Delete, Monitor!EndDrawing, EngineStays
<1>2. Inv /\ [Next]_vars => [EngineStays]_vars
  BY <1>1, MonitorStep
<1> QED
  BY <1>2, Invariance, PTL DEF Spec

-----------------------------------------------------------------------------
(***************************************************************************)
(* With time, for all lengths of the sleeps, gaps and delays that          *)
(* TimedAssumption allows.                                                 *)
(*                                                                         *)
(* The destructor is safe because, once the flag of a thread is down, the  *)
(* time the thread can still take (RenderLeft, DataLeft) runs out before   *)
(* the destructor's sleep does (RenderEnds, DataEnds).  A frame has an     *)
(* engine because, once the focus is lost, the time until the render       *)
(* thread has passed its two tests runs out before the next command may    *)
(* come (FrameInTime).                                                     *)
(***************************************************************************)

(* The lengths in the code are among those TimedAssumption allows, as long  *)
(* as no step of a thread takes more than 31 milliseconds.                  *)
LEMMA ProgramSleepsFit ==
  ASSUME RenderCycleWait = 50, RenderStop = 250,
         DataCycleWait = 50, DataStop = 250, MaxDelay \in 1 .. 31
  PROVE  /\ RenderStop + DataStop > 14 * MaxDelay + CycleRest
         /\ DataStop > 4 * MaxDelay + DataCycleWait
<1>1. CycleRest \in 50 .. 62
  BY DEF CycleRest
<1> QED
  BY <1>1

(* The longest the render thread can take, with render_thread_worked down,  *)
(* from the end of the current step to its last log line.                   *)
RenderRest ==
  CASE renderPc = "stop_log" -> 0
    [] renderPc = "stop_unlock" -> MaxDelay
    [] renderPc = "stop_delete" -> 2 * MaxDelay
    [] renderPc = "stop_lock" -> 3 * MaxDelay
    [] renderPc = "stop_initialized" -> 4 * MaxDelay
    [] renderPc = "while" -> 5 * MaxDelay
    [] renderPc \in {"sleep", "unlock_draw"} -> 6 * MaxDelay
    [] renderPc = "draw" -> 7 * MaxDelay
    [] renderPc = "lock_draw" -> 8 * MaxDelay
    [] renderPc = "test_engine" -> 7 * MaxDelay + CycleRest
    [] renderPc = "test_animated" -> 8 * MaxDelay + CycleRest
    [] renderPc = "unlock_init" -> 9 * MaxDelay + CycleRest
    [] renderPc = "init" -> 10 * MaxDelay + CycleRest
    [] renderPc = "lock_init" -> 11 * MaxDelay + CycleRest
    [] renderPc = "test_no_engine" -> 12 * MaxDelay + CycleRest
    [] OTHER -> 13 * MaxDelay + CycleRest
RenderLeft == renderDue + RenderRest

DataRest ==
  CASE dataPc = "stop_log" -> 0
    [] dataPc = "while" -> MaxDelay
    [] dataPc = "sleep" -> 2 * MaxDelay
    [] OTHER -> 3 * MaxDelay + DataCycleWait
DataLeft == dataDue + DataRest

DtorPcs ==
  {"dtor_animated", "dtor_initialized", "dtor_render_sleep", "dtor_data_worked",
   "dtor_data_updated", "dtor_data_sleep", "returned"}

RenderEnds == Running =>
  /\ mainPc \in DtorPcs => ~worked
  /\ mainPc = "dtor_render_sleep"
       => renderPc = "done" \/ RenderLeft + MaxDelay < mainDue + DataStop
  /\ mainPc \in {"dtor_data_worked", "dtor_data_updated"}
       => renderPc = "done" \/ RenderLeft < DataStop
  /\ mainPc = "dtor_data_sleep"
       => renderPc = "done" \/ RenderLeft + MaxDelay < mainDue
  /\ mainPc = "returned" => renderPc = "done"

DataEnds == Running =>
  /\ mainPc \in {"dtor_data_updated", "dtor_data_sleep", "returned"} => ~dataWorked
  /\ mainPc = "dtor_data_sleep"
       => dataPc = "done" \/ DataLeft + MaxDelay < mainDue
  /\ mainPc = "returned" => dataPc = "done"

FreedLast == freed => mainPc = "returned"

FrameInTime == Running =>
  /\ renderPc \in {"lock_draw", "draw"} => displayEngine # NoWindow
  /\ mainPc \in {"ctor_render", "ctor_data", "destroy_display", "lock", "delete",
                 "unlock", "window_gone"}
       => ~animated /\ renderPc \notin {"test_engine", "lock_draw"}
  /\ mainPc = "poll" /\ ~animated
       => /\ renderPc = "test_engine" => mainDue > renderDue + 2 * MaxDelay
          /\ renderPc = "lock_draw" => mainDue > renderDue + MaxDelay

-----------------------------------------------------------------------------
(* A step with time is a step without, or leaves its variables alone. *)
LEMMA UntimedStep == [TimedNext]_timedVars => [Next]_vars
  BY DEF TimedNext, TimedCommand, TimedMainStep, TimedRenderStep, TimedDataStep,
    Tick, Next, timedVars

(* What time adds only takes behaviours away: each is one of GlesEngine, so *)
(* all that is proved of GlesEngine holds.                                  *)
THEOREM TimedImplementsUntimed == TimedSpec => Spec
<1>1. TimedInit => Init
  BY DEF TimedInit
<1> QED
  BY <1>1, UntimedStep, PTL DEF TimedSpec, Spec

(* The untimed invariant holds with time as well. *)
LEMMA TimedInvariance == TimedSpec => []Inv
  BY TimedImplementsUntimed, Invariance, PTL

-----------------------------------------------------------------------------
(* Each part of the invariant is kept by every step. *)

(* A timer never exceeds what its thread is allowed where it is. *)
LEMMA TimedTypeStep ==
  Inv /\ TimedTypeOK /\ [TimedNext]_timedVars => TimedTypeOK'
<1> SUFFICES ASSUME Inv, TimedTypeOK, [TimedNext]_timedVars
             PROVE  TimedTypeOK'
  OBVIOUS
<1> USE TimedAssumption DEF TimedTypeOK, Inv, Started, Running, MainAllowance,
    RenderAllowance, DataAllowance, Awake, data, controls, renderFlags,
    dataFlags
<1>1. CASE TimedCommand
  <2>1. CASE CmdInitWindow \/ CmdTermWindow \/ CmdGainedFocus
    BY <1>1, <2>1 DEF TimedCommand, CmdInitWindow, CmdTermWindow,
        CmdGainedFocus, MainGoto
  <2>2. CASE CmdLostFocus \/ CmdDestroy
    BY <1>1, <2>2 DEF TimedCommand, CmdLostFocus, CmdDestroy, MainGoto
  <2> QED
    BY <1>1, <2>1, <2>2 DEF TimedCommand, Command
<1>2. CASE TimedMainStep
  <2>1. CASE StartRenderThread \/ StartDataThread
    BY <1>2, <2>1 DEF TimedMainStep, StartRenderThread, StartDataThread
  <2>2. CASE InitDisplay \/ Enable \/ DestroyDisplay
    BY <1>2, <2>2 DEF TimedMainStep, InitDisplay, Enable, DestroyDisplay,
        MainGoto
  <2>3. CASE MainLock \/ MainDelete \/ MainUnlock \/ WindowGone
    BY <1>2, <2>3 DEF TimedMainStep, MainLock, MainDelete, MainUnlock,
        WindowGone, MainGoto
  <2>4. CASE DtorAnimated \/ DtorInitialized \/ DtorRenderSlept
    BY <1>2, <2>4 DEF TimedMainStep, DtorAnimated, DtorInitialized,
        DtorRenderSlept, MainGoto
  <2>5. CASE DtorDataWorked \/ DtorDataUpdated \/ DtorFree
    BY <1>2, <2>5 DEF TimedMainStep, DtorDataWorked, DtorDataUpdated,
        DtorFree, MainGoto
  <2> QED
    BY <1>2, <2>1, <2>2, <2>3, <2>4, <2>5 DEF TimedMainStep, MainStep
<1>3. CASE TimedRenderStep
  <2>1. CASE \/ TestWorked
             \/ TestInitialized
             \/ TestNoEngine
             \/ TestAnimated
             \/ TestEngine
    BY <1>3, <2>1 DEF TimedRenderStep, TestWorked, TestInitialized,
        TestNoEngine, TestAnimated, TestEngine, RenderGoto
  <2>2. CASE \/ RenderLock("lock_init", "init")
             \/ RenderLock("lock_draw", "draw")
             \/ RenderLock("stop_lock", "stop_delete")
    BY <1>3, <2>2 DEF TimedRenderStep, RenderLock, RenderGoto
  <2>3. CASE \/ RenderUnlock("unlock_init", "test_animated")
             \/ RenderUnlock("unlock_draw", "while")
             \/ RenderUnlock("stop_unlock", "stop_log")
    BY <1>3, <2>3 DEF TimedRenderStep, RenderUnlock, RenderGoto
  <2>4. CASE InitDisplayImpl \/ InitWithoutWindow \/ InitThrows
    BY <1>3, <2>4 DEF TimedRenderStep, InitDisplayImpl, InitWithoutWindow,
        InitThrows, RenderGoto
  <2>5. CASE Draw \/ DrawWithoutEngine \/ RenderWakes
    BY <1>3, <2>5 DEF TimedRenderStep, Draw, DrawWithoutEngine, RenderWakes,
        RenderGoto
  <2>6. CASE StopInitialized \/ StopDelete \/ StopLog \/ RenderUseAfterFree
    BY <1>3, <2>6 DEF TimedRenderStep, StopInitialized, StopDelete, StopLog,
        RenderUseAfterFree, RenderGoto
  <2> QED
    BY <1>3, <2>1, <2>2, <2>3, <2>4, <2>5, <2>6 DEF TimedRenderStep, RenderStep
<1>4. CASE TimedDataStep
  <2>1. CASE \/ TestDataWorked
             \/ UpdateData
             \/ DataWakes
             \/ DataStopLog
             \/ DataUseAfterFree
    BY <1>4, <2>1 DEF TimedDataStep, TestDataWorked, UpdateData, DataWakes,
        DataStopLog, DataUseAfterFree, DataGoto
  <2> QED
    BY <1>4, <2>1 DEF TimedDataStep, DataStep
<1>5. CASE Tick
  BY <1>5 DEF Tick, MainBlocked, RenderBlocked, DataBlocked, vars
<1>6. CASE (Ended /\ UNCHANGED timers) \/ UNCHANGED timedVars
  BY <1>6 DEF Ended, vars, timers, timedVars
<1> QED
  BY <1>1, <1>2, <1>3, <1>4, <1>5, <1>6 DEF TimedNext

(* Memory is freed by the last action of the application thread only. *)
LEMMA FreedLastStep ==
  FreedLast /\ [TimedNext]_timedVars => FreedLast'
<1> SUFFICES ASSUME FreedLast, [TimedNext]_timedVars
             PROVE  FreedLast'
  OBVIOUS
<1> USE DEF FreedLast, data, controls, renderFlags, dataFlags
<1>1. CASE TimedCommand
  <2>1. CASE CmdInitWindow \/ CmdTermWindow \/ CmdGainedFocus
    BY <1>1, <2>1 DEF TimedCommand, CmdInitWindow, CmdTermWindow,
        CmdGainedFocus, MainGoto
  <2>2. CASE CmdLostFocus \/ CmdDestroy
    BY <1>1, <2>2 DEF TimedCommand, CmdLostFocus, CmdDestroy, MainGoto
  <2> QED
    BY <1>1, <2>1, <2>2 DEF TimedCommand, Command
<1>2. CASE TimedMainStep
  <2>1. CASE StartRenderThread \/ StartDataThread
    BY <1>2, <2>1 DEF TimedMainStep, StartRenderThread, StartDataThread
  <2>2. CASE InitDisplay \/ Enable \/ DestroyDisplay
    BY <1>2, <2>2 DEF TimedMainStep, InitDisplay, Enable, DestroyDisplay,
        MainGoto
  <2>3. CASE MainLock \/ MainDelete \/ MainUnlock \/ WindowGone
    BY <1>2, <2>3 DEF TimedMainStep, MainLock, MainDelete, MainUnlock,
        WindowGone, MainGoto
  <2>4. CASE DtorAnimated \/ DtorInitialized \/ DtorRenderSlept
    BY <1>2, <2>4 DEF TimedMainStep, DtorAnimated, DtorInitialized,
        DtorRenderSlept, MainGoto
  <2>5. CASE DtorDataWorked \/ DtorDataUpdated \/ DtorFree
    BY <1>2, <2>5 DEF TimedMainStep, DtorDataWorked, DtorDataUpdated,
        DtorFree, MainGoto
  <2> QED
    BY <1>2, <2>1, <2>2, <2>3, <2>4, <2>5 DEF TimedMainStep, MainStep
<1>3. CASE TimedRenderStep
  <2>1. CASE \/ TestWorked
             \/ TestInitialized
             \/ TestNoEngine
             \/ TestAnimated
             \/ TestEngine
    BY <1>3, <2>1 DEF TimedRenderStep, TestWorked, TestInitialized,
        TestNoEngine, TestAnimated, TestEngine, RenderGoto
  <2>2. CASE \/ RenderLock("lock_init", "init")
             \/ RenderLock("lock_draw", "draw")
             \/ RenderLock("stop_lock", "stop_delete")
    BY <1>3, <2>2 DEF TimedRenderStep, RenderLock, RenderGoto
  <2>3. CASE \/ RenderUnlock("unlock_init", "test_animated")
             \/ RenderUnlock("unlock_draw", "while")
             \/ RenderUnlock("stop_unlock", "stop_log")
    BY <1>3, <2>3 DEF TimedRenderStep, RenderUnlock, RenderGoto
  <2>4. CASE InitDisplayImpl \/ InitWithoutWindow \/ InitThrows
    BY <1>3, <2>4 DEF TimedRenderStep, InitDisplayImpl, InitWithoutWindow,
        InitThrows, RenderGoto
  <2>5. CASE Draw \/ DrawWithoutEngine \/ RenderWakes
    BY <1>3, <2>5 DEF TimedRenderStep, Draw, DrawWithoutEngine, RenderWakes,
        RenderGoto
  <2>6. CASE StopInitialized \/ StopDelete \/ StopLog \/ RenderUseAfterFree
    BY <1>3, <2>6 DEF TimedRenderStep, StopInitialized, StopDelete, StopLog,
        RenderUseAfterFree, RenderGoto
  <2> QED
    BY <1>3, <2>1, <2>2, <2>3, <2>4, <2>5, <2>6 DEF TimedRenderStep, RenderStep
<1>4. CASE TimedDataStep
  <2>1. CASE \/ TestDataWorked
             \/ UpdateData
             \/ DataWakes
             \/ DataStopLog
             \/ DataUseAfterFree
    BY <1>4, <2>1 DEF TimedDataStep, TestDataWorked, UpdateData, DataWakes,
        DataStopLog, DataUseAfterFree, DataGoto
  <2> QED
    BY <1>4, <2>1 DEF TimedDataStep, DataStep
<1>5. CASE Tick
  BY <1>5 DEF Tick, MainBlocked, RenderBlocked, DataBlocked, vars
<1>6. CASE (Ended /\ UNCHANGED timers) \/ UNCHANGED timedVars
  BY <1>6 DEF Ended, vars, timers, timedVars
<1> QED
  BY <1>1, <1>2, <1>3, <1>4, <1>5, <1>6 DEF TimedNext

(* Each step of the render thread, and each tick, keeps it ahead of the     *)
(* sleep of the destructor.                                                 *)
LEMMA RenderEndsStep ==
  Inv /\ TimedTypeOK /\ RenderEnds /\ [TimedNext]_timedVars => RenderEnds'
<1> SUFFICES ASSUME Inv, TimedTypeOK, RenderEnds, [TimedNext]_timedVars
             PROVE  RenderEnds'
  OBVIOUS
<1> USE TimedAssumption DEF RenderEnds, DtorPcs, RenderLeft, RenderRest,
    CycleRest, Inv, TypeOK, RenderPcs, Started, MutexHeld, MainInside,
    TimedTypeOK, Running, MainAllowance, RenderAllowance, DataAllowance,
    Awake, data, controls, renderFlags, dataFlags
<1>1. CASE TimedCommand
  <2>1. CASE CmdInitWindow \/ CmdTermWindow \/ CmdGainedFocus
    BY <1>1, <2>1 DEF TimedCommand, CmdInitWindow, CmdTermWindow,
        CmdGainedFocus, MainGoto
  <2>2. CASE CmdLostFocus \/ CmdDestroy
    BY <1>1, <2>2 DEF TimedCommand, CmdLostFocus, CmdDestroy, MainGoto
  <2> QED
    BY <1>1, <2>1, <2>2 DEF TimedCommand, Command
<1>2. CASE TimedMainStep
  <2>1. CASE StartRenderThread \/ StartDataThread
    BY <1>2, <2>1 DEF TimedMainStep, StartRenderThread, StartDataThread
  <2>2. CASE InitDisplay \/ Enable \/ DestroyDisplay
    BY <1>2, <2>2 DEF TimedMainStep, InitDisplay, Enable, DestroyDisplay,
        MainGoto
  <2>3. CASE MainLock \/ MainDelete \/ MainUnlock \/ WindowGone
    BY <1>2, <2>3 DEF TimedMainStep, MainLock, MainDelete, MainUnlock,
        WindowGone, MainGoto
  <2>4. CASE DtorAnimated \/ DtorInitialized \/ DtorRenderSlept
    BY <1>2, <2>4 DEF TimedMainStep, DtorAnimated, DtorInitialized,
        DtorRenderSlept, MainGoto
  <2>5. CASE DtorDataWorked \/ DtorDataUpdated \/ DtorFree
    BY <1>2, <2>5 DEF TimedMainStep, DtorDataWorked, DtorDataUpdated,
        DtorFree, MainGoto
  <2> QED
    BY <1>2, <2>1, <2>2, <2>3, <2>4, <2>5 DEF TimedMainStep, MainStep
<1>3. CASE TimedRenderStep
  <2>1. CASE \/ TestWorked
             \/ TestInitialized
             \/ TestNoEngine
             \/ TestAnimated
             \/ TestEngine
    BY <1>3, <2>1 DEF TimedRenderStep, TestWorked, TestInitialized,
        TestNoEngine, TestAnimated, TestEngine, RenderGoto
  <2>2. CASE \/ RenderLock("lock_init", "init")
             \/ RenderLock("lock_draw", "draw")
             \/ RenderLock("stop_lock", "stop_delete")
    BY <1>3, <2>2 DEF TimedRenderStep, RenderLock, RenderGoto
  <2>3. CASE \/ RenderUnlock("unlock_init", "test_animated")
             \/ RenderUnlock("unlock_draw", "while")
             \/ RenderUnlock("stop_unlock", "stop_log")
    BY <1>3, <2>3 DEF TimedRenderStep, RenderUnlock, RenderGoto
  <2>4. CASE InitDisplayImpl \/ InitWithoutWindow \/ InitThrows
    BY <1>3, <2>4 DEF TimedRenderStep, InitDisplayImpl, InitWithoutWindow,
        InitThrows, RenderGoto
  <2>5. CASE Draw \/ DrawWithoutEngine \/ RenderWakes
    BY <1>3, <2>5 DEF TimedRenderStep, Draw, DrawWithoutEngine, RenderWakes,
        RenderGoto
  <2>6. CASE StopInitialized \/ StopDelete \/ StopLog \/ RenderUseAfterFree
    BY <1>3, <2>6 DEF TimedRenderStep, StopInitialized, StopDelete, StopLog,
        RenderUseAfterFree, RenderGoto
  <2> QED
    BY <1>3, <2>1, <2>2, <2>3, <2>4, <2>5, <2>6 DEF TimedRenderStep, RenderStep
<1>4. CASE TimedDataStep
  <2>1. CASE \/ TestDataWorked
             \/ UpdateData
             \/ DataWakes
             \/ DataStopLog
             \/ DataUseAfterFree
    BY <1>4, <2>1 DEF TimedDataStep, TestDataWorked, UpdateData, DataWakes,
        DataStopLog, DataUseAfterFree, DataGoto
  <2> QED
    BY <1>4, <2>1 DEF TimedDataStep, DataStep
<1>5. CASE Tick
  BY <1>5 DEF Tick, MainBlocked, RenderBlocked, DataBlocked, vars
<1>6. CASE (Ended /\ UNCHANGED timers) \/ UNCHANGED timedVars
  BY <1>6 DEF Ended, vars, timers, timedVars
<1> QED
  BY <1>1, <1>2, <1>3, <1>4, <1>5, <1>6 DEF TimedNext

(* The same of the data thread. *)
LEMMA DataEndsStep ==
  Inv /\ TimedTypeOK /\ DataEnds /\ [TimedNext]_timedVars => DataEnds'
<1> SUFFICES ASSUME Inv, TimedTypeOK, DataEnds, [TimedNext]_timedVars
             PROVE  DataEnds'
  OBVIOUS
<1> USE TimedAssumption DEF DataEnds, DataLeft, DataRest, Inv, TypeOK,
    DataPcs, Started, TimedTypeOK, Running, MainAllowance, RenderAllowance,
    DataAllowance, Awake, data, controls, renderFlags, dataFlags
<1>1. CASE TimedCommand
  <2>1. CASE CmdInitWindow \/ CmdTermWindow \/ CmdGainedFocus
    BY <1>1, <2>1 DEF TimedCommand, CmdInitWindow, CmdTermWindow,
        CmdGainedFocus, MainGoto
  <2>2. CASE CmdLostFocus \/ CmdDestroy
    BY <1>1, <2>2 DEF TimedCommand, CmdLostFocus, CmdDestroy, MainGoto
  <2> QED
    BY <1>1, <2>1, <2>2 DEF TimedCommand, Command
<1>2. CASE TimedMainStep
  <2>1. CASE StartRenderThread \/ StartDataThread
    BY <1>2, <2>1 DEF TimedMainStep, StartRenderThread, StartDataThread
  <2>2. CASE InitDisplay \/ Enable \/ DestroyDisplay
    BY <1>2, <2>2 DEF TimedMainStep, InitDisplay, Enable, DestroyDisplay,
        MainGoto
  <2>3. CASE MainLock \/ MainDelete \/ MainUnlock \/ WindowGone
    BY <1>2, <2>3 DEF TimedMainStep, MainLock, MainDelete, MainUnlock,
        WindowGone, MainGoto
  <2>4. CASE DtorAnimated \/ DtorInitialized \/ DtorRenderSlept
    BY <1>2, <2>4 DEF TimedMainStep, DtorAnimated, DtorInitialized,
        DtorRenderSlept, MainGoto
  <2>5. CASE DtorDataWorked \/ DtorDataUpdated \/ DtorFree
    BY <1>2, <2>5 DEF TimedMainStep, DtorDataWorked, DtorDataUpdated,
        DtorFree, MainGoto
  <2> QED
    BY <1>2, <2>1, <2>2, <2>3, <2>4, <2>5 DEF TimedMainStep, MainStep
<1>3. CASE TimedRenderStep
  <2>1. CASE \/ TestWorked
             \/ TestInitialized
             \/ TestNoEngine
             \/ TestAnimated
             \/ TestEngine
    BY <1>3, <2>1 DEF TimedRenderStep, TestWorked, TestInitialized,
        TestNoEngine, TestAnimated, TestEngine, RenderGoto
  <2>2. CASE \/ RenderLock("lock_init", "init")
             \/ RenderLock("lock_draw", "draw")
             \/ RenderLock("stop_lock", "stop_delete")
    BY <1>3, <2>2 DEF TimedRenderStep, RenderLock, RenderGoto
  <2>3. CASE \/ RenderUnlock("unlock_init", "test_animated")
             \/ RenderUnlock("unlock_draw", "while")
             \/ RenderUnlock("stop_unlock", "stop_log")
    BY <1>3, <2>3 DEF TimedRenderStep, RenderUnlock, RenderGoto
  <2>4. CASE InitDisplayImpl \/ InitWithoutWindow \/ InitThrows
    BY <1>3, <2>4 DEF TimedRenderStep, InitDisplayImpl, InitWithoutWindow,
        InitThrows, RenderGoto
  <2>5. CASE Draw \/ DrawWithoutEngine \/ RenderWakes
    BY <1>3, <2>5 DEF TimedRenderStep, Draw, DrawWithoutEngine, RenderWakes,
        RenderGoto
  <2>6. CASE StopInitialized \/ StopDelete \/ StopLog \/ RenderUseAfterFree
    BY <1>3, <2>6 DEF TimedRenderStep, StopInitialized, StopDelete, StopLog,
        RenderUseAfterFree, RenderGoto
  <2> QED
    BY <1>3, <2>1, <2>2, <2>3, <2>4, <2>5, <2>6 DEF TimedRenderStep, RenderStep
<1>4. CASE TimedDataStep
  <2>1. CASE \/ TestDataWorked
             \/ UpdateData
             \/ DataWakes
             \/ DataStopLog
             \/ DataUseAfterFree
    BY <1>4, <2>1 DEF TimedDataStep, TestDataWorked, UpdateData, DataWakes,
        DataStopLog, DataUseAfterFree, DataGoto
  <2> QED
    BY <1>4, <2>1 DEF TimedDataStep, DataStep
<1>5. CASE Tick
  BY <1>5 DEF Tick, MainBlocked, RenderBlocked, DataBlocked, vars
<1>6. CASE (Ended /\ UNCHANGED timers) \/ UNCHANGED timedVars
  BY <1>6 DEF Ended, vars, timers, timedVars
<1> QED
  BY <1>1, <1>2, <1>3, <1>4, <1>5, <1>6 DEF TimedNext

(* With the focus lost, the way past the two tests ends before a command. *)
LEMMA FrameStep ==
  Orderly /\ Inv /\ TimedTypeOK /\ FrameInTime /\ [TimedNext]_timedVars => FrameInTime'
<1> SUFFICES ASSUME Orderly, Inv, TimedTypeOK, FrameInTime, [TimedNext]_timedVars
             PROVE  FrameInTime'
  OBVIOUS
<1> USE TimedAssumption DEF FrameInTime, Orderly, Inv, Started, MutexHeld,
    MainInside, RenderInside, TimedTypeOK, Running, MainAllowance,
    RenderAllowance, DataAllowance, Awake, data, controls, renderFlags,
    dataFlags
<1>1. CASE TimedCommand
  <2>1. CASE CmdInitWindow \/ CmdTermWindow \/ CmdGainedFocus
    BY <1>1, <2>1 DEF TimedCommand, CmdInitWindow, CmdTermWindow,
        CmdGainedFocus, MainGoto
  <2>2. CASE CmdLostFocus \/ CmdDestroy
    BY <1>1, <2>2 DEF TimedCommand, CmdLostFocus, CmdDestroy, MainGoto
  <2> QED
    BY <1>1, <2>1, <2>2 DEF TimedCommand, Command
<1>2. CASE TimedMainStep
  <2>1. CASE StartRenderThread \/ StartDataThread
    BY <1>2, <2>1 DEF TimedMainStep, StartRenderThread, StartDataThread
  <2>2. CASE InitDisplay \/ Enable \/ DestroyDisplay
    BY <1>2, <2>2 DEF TimedMainStep, InitDisplay, Enable, DestroyDisplay,
        MainGoto
  <2>3. CASE MainLock \/ MainDelete \/ MainUnlock \/ WindowGone
    BY <1>2, <2>3 DEF TimedMainStep, MainLock, MainDelete, MainUnlock,
        WindowGone, MainGoto
  <2>4. CASE DtorAnimated \/ DtorInitialized \/ DtorRenderSlept
    BY <1>2, <2>4 DEF TimedMainStep, DtorAnimated, DtorInitialized,
        DtorRenderSlept, MainGoto
  <2>5. CASE DtorDataWorked \/ DtorDataUpdated \/ DtorFree
    BY <1>2, <2>5 DEF TimedMainStep, DtorDataWorked, DtorDataUpdated,
        DtorFree, MainGoto
  <2> QED
    BY <1>2, <2>1, <2>2, <2>3, <2>4, <2>5 DEF TimedMainStep, MainStep
<1>3. CASE TimedRenderStep
  <2>1. CASE \/ TestWorked
             \/ TestInitialized
             \/ TestNoEngine
             \/ TestAnimated
             \/ TestEngine
    BY <1>3, <2>1 DEF TimedRenderStep, TestWorked, TestInitialized,
        TestNoEngine, TestAnimated, TestEngine, RenderGoto
  <2>2. CASE \/ RenderLock("lock_init", "init")
             \/ RenderLock("lock_draw", "draw")
             \/ RenderLock("stop_lock", "stop_delete")
    BY <1>3, <2>2 DEF TimedRenderStep, RenderLock, RenderGoto
  <2>3. CASE \/ RenderUnlock("unlock_init", "test_animated")
             \/ RenderUnlock("unlock_draw", "while")
             \/ RenderUnlock("stop_unlock", "stop_log")
    BY <1>3, <2>3 DEF TimedRenderStep, RenderUnlock, RenderGoto
  <2>4. CASE InitDisplayImpl \/ InitWithoutWindow \/ InitThrows
    BY <1>3, <2>4 DEF TimedRenderStep, InitDisplayImpl, InitWithoutWindow,
        InitThrows, RenderGoto
  <2>5. CASE Draw \/ DrawWithoutEngine \/ RenderWakes
    BY <1>3, <2>5 DEF TimedRenderStep, Draw, DrawWithoutEngine, RenderWakes,
        RenderGoto
  <2>6. CASE StopInitialized \/ StopDelete \/ StopLog \/ RenderUseAfterFree
    BY <1>3, <2>6 DEF TimedRenderStep, StopInitialized, StopDelete, StopLog,
        RenderUseAfterFree, RenderGoto
  <2> QED
    BY <1>3, <2>1, <2>2, <2>3, <2>4, <2>5, <2>6 DEF TimedRenderStep, RenderStep
<1>4. CASE TimedDataStep
  <2>1. CASE \/ TestDataWorked
             \/ UpdateData
             \/ DataWakes
             \/ DataStopLog
             \/ DataUseAfterFree
    BY <1>4, <2>1 DEF TimedDataStep, TestDataWorked, UpdateData, DataWakes,
        DataStopLog, DataUseAfterFree, DataGoto
  <2> QED
    BY <1>4, <2>1 DEF TimedDataStep, DataStep
<1>5. CASE Tick
  BY <1>5 DEF Tick, MainBlocked, RenderBlocked, DataBlocked, vars
<1>6. CASE (Ended /\ UNCHANGED timers) \/ UNCHANGED timedVars
  BY <1>6 DEF Ended, vars, timers, timedVars
<1> QED
  BY <1>1, <1>2, <1>3, <1>4, <1>5, <1>6 DEF TimedNext

-----------------------------------------------------------------------------
TimedInv ==
  /\ TimedTypeOK
  /\ FreedLast
  /\ RenderEnds
  /\ DataEnds
  /\ NoUseAfterFree

(* The two steps that would use freed memory need a thread that is not done *)
(* when everything has been freed.                                          *)
LEMMA NoUseAfterFreeStep ==
  TypeOK /\ TimedInv /\ [TimedNext]_timedVars => NoUseAfterFree'
<1> SUFFICES ASSUME TypeOK, TimedInv, [TimedNext]_timedVars
             PROVE  NoUseAfterFree'
  OBVIOUS
<1> USE DEF NoUseAfterFree, TimedInv, data
<1>0. freed /\ Running => renderPc = "done" /\ dataPc = "done"
  BY DEF FreedLast, RenderEnds, DataEnds
<1>1. CASE TimedCommand
  BY <1>1 DEF TimedCommand, Command, CmdInitWindow, CmdTermWindow,
    CmdGainedFocus, CmdLostFocus, CmdDestroy
<1>2. CASE TimedMainStep
  BY <1>2 DEF TimedMainStep, MainStep, StartRenderThread, StartDataThread,
    InitDisplay, Enable, DestroyDisplay, MainLock, MainDelete, MainUnlock,
    WindowGone, DtorAnimated, DtorInitialized, DtorRenderSlept,
    DtorDataWorked, DtorDataUpdated, DtorFree
<1>3. CASE TimedRenderStep
  <2>1. ~RenderUseAfterFree
    BY <1>0, <1>3 DEF RenderUseAfterFree, AtRest, TimedRenderStep, RenderStep
  <2> QED
    BY <1>3, <2>1 DEF TimedRenderStep, RenderStep, TestWorked, TestInitialized,
      TestNoEngine, RenderLock, RenderUnlock, InitDisplayImpl,
      InitWithoutWindow, InitThrows, TestAnimated, TestEngine, Draw,
      DrawWithoutEngine, RenderWakes, StopInitialized, StopDelete, StopLog
<1>4. CASE TimedDataStep
  <2>1. ~DataUseAfterFree
    BY <1>0, <1>4 DEF DataUseAfterFree, AtRest, TimedDataStep, DataStep
  <2> QED
    BY <1>4, <2>1 DEF TimedDataStep, DataStep, TestDataWorked, UpdateData,
      DataWakes, DataStopLog
<1>5. CASE Tick
  BY <1>5 DEF Tick, vars
<1>6. CASE (Ended /\ UNCHANGED timers) \/ UNCHANGED timedVars
  BY <1>6 DEF Ended, vars, timedVars
<1> QED
  BY <1>1, <1>2, <1>3, <1>4, <1>5, <1>6 DEF TimedNext

(* The timed invariant holds at the start. *)
LEMMA TimedInvInit == TimedInit => TimedInv
  BY TimedAssumption DEF TimedInit, Init, TimedInv, TimedTypeOK, RenderAllowance,
    DataAllowance, FreedLast, RenderEnds, DataEnds, DtorPcs, NoUseAfterFree

(* Every step keeps the timed invariant, part by part. *)
LEMMA TimedInvStep == Inv /\ TimedInv /\ [TimedNext]_timedVars => TimedInv'
<1>1. Inv => TypeOK
  BY DEF Inv
<1> QED
  BY <1>1, TimedTypeStep, FreedLastStep, RenderEndsStep, DataEndsStep,
    NoUseAfterFreeStep DEF TimedInv

(* Each thread is through with what the destructor frees, in time. *)
THEOREM TimedInvHolds == TimedSpec => []TimedInv
  BY TimedInvInit, TimedInvStep, TimedInvariance, PTL DEF TimedSpec

(* No timer of the two looping threads runs longer than their control       *)
(* points allow.                                                            *)
THEOREM TimedTypeCorrect == TimedSpec => []TimedTypeOK
<1>1. TimedInv => TimedTypeOK
  BY DEF TimedInv
<1> QED
  BY <1>1, TimedInvHolds, PTL

(* The destructor's sleeps replace the joins it lacks: if they are longer   *)
(* than the longest way a thread can still have to go, nothing that has     *)
(* been deleted is used.                                                    *)
THEOREM NoUseAfterFreeHolds == TimedSpec => []NoUseAfterFree
<1>1. TimedInv => NoUseAfterFree
  BY DEF TimedInv
<1> QED
  BY <1>1, TimedInvHolds, PTL

-----------------------------------------------------------------------------
OrderlyInv == FrameInTime /\ FrameHasEngine

(* In an orderly environment each step keeps frames and engines together. *)
LEMMA OrderlyInvStep ==
  ASSUME Orderly
  PROVE  Inv /\ TimedInv /\ OrderlyInv /\ [TimedNext]_timedVars => OrderlyInv'
<1> SUFFICES ASSUME Inv, TimedInv, OrderlyInv, [TimedNext]_timedVars
             PROVE  OrderlyInv'
  OBVIOUS
<1>1. FrameInTime'
  BY Orderly, FrameStep DEF TimedInv, OrderlyInv
<1>2. FrameHasEngine'
  <2> USE DEF FrameHasEngine, OrderlyInv, data
  <2>1. CASE TimedCommand
    BY <2>1 DEF TimedCommand, Command, CmdInitWindow, CmdTermWindow,
      CmdGainedFocus, CmdLostFocus, CmdDestroy
  <2>2. CASE TimedMainStep
    BY <2>2 DEF TimedMainStep, MainStep, StartRenderThread, StartDataThread,
      InitDisplay, Enable, DestroyDisplay, MainLock, MainDelete, MainUnlock,
      WindowGone, DtorAnimated, DtorInitialized, DtorRenderSlept,
      DtorDataWorked, DtorDataUpdated, DtorFree
  <2>3. CASE TimedRenderStep
    <3>1. ~DrawWithoutEngine
      BY <2>3 DEF DrawWithoutEngine, RenderGoto, FrameInTime, TimedRenderStep,
        RenderStep
    <3> QED
      BY <2>3, <3>1 DEF TimedRenderStep, RenderStep, TestWorked, TestInitialized,
        TestNoEngine, RenderLock, RenderUnlock, InitDisplayImpl,
        InitWithoutWindow, InitThrows, TestAnimated, TestEngine, Draw,
        RenderWakes, StopInitialized, StopDelete, StopLog, RenderUseAfterFree
  <2>4. CASE TimedDataStep
    BY <2>4 DEF TimedDataStep, DataStep, TestDataWorked, UpdateData, DataWakes,
      DataStopLog, DataUseAfterFree
  <2>5. CASE Tick
    BY <2>5 DEF Tick, vars
  <2>6. CASE (Ended /\ UNCHANGED timers) \/ UNCHANGED timedVars
    BY <2>6 DEF Ended, vars, timedVars
  <2> QED
    BY <2>1, <2>2, <2>3, <2>4, <2>5, <2>6 DEF TimedNext
<1> QED
  BY <1>1, <1>2 DEF OrderlyInv

(* Where the focus goes before the window, and a command leaves the render  *)
(* thread time for two steps, no frame is drawn without an engine.          *)
THEOREM OrderlyFrameHasEngineHolds == TimedSpec => []OrderlyFrameHasEngine
<1>1. CASE Orderly
  <2>1. TimedInit => OrderlyInv
    BY DEF TimedInit, Init, OrderlyInv, FrameInTime, FrameHasEngine
  <2>2. Inv /\ TimedInv /\ OrderlyInv /\ [TimedNext]_timedVars => OrderlyInv'
    BY <1>1, OrderlyInvStep
  <2>3. OrderlyInv => OrderlyFrameHasEngine
    BY DEF OrderlyInv, OrderlyFrameHasEngine
  <2> QED
    BY <2>1, <2>2, <2>3, TimedInvariance, TimedInvHolds, PTL DEF TimedSpec
<1>2. CASE ~Orderly
  <2>1. OrderlyFrameHasEngine
    BY <1>2 DEF OrderlyFrameHasEngine
  <2> QED
    BY <2>1, PTL
<1> QED
  BY <1>1, <1>2
=============================================================================
