---------------------------- MODULE EngineMonitor ---------------------------
(***************************************************************************)
(* What render_mutex promises about the display engine of gles-engine: a   *)
(* monitor.  There is at most one engine; it is created by the render      *)
(* thread, deleted by either thread and drawn with by the render thread,   *)
(* and all three happen only to a thread that holds the monitor.  An       *)
(* engine being drawn with is not deleted.                                 *)
(***************************************************************************)
CONSTANTS Surfaces, None

VARIABLES
  engine,   \* the surface of the only engine, or None
  holder,   \* who is inside the monitor
  drawing   \* a frame is being drawn with the engine

monitor == <<engine, holder, drawing>>

Threads == {"main", "render"}

MonitorInit == engine = None /\ holder = "free" /\ drawing = FALSE

Enter(t) ==
  /\ holder = "free" /\ holder' = t
  /\ UNCHANGED <<engine, drawing>>

EnterToDraw ==
  /\ holder = "free" /\ holder' = "render"
  /\ engine # None /\ drawing' = TRUE
  /\ UNCHANGED engine

Leave(t) ==
  /\ holder = t /\ holder' = "free"
  /\ ~drawing /\ UNCHANGED <<engine, drawing>>

Create ==
  /\ holder = "render" /\ engine = None
  /\ engine' \in Surfaces
  /\ UNCHANGED <<holder, drawing>>

Delete(t) ==
  /\ holder = t /\ ~drawing
  /\ engine' = None
  /\ UNCHANGED <<holder, drawing>>

EndDrawing ==
  /\ holder = "render" /\ drawing /\ drawing' = FALSE
  /\ UNCHANGED <<engine, holder>>

MonitorNext ==
  \/ \E t \in Threads : Enter(t) \/ Leave(t) \/ Delete(t)
  \/ EnterToDraw
  \/ Create
  \/ EndDrawing

Spec == MonitorInit /\ [][MonitorNext]_monitor
=============================================================================
