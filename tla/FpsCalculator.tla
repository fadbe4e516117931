--------------------------- MODULE FpsCalculator ----------------------------
(***************************************************************************)
(* The frame counter of gles-engine (fps_calculator.cpp).  The render      *)
(* thread calls calc_fps once a frame; a window of frames closes with the  *)
(* first frame that finds more than CycleTime gone since the last one      *)
(* closed, and until then the previous figure is returned.                 *)
(*                                                                         *)
(* The code subtracts two readings of the local wall clock, so the model   *)
(* keeps their difference.  It grows with every frame, with every pause in *)
(* rendering and when the clock is put forward, and shrinks when the clock *)
(* is put back.  It has 64 bits; the code compares and divides by what a   *)
(* long keeps of it, which has 32 on every ABI the program is built for.   *)
(***************************************************************************)
EXTENDS Integers

CONSTANTS
  CycleTime,           \* FPS_CALCULATOR_CYCLE_TIME
  FrameTimes,          \* the times a frame may take while frames are drawn
  MinFrame, MaxFrame,  \* bounds of those times
  Pauses,              \* longer gaps between frames, or the clock put forward
  Setbacks,            \* how far the clock may be put back
  MaxBack,             \* how far it may be put back within one window
  LongMax,             \* the largest value of the type long
  Unset                \* the value of a long that nothing has been assigned to

ASSUME FpsAssumption ==
  /\ CycleTime \in Nat
  /\ MinFrame \in Nat \ {0} /\ MaxFrame \in Nat
  /\ FrameTimes \subseteq MinFrame .. MaxFrame
  /\ Pauses \subseteq Nat /\ Setbacks \subseteq Nat
  /\ MaxBack \in Nat /\ LongMax \in Nat
  /\ Unset \notin Int

(* Even the longest window has few enough frames for a long.  With 32 bits  *)
(* and 16 ms frames: the clock is put back by less than nine hours.         *)
ASSUME ProductFits == (CycleTime + MaxBack + MinFrame) * 1000 <= LongMax * MinFrame

(* A setback of the clock does not wrap the difference of two readings.     *)
ASSUME SetbackFits == MaxBack <= LongMax

VARIABLES
  elapsed,    \* the clock less last_time, in milliseconds
  frames,     \* m_d->frames
  fps,        \* m_d->fps
  setback,    \* how far the clock was put back since last_time
  pace,       \* how time went by since last_time
  fpsPace     \* how it went by in the window fps is the figure of

vars == <<elapsed, frames, fps, setback, pace, fpsPace>>

(* A window in which only frames were drawn, one with a pause or with the   *)
(* clock put forward or back, and one with a frame that found more than a   *)
(* long can hold gone since last_time.                                      *)
Paces == {"steady", "uneven", "jumped"}

(* What a long keeps of a number, the quotient of two longs, and its value  *)
(* as fps_t, an unsigned int.                                               *)
Wrapped(n) ==
  IF n \in -LongMax .. LongMax THEN n
  ELSE ((n + LongMax + 1) % (2 * (LongMax + 1))) - LongMax - 1
Quotient(a, b) == IF a >= 0 THEN a \div b ELSE -((-a) \div b)
Unsigned(n) == IF n >= 0 THEN n ELSE n % (2 * (LongMax + 1))
Figure(n, delta) == Unsigned(Quotient(Wrapped(n * 1000), delta))

Init ==
  /\ elapsed = 0 /\ frames = 0
  /\ fps = Unset
  /\ setback = 0 /\ pace = "uneven" /\ fpsPace = "uneven"

(* What the window is after a frame that finds gap milliseconds gone.       *)
PaceAt(gap) == IF gap > LongMax THEN "jumped" ELSE pace
Unsteady == IF pace = "jumped" THEN "jumped" ELSE "uneven"

(* Plausible bugs, CloseWindow: frames starts at one, it is not reset, and  *)
(* the figure is not stored.                                                *)
CloseWindowOffByOne(gap) ==
  /\ Wrapped(gap) > CycleTime
  /\ elapsed' = 0 /\ frames' = 1
  /\ fps' = Figure(frames + 1, Wrapped(gap))
  /\ setback' = 0 /\ pace' = "steady" /\ fpsPace' = PaceAt(gap)
CloseWindowNoReset(gap) ==
  /\ Wrapped(gap) > CycleTime
  /\ elapsed' = 0 /\ frames' = frames + 1
  /\ fps' = Figure(frames + 1, Wrapped(gap))
  /\ setback' = 0 /\ pace' = "steady" /\ fpsPace' = PaceAt(gap)
CloseWindowNotStored(gap) ==
  /\ Wrapped(gap) > CycleTime
  /\ elapsed' = 0 /\ frames' = 0
  /\ setback' = 0 /\ pace' = "steady" /\ fpsPace' = PaceAt(gap)
  /\ UNCHANGED fps

(* calc_fps, gap milliseconds after last_time: the two sides of its test.   *)
CloseWindow(gap) ==
  /\ Wrapped(gap) > CycleTime
  /\ elapsed' = 0 /\ frames' = 0
  /\ fps' = Figure(frames + 1, Wrapped(gap))
  /\ setback' = 0 /\ pace' = "steady" /\ fpsPace' = PaceAt(gap)

CountFrame(gap) ==
  /\ Wrapped(gap) <= CycleTime
  /\ elapsed' = gap /\ frames' = frames + 1
  /\ pace' = PaceAt(gap)
  /\ UNCHANGED <<fps, setback, fpsPace>>

CalcFps ==
  \E t \in FrameTimes : CloseWindow(elapsed + t) \/ CountFrame(elapsed + t)

(* One longer gap stands for several in a row.                              *)
Pause ==
  /\ elapsed <= CycleTime
  /\ \E p \in Pauses : elapsed' = elapsed + p
  /\ pace' = Unsteady
  /\ UNCHANGED <<frames, fps, setback, fpsPace>>

ClockBack ==
  /\ \E b \in Setbacks :
       /\ setback + b <= MaxBack
       /\ setback' = setback + b
       /\ elapsed' = elapsed - b
  /\ pace' = Unsteady
  /\ UNCHANGED <<frames, fps, fpsPace>>

Next == CalcFps \/ Pause \/ ClockBack

Spec == Init /\ [][Next]_vars
-----------------------------------------------------------------------------
(* Properties. *)

(* The variables keep the values the program can give them; in particular   *)
(* the figure is unset until a window has closed and a number after that.   *)
TypeOK ==
  /\ elapsed \in Int /\ frames \in Nat
  /\ fps \in Nat \cup {Unset}
  /\ setback \in 0 .. MaxBack
  /\ pace \in Paces /\ fpsPace \in Paces
  /\ fps = Unset => fpsPace = "uneven"

(* While the frames take between MinFrame and MaxFrame, the figure of a     *)
(* window is between the rates these two stand for: no frame is counted     *)
(* twice, and none is left out at the end of a window.                      *)
FpsInRange ==
  fpsPace = "steady" => fps \in (1000 \div MaxFrame) .. (1000 \div MinFrame)

(* While the clock reading fits a long, neither pauses nor a clock put back *)
(* by up to MaxBack, while frames pile up in a window that does not close,  *)
(* make the product overflow: no negative long becomes a huge fps_t.        *)
(* Nothing is claimed of a window the clock was put forward in by more than *)
(* LongMax: its difference turns negative, and frames pile up with it.      *)
FpsNotWrapped == fps # Unset /\ fpsPace # "jumped" => fps <= LongMax
=============================================================================
