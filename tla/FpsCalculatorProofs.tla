------------------------ MODULE FpsCalculatorProofs -------------------------
(***************************************************************************)
(* Proofs about FpsCalculator, for every frame time, pause and setback.    *)
(*                                                                         *)
(* The invariant relates the frames of the open window to its length: n    *)
(* frames take n * MinFrame at least, and in a steady window n * MaxFrame  *)
(* at most.  The first half bounds the number of frames, as long as the    *)
(* difference of the readings fits a long, so the product does not wrap;   *)
(* both together bound the quotient.                                       *)
(***************************************************************************)
EXTENDS FpsCalculator, TLAPS

WindowOpen == pace # "jumped" => frames * MinFrame <= CycleTime + MaxBack

WindowLength ==
  /\ frames * MinFrame <= elapsed + setback
  /\ pace = "steady" => /\ setback = 0
                        /\ elapsed <= frames * MaxFrame

Inv ==
  /\ TypeOK
  /\ WindowOpen
  /\ WindowLength
  /\ FpsInRange
  /\ FpsNotWrapped

-----------------------------------------------------------------------------
(* A quotient is at least q when q times the divisor fits, and at most q    *)
(* when the dividend is at most q and a bit times the divisor.              *)
LEMMA QuotientAtLeast ==
  ASSUME NEW a \in Nat, NEW b \in Nat \ {0}, NEW q \in Nat, q * b <= a
  PROVE  q <= a \div b
<1> DEFINE r == a \div b
<1>1. r \in Nat /\ a < (r + 1) * b
  OBVIOUS
<1> HIDE DEF r
<1>2. SUFFICES ASSUME r + 1 <= q PROVE FALSE
  BY <1>1 DEF r
<1>3. (r + 1) * b <= q * b
  BY <1>1, <1>2
<1> QED
  BY <1>1, <1>3

(* The upper bound of the two. *)
LEMMA QuotientAtMost ==
  ASSUME NEW a \in Nat, NEW b \in Nat \ {0}, NEW q \in Nat, a < (q + 1) * b
  PROVE  a \div b <= q
<1> DEFINE r == a \div b
<1>1. r \in Nat /\ r * b <= a
  OBVIOUS
<1> HIDE DEF r
<1>2. SUFFICES ASSUME q + 1 <= r PROVE FALSE
  BY <1>1 DEF r
<1>3. (q + 1) * b <= r * b
  BY <1>1, <1>2
<1> QED
  BY <1>1, <1>3

-----------------------------------------------------------------------------
(* A remainder by the number of values of a long is no less than 0. *)
LEMMA RemainderIsNatural ==
  ASSUME NEW k \in Int
  PROVE  k % (2 * (LongMax + 1)) \in Nat
<1> DEFINE m == 2 * (LongMax + 1)
<1>1. m \in Nat \ {0}
  BY FpsAssumption
<1> HIDE DEF m
<1>2. k % m \in Nat
  BY <1>1
<1> QED
  BY <1>2 DEF m

(* What a long keeps of a number is a number. *)
LEMMA WrappedIsInteger ==
  ASSUME NEW k \in Int
  PROVE  Wrapped(k) \in Int
<1>1. k + LongMax + 1 \in Int /\ LongMax \in Nat
  BY FpsAssumption
<1>2. (k + LongMax + 1) % (2 * (LongMax + 1)) \in Nat
  BY <1>1, RemainderIsNatural
<1> QED
  BY <1>1, <1>2 DEF Wrapped

(* The figure is never negative, whatever wrapped on the way to it. *)
LEMMA FigureIsNatural ==
  ASSUME NEW n \in Int, NEW delta \in Nat \ {0}
  PROVE  Figure(n, delta) \in Nat
<1> DEFINE q == Quotient(Wrapped(n * 1000), delta)
<1>1. Wrapped(n * 1000) \in Int
  BY WrappedIsInteger
<1>2. q \in Int
  BY <1>1 DEF Quotient
<1>3. Unsigned(q) \in Nat
  BY <1>2, RemainderIsNatural DEF Unsigned
<1> QED
  BY <1>3 DEF Figure

(* The clock is never put back so far that the difference wraps: a frame    *)
(* that finds no more than LongMax gone sees the difference as it is.       *)
LEMMA GapKept ==
  ASSUME TypeOK, WindowLength, NEW t \in FrameTimes, elapsed + t <= LongMax
  PROVE  Wrapped(elapsed + t) = elapsed + t
<1>1. frames * MinFrame \in Nat
  BY FpsAssumption DEF TypeOK
<1>2. elapsed + t \in -LongMax .. LongMax
  BY <1>1, FpsAssumption, SetbackFits DEF TypeOK, WindowLength
<1> QED
  BY <1>2 DEF Wrapped

(* The product of the frame that closes a window fits a long. *)
LEMMA ProductInRange ==
  ASSUME TypeOK, WindowOpen, pace # "jumped"
  PROVE  (frames + 1) * 1000 \in 0 .. LongMax
<1> USE FpsAssumption DEF TypeOK, WindowOpen
<1> DEFINE n == frames + 1
<1>1. n \in Nat /\ n * MinFrame <= CycleTime + MaxBack + MinFrame
  OBVIOUS
<1> HIDE DEF n
<1>2. (n * 1000) * MinFrame <= LongMax * MinFrame
  <2>1. (n * 1000) * MinFrame = (n * MinFrame) * 1000
    BY <1>1
  <2>2. (n * MinFrame) * 1000 <= (CycleTime + MaxBack + MinFrame) * 1000
    <3> DEFINE x == n * MinFrame
    <3>1. x \in Nat /\ x <= CycleTime + MaxBack + MinFrame
      BY <1>1
    <3> HIDE DEF x
    <3>2. x * 1000 <= (CycleTime + MaxBack + MinFrame) * 1000
      BY <3>1
    <3> QED
      BY <3>2 DEF x
  <2> QED
    BY <1>1, <2>1, <2>2, ProductFits
<1>3. n * 1000 <= LongMax
  <2>1. SUFFICES ASSUME LongMax + 1 <= n * 1000 PROVE FALSE
    BY <1>1
  <2> DEFINE a == n * 1000
  <2>2. a \in Nat /\ LongMax + 1 <= a /\ a * MinFrame <= LongMax * MinFrame
    BY <1>1, <1>2, <2>1
  <2> HIDE DEF a
  <2>3. (LongMax + 1) * MinFrame <= a * MinFrame
    BY <2>2
  <2> QED
    BY <2>2, <2>3
<1> QED
  BY <1>1, <1>3 DEF n

(* A frame that closes a window: the figure is the plain quotient. *)
LEMMA FigureIsQuotient ==
  ASSUME TypeOK, WindowOpen, pace # "jumped", NEW delta \in Nat, delta > CycleTime
  PROVE  /\ Figure(frames + 1, delta) = ((frames + 1) * 1000) \div delta
         /\ Figure(frames + 1, delta) \in 0 .. LongMax
<1> DEFINE a == (frames + 1) * 1000
<1>1. a \in 0 .. LongMax /\ LongMax \in Nat /\ delta \in Nat \ {0}
  BY ProductInRange, FpsAssumption
<1>2. Wrapped(a) = a
  BY <1>1 DEF Wrapped
<1> HIDE DEF a
<1>3. a \div delta \in Nat
  BY <1>1
<1>4. Unsigned(Quotient(a, delta)) = a \div delta
  BY <1>1, <1>3 DEF Unsigned, Quotient
<1>5. a < (LongMax + 1) * delta
  <2>1. (LongMax + 1) * 1 <= (LongMax + 1) * delta
    BY <1>1
  <2> QED
    BY <1>1, <2>1
<1>6. a \div delta <= LongMax
  BY <1>1, <1>5, QuotientAtMost
<1> QED
  BY <1>1, <1>2, <1>3, <1>4, <1>6 DEF Figure, a

(* In a steady window of n frames that lasted delta, the figure is in range. *)
LEMMA SteadyFigure ==
  ASSUME NEW n \in Nat \ {0}, NEW delta \in Nat \ {0},
         MaxFrame \in Nat \ {0},
         n * MinFrame <= delta, delta <= n * MaxFrame
  PROVE  (n * 1000) \div delta \in (1000 \div MaxFrame) .. (1000 \div MinFrame)
<1> USE FpsAssumption
<1> DEFINE lo == 1000 \div MaxFrame
           hi == 1000 \div MinFrame
           a == n * 1000
<1>1. lo \in Nat /\ lo * MaxFrame <= 1000
  OBVIOUS
<1>2. hi \in Nat /\ 1000 < (hi + 1) * MinFrame
  OBVIOUS
<1>3. a \in Nat /\ a \div delta \in Nat
  OBVIOUS
<1> HIDE DEF lo, hi
<1>4. lo * delta <= a
  <2>1. lo * delta <= lo * (n * MaxFrame)
    BY <1>1
  <2>2. lo * (n * MaxFrame) = n * (lo * MaxFrame)
    BY <1>1
  <2>3. n * (lo * MaxFrame) <= n * 1000
    BY <1>1
  <2> QED
    BY <1>1, <2>1, <2>2, <2>3
<1>5. a < (hi + 1) * delta
  <2>1. (hi + 1) * (n * MinFrame) <= (hi + 1) * delta
    BY <1>2
  <2>2. (hi + 1) * (n * MinFrame) = n * ((hi + 1) * MinFrame)
    BY <1>2
  <2>3. n * 1000 < n * ((hi + 1) * MinFrame)
    BY <1>2
  <2> QED
    BY <1>2, <2>1, <2>2, <2>3
<1>6. lo <= a \div delta
  BY <1>1, <1>3, <1>4, QuotientAtLeast
<1>7. a \div delta <= hi
  BY <1>2, <1>3, <1>5, QuotientAtMost
<1> QED
  BY <1>1, <1>2, <1>3, <1>6, <1>7 DEF lo, hi

-----------------------------------------------------------------------------
(* The invariant of the counter holds of a new calculator. *)
LEMMA InitInv == Init => Inv
<1> SUFFICES ASSUME Init PROVE Inv
  OBVIOUS
<1>1. pace = "uneven" /\ fpsPace = "uneven"
  BY DEF Init
<1>2. frames * MinFrame = 0
  BY FpsAssumption DEF Init
<1> QED
  BY <1>1, <1>2, FpsAssumption DEF Init, Inv, TypeOK, Paces, WindowOpen,
    WindowLength, FpsInRange, FpsNotWrapped

(* Each frame, pause and setback of the clock keeps it. *)
LEMMA InvStep == Inv /\ [Next]_vars => Inv'
<1> SUFFICES ASSUME Inv, [Next]_vars PROVE Inv'
  OBVIOUS
<1> USE FpsAssumption DEF Inv, TypeOK
<1>1. ASSUME NEW t \in FrameTimes, CloseWindow(elapsed + t) PROVE Inv'
  <2> DEFINE gap == elapsed + t
             delta == Wrapped(gap)
  <2>1. gap \in Int /\ t \in MinFrame .. MaxFrame
    OBVIOUS
  <2>2. gap <= LongMax => delta = gap
    BY GapKept
  <2>3. delta \in Nat \ {0} /\ delta > CycleTime
    <3>1. delta > CycleTime
      BY <1>1 DEF CloseWindow
    <3>2. delta \in Int
      BY <2>1, WrappedIsInteger
    <3> QED
      BY <3>1, <3>2
  <2>4. fps' \in Nat
    BY <1>1, <2>3, FigureIsNatural DEF CloseWindow
  <2>5. ASSUME gap <= LongMax, pace # "jumped"
        PROVE  fps' \in 0 .. LongMax /\ fps' = ((frames + 1) * 1000) \div gap
    BY <1>1, <2>2, <2>3, <2>5, FigureIsQuotient DEF CloseWindow
  <2>6. ASSUME gap <= LongMax, pace = "steady"
        PROVE  fps' \in (1000 \div MaxFrame) .. (1000 \div MinFrame)
    <3>1. fps' = ((frames + 1) * 1000) \div gap
      BY <2>5, <2>6
    <3>2. (frames + 1) * MinFrame = frames * MinFrame + MinFrame
      OBVIOUS
    <3>3. (frames + 1) * MaxFrame = frames * MaxFrame + MaxFrame
      OBVIOUS
    <3>4. (frames + 1) * MinFrame <= gap /\ gap <= (frames + 1) * MaxFrame
      BY <2>1, <2>6, <3>2, <3>3 DEF WindowLength
    <3>5. /\ frames + 1 \in Nat \ {0} /\ gap \in Nat \ {0}
          /\ MaxFrame \in Nat \ {0}
      BY <2>1, <2>2, <2>3, <2>6
    <3> DEFINE n == frames + 1
    <3> HIDE DEF gap, n
    <3>6. n \in Nat \ {0} /\ n * MinFrame <= gap /\ gap <= n * MaxFrame
      BY <3>4, <3>5 DEF n
    <3>7. (n * 1000) \div gap \in (1000 \div MaxFrame) .. (1000 \div MinFrame)
      BY ONLY <3>5, <3>6, SteadyFigure
    <3> QED
      BY <3>1, <3>7 DEF n
  <2>7. TypeOK' /\ WindowOpen' /\ WindowLength'
    <3>1. /\ elapsed' = 0 /\ frames' = 0 /\ setback' = 0 /\ pace' = "steady"
          /\ fpsPace' \in Paces
      BY <1>1 DEF CloseWindow, PaceAt, Paces
    <3>2. fps' # Unset
      BY <2>4
    <3> QED
      BY <2>4, <3>1, <3>2 DEF WindowOpen, WindowLength, Paces
  <2>8. FpsInRange'
    BY <1>1, <2>6 DEF CloseWindow, PaceAt, FpsInRange
  <2>9. FpsNotWrapped'
    <3>1. SUFFICES ASSUME fpsPace' # "jumped" PROVE fps' <= LongMax
      BY DEF FpsNotWrapped
    <3>2. gap <= LongMax /\ pace # "jumped"
      BY <1>1, <2>1, <3>1 DEF CloseWindow, PaceAt
    <3> QED
      BY <2>5, <3>2
  <2> QED
    BY <2>7, <2>8, <2>9
<1>2. ASSUME NEW t \in FrameTimes, CountFrame(elapsed + t) PROVE Inv'
  <2>1. t \in MinFrame .. MaxFrame
    OBVIOUS
  <2>2. pace' = PaceAt(elapsed + t) /\ elapsed' = elapsed + t
    BY <1>2 DEF CountFrame
  <2>3. pace' \in Paces /\ (pace' # "jumped" => pace' = pace /\ elapsed + t <= LongMax)
    BY <2>1, <2>2 DEF PaceAt, Paces
  <2>4. TypeOK'
    BY <1>2, <2>1, <2>3 DEF CountFrame
  <2>5. (frames + 1) * MinFrame = frames * MinFrame + MinFrame
    OBVIOUS
  <2>6. (frames + 1) * MaxFrame = frames * MaxFrame + MaxFrame
    OBVIOUS
  <2>7. WindowLength'
    BY <1>2, <2>1, <2>3, <2>5, <2>6 DEF CountFrame, WindowLength
  <2>8. WindowOpen'
    <3>1. SUFFICES ASSUME pace' # "jumped"
                   PROVE  frames' * MinFrame <= CycleTime + MaxBack
      BY DEF WindowOpen
    <3>2. elapsed + t <= CycleTime
      BY <1>2, <2>3, <3>1, GapKept DEF CountFrame
    <3> QED
      BY <1>2, <2>1, <2>5, <3>2 DEF CountFrame, WindowLength
  <2> QED
    BY <1>2, <2>4, <2>7, <2>8 DEF CountFrame, FpsInRange, FpsNotWrapped
<1>3. ASSUME Unsteady = pace' PROVE pace' \in Paces /\ (pace' # "jumped" => pace # "jumped")
  BY <1>3 DEF Unsteady, Paces
<1>4. Unsteady # "steady"
  BY DEF Unsteady
<1>5. frames * MinFrame \in Nat
  OBVIOUS
<1>6. CASE Pause
  <2>1. pace' = Unsteady
    BY <1>6 DEF Pause
  <2> QED
    BY <1>3, <1>4, <1>5, <1>6, <2>1
      DEF Pause, WindowOpen, WindowLength, FpsInRange, FpsNotWrapped
<1>7. CASE ClockBack
  <2>1. pace' = Unsteady
    BY <1>7 DEF ClockBack
  <2> QED
    BY <1>3, <1>4, <1>5, <1>7, <2>1
      DEF ClockBack, WindowOpen, WindowLength, FpsInRange, FpsNotWrapped
<1>8. CASE UNCHANGED vars
  BY <1>8 DEF vars, WindowOpen, WindowLength, FpsInRange, FpsNotWrapped
<1> QED
  BY <1>1, <1>2, <1>6, <1>7, <1>8 DEF Next, CalcFps

(* So it holds throughout. *)
LEMMA Invariance == Spec => []Inv
  BY InitInv, InvStep, PTL DEF Spec

(* A long of 32 bits has room for frames of 16 milliseconds, with a clock   *)
(* put back by up to nine hours.                                            *)
LEMMA ProgramFits ==
  ASSUME CycleTime = 1000, MinFrame = 16, LongMax = 2147483647,
         MaxBack \in Nat, MaxBack <= 9 * 3600000
  PROVE  /\ (CycleTime + MaxBack + MinFrame) * 1000 <= LongMax * MinFrame
         /\ MaxBack <= LongMax
BY SMT

(* The counter's figures and frame counts keep their types; a figure that   *)
(* is unset belongs to no steady window.                                    *)
THEOREM TypeCorrect == Spec => []TypeOK
<1>1. Inv => TypeOK
  BY DEF Inv
<1> QED
  BY <1>1, Invariance, PTL

(* The figure of a window of frames, each between MinFrame and MaxFrame     *)
(* long, lies between the rates these times stand for.                      *)
THEOREM FpsInRangeHolds == Spec => []FpsInRange
<1>1. Inv => FpsInRange
  BY DEF Inv
<1> QED
  BY <1>1, Invariance, PTL

(* Whatever the pauses, with the clock put back by MaxBack at most in a     *)
(* window, a figure is the result of an overflow only if a frame of its     *)
(* window found more than LongMax milliseconds gone.                        *)
THEOREM FpsNotWrappedHolds == Spec => []FpsNotWrapped
<1>1. Inv => FpsNotWrapped
  BY DEF Inv
<1> QED
  BY <1>1, Invariance, PTL
=============================================================================
