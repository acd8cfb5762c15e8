-------------------------------- MODULE Units --------------------------------
(***************************************************************************)
(* The parts of the system that have no concurrency within them, each on   *)
(* its own: the text console, in whole calls (from VgaText) and assignment *)
(* by assignment, the keyboard with its driver, the clock, itoa, and one   *)
(* call of a drawing function.  Kernel and EfiMain compose them.           *)
(***************************************************************************)
EXTENDS VgaText, Graphics

CONSTANTS
  FirstLine, LastLine,                                              \* ConsoleSteps
  Keys, Extended, Cursor, LeftShift, RightShift, keyboard_us, to_upper,
  FifoSize,                                                         \* Keyboard
  INT_MAX, TIMER_PHASE_HZ, TICKS_IN_MINUTES, TICKS_IN_HOUR,
  MaxElapsed,                                                       \* Clock
  Values, Bases, Minus,                                             \* Itoa
  Xs, Ys, Sizes,     \* the coordinates and sizes a shape may be drawn with
  Nothing

VARIABLES
  unit,                                          (* the part looked at      *)
  stepTerm, label, arg, y, goal, hit,            (* see ConsoleSteps        *)
  held, fifo, port, keydown, keypress_handler,
  elapsed, timer_ticks, shown,
  value, base, left, str, low, ptr, at,
  call, drawing                                  (* the shape, what it drew *)

Stp == INSTANCE ConsoleSteps WITH term <- stepTerm, at <- label
Kbd == INSTANCE Keyboard WITH NULL <- Nothing
Clk == INSTANCE Clock
Num == INSTANCE Itoa

stpVars == <<stepTerm, label, arg, y, goal, hit>>
kbdVars == <<held, fifo, port, keydown, keypress_handler>>
clkVars == <<elapsed, timer_ticks, shown>>
numVars == <<value, base, left, str, low, ptr, at>>
drwVars == <<call, drawing>>

ASSUME UnitsAssumption ==
  /\ VgaTextAssumption /\ Stp!ConsoleStepsAssumption /\ Kbd!KeyboardAssumption
  /\ Clk!TimerAssumption /\ Clk!ClockAssumption /\ Num!ItoaAssumption
  /\ Xs \cup Ys \cup Sizes \subseteq 0 .. UINT16_MOD - 1

-----------------------------------------------------------------------------
(* One call of a function of Graphics, with any arguments.                 *)
Shapes ==
  [shape : {"triangle", "string"}, x : Xs, y : Ys, width : Sizes, height : {0}]
  \union [shape : {"rectangle"}, x : Xs, y : Ys, width : Sizes, height : Sizes]

NotDrawn == [shape |-> "none", x |-> 0, y |-> 0, width |-> 0, height |-> 0]

Draw(c) ==
  /\ call = NotDrawn /\ call' = c
  /\ drawing' = CASE c.shape = "triangle"  -> drawTriangle(c.x, c.y, c.width)
                  [] c.shape = "rectangle" -> drawRectangle(c.x, c.y, c.width, c.height)
                  [] c.shape = "string"    -> drawString(c.x, c.y, c.width)

Drawn == call # NotDrawn /\ UNCHANGED drwVars

-----------------------------------------------------------------------------
UnitsInit ==
  /\ unit \in {"console", "console steps", "keyboard", "clock", "itoa", "drawing"}
  /\ ConsoleInit /\ Stp!Init /\ Kbd!Init /\ Clk!Init /\ Num!Init
  /\ call = NotDrawn /\ drawing = {}

Calls    == /\ unit = "console" /\ ConsoleNext
            /\ UNCHANGED <<unit, stpVars, kbdVars, clkVars, numVars, drwVars>>
Steps    == /\ unit = "console steps" /\ Stp!Next
            /\ UNCHANGED <<unit, term, kbdVars, clkVars, numVars, drwVars>>
Keyboard == /\ unit = "keyboard" /\ Kbd!Next
            /\ UNCHANGED <<unit, term, stpVars, clkVars, numVars, drwVars>>
Clock    == /\ unit = "clock" /\ Clk!Next
            /\ UNCHANGED <<unit, term, stpVars, kbdVars, numVars, drwVars>>
Itoa     == /\ unit = "itoa" /\ Num!Next
            /\ UNCHANGED <<unit, term, stpVars, kbdVars, clkVars, drwVars>>
Drawing  == /\ unit = "drawing" /\ (Drawn \/ \E c \in Shapes : Draw(c))
            /\ UNCHANGED <<unit, term, stpVars, kbdVars, clkVars, numVars>>

UnitsNext == Calls \/ Steps \/ Keyboard \/ Clock \/ Itoa \/ Drawing
unitsVars == <<unit, term, stpVars, kbdVars, clkVars, numVars, drwVars>>
UnitsSpec == UnitsInit /\ [][UnitsNext]_unitsVars

-----------------------------------------------------------------------------
(* Properties                                                              *)

(* The assignments of a call add up to it, text never runs into older      *)
(* text, only the report of an exception that tore a print writes past the *)
(* screen, and only a scroll it tore hides the report (see ConsoleSteps).  *)
StepsAddUp == Stp!StepsAddUp
BlankAhead == Stp!BlankAhead
ReportTorn == Stp!PastEndOnlyTorn /\ Stp!LostOnlyInScroll

(* The driver's table of keys follows the keys, bytes in flight included   *)
(* (see Keyboard).                                                         *)
KeydownTracksHeld == Kbd!KeydownTracksHeld

(* The driver's comment: a release comes only for a key that it knows to   *)
(* be down (see Keyboard).                                                 *)
OnlyHeldReleased == Kbd!OnlyHeldReleased

(* The time printed last is the time elapsed (see Clock).                  *)
ShowsElapsed == Clk!ShowsElapsed

(* itoa gives the number in positional notation (see Itoa).                *)
ItoaExact == Num!ItoaExact

FrameBuffer == 0 .. horizontalResolution * verticalResolution - 1

(* Does the shape as asked for lie on the screen?                          *)
Half == call.width \div 2
Fits ==
  CASE call.shape = "triangle"  -> /\ call.x - Half >= 0 /\ call.y - Half >= 0
                                   /\ call.x + Half < horizontalResolution
                                   /\ call.y + Half <= verticalResolution
    [] call.shape = "string"    -> /\ call.y \in GLYPH .. verticalResolution
                                   /\ call.x + call.width * GLYPH <= horizontalResolution
    [] call.shape = "rectangle" -> call.width <= horizontalResolution
    [] OTHER                    -> TRUE

(* What fits is drawn inside the frame buffer.  A rectangle need not fit:  *)
(* clipping and slant keep it inside if only it is no wider than the       *)
(* screen, wherever it starts, the wrap of its uint16_t corners included.  *)
InFrame == Fits => Pixels(drawing) \subseteq FrameBuffer

(* A rectangle that starts on the screen is drawn as what is on the screen *)
(* of it, corners included, exactly when it ends before the right margin   *)
(* or has one row: otherwise clipping makes it slant.                      *)
Right  == call.x + call.width
Bottom == call.y + call.height
OnScreen ==
  {line * horizontalResolution + pixel :
     pixel \in (call.x .. Right) \cap (0 .. horizontalResolution - 1),
     line \in (call.y .. Bottom) \cap (0 .. verticalResolution - 1)}
Upright == Right < horizontalResolution \/ call.y = verticalResolution - 1
RectangleUpright ==
  /\ call.shape = "rectangle" /\ call.width > 0 /\ call.height > 0
  /\ call.x < horizontalResolution /\ call.y < verticalResolution
  /\ Right < UINT16_MOD /\ Bottom < UINT16_MOD
  => (Pixels(drawing) = OnScreen <=> Upright)

(* Both hold of every call of a drawing function.                         *)
DrawingExact == InFrame /\ RectangleUpright
=============================================================================
