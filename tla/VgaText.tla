------------------------------ MODULE VgaText ------------------------------
(***************************************************************************)
(* The text console, src/arch/x86_64/vgatext.c: the flat frame buffer at   *)
(* 0xB8000 and the point at which it prints.  The console's variables are  *)
(* one record, so that a handler that prints a whole line is one step:     *)
(*   row, column : terminal_row and terminal_column, both size_t           *)
(*   buffer      : terminal_buffer (the glyphs, not their colour)          *)
(*   stray       : the writes so far outside it, "below" or "past" it      *)
(***************************************************************************)
EXTENDS Integers, Sequences

CONSTANTS
  VGA_WIDTH, VGA_HEIGHT,   (* the screen (80 and 25 in the code)           *)
  SIZE_MOD,                (* 2^64, where size_t wraps                     *)
  Glyphs, Space,           (* what a cell holds, and the blank             *)
  Newline,                 (* '\n'                                         *)
  MaxErased,               (* bound: columns erased past a row's start     *)
  ErasesAcrossRows         (* is a backspace typed at a row's start too?   *)

VgaTextAssumption ==
  /\ VGA_WIDTH \in Nat \ {0} /\ VGA_HEIGHT \in Nat \ {0}
  /\ SIZE_MOD \in Nat /\ SIZE_MOD > 2 * (VGA_WIDTH * VGA_HEIGHT + MaxErased)
  /\ MaxErased \in Nat
  /\ Space \in Glyphs /\ Newline \notin Glyphs
  /\ ErasesAcrossRows \in BOOLEAN

VARIABLE term

Cells == 0 .. VGA_WIDTH * VGA_HEIGHT - 1
SizeT(n) == n % SIZE_MOD

terminal_initialize ==
  [row |-> 0, column |-> 0, buffer |-> [i \in Cells |-> Space], stray |-> {}]

(* y * VGA_WIDTH + x wraps as size_t; the upper half reads as negative.    *)
putentryat(t, g, x, y) ==
  LET index == SizeT(y * VGA_WIDTH + x)
  IN  IF index \in Cells THEN [t EXCEPT !.buffer[index] = g]
      ELSE [t EXCEPT !.stray = @ \union {IF 2 * index > SIZE_MOD THEN "below" ELSE "past"}]

move_up(t) ==
  [t EXCEPT !.buffer = [i \in Cells |-> IF i + VGA_WIDTH \in Cells
                                        THEN t.buffer[i + VGA_WIDTH] ELSE Space],
            !.row = @ - 1]

AtBottom_late(t) == t.row > VGA_HEIGHT           \* mutant of AtBottom
AtBottom(t)      == t.row = VGA_HEIGHT
next_row(t) ==
  LET u == [t EXCEPT !.row = @ + 1, !.column = 0]
  IN  IF AtBottom(u) THEN move_up(u) ELSE u

RowFull_late(column) == column > VGA_WIDTH       \* mutant of RowFull
RowFull(column)      == column = VGA_WIDTH
putchar(t, c) ==
  IF c = Newline THEN next_row(t)
  ELSE LET u == putentryat(t, c, t.column, t.row)
           column == SizeT(t.column + 1)
       IN  IF RowFull(column) THEN next_row(u) ELSE [u EXCEPT !.column = column]

(* One character after the other.                                          *)
writestring(t, s) ==
  LET written[i \in 0 .. Len(s)] == IF i = 0 THEN t ELSE putchar(written[i - 1], s[i])
  IN  written[Len(s)]

(* terminal_column is unsigned: it is never below zero after --, so the    *)
(* branch that would step to the previous row is never taken.              *)
removelastchar(t) ==
  IF t.row > 0 \/ t.column > 0
  THEN LET column == SizeT(t.column - 1)
           u == IF column < 0 THEN [t EXCEPT !.row = @ - 1, !.column = VGA_WIDTH - 1]
                              ELSE [t EXCEPT !.column = column]
       IN  putentryat(u, Space, u.column, u.row)
  ELSE t

(* Typed keys: backspace (0x0E) erases, the shifts (0x2A, 0x36) and all    *)
(* releases do nothing, any other key prints its character.                *)
Prints(event) == event.pressed /\ event.scancode \notin {42, 54}
handle_key_press(t, event) ==
  CASE ~ Prints(event)     -> t
    [] event.scancode = 14 -> removelastchar(t)
    [] OTHER               -> putchar(t, event.character)

-----------------------------------------------------------------------------
ConsoleInit == term = terminal_initialize

Echo(c) == term' = putchar(term, c)

(* How far the point lies past the start of its row, to the left.          *)
Erased(t) == IF 2 * t.column > SIZE_MOD THEN SIZE_MOD - t.column ELSE 0

Backspace ==
  /\ ErasesAcrossRows \/ term.column > 0 \/ term.row = 0
  /\ Erased(term) < MaxErased
  /\ term' = removelastchar(term)

ConsoleNext == Backspace \/ \E c \in Glyphs \union {Newline} : Echo(c)
ConsoleSpec == ConsoleInit /\ [][ConsoleNext]_term

-----------------------------------------------------------------------------
(* Properties                                                              *)

(* No write lands below the start of the frame buffer.                     *)
NeverBelowStart == "below" \notin term.stray

(* The flat buffer, the scrolling loop and the size_t arithmetic give the  *)
(* two-dimensional console of Teletype.                                    *)
Console == INSTANCE Teletype WITH
  Width <- VGA_WIDTH, Height <- VGA_HEIGHT,
  rows <- [y \in 1 .. VGA_HEIGHT |->
             [x \in 1 .. VGA_WIDTH |-> term.buffer[(y - 1) * VGA_WIDTH + x - 1]]],
  at <- <<term.row + 1, term.column + 1>>
ImplementsTeletype == Console!Spec
=============================================================================
