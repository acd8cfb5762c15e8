------------------------------ MODULE Teletype ------------------------------
(***************************************************************************)
(* What the text console is meant to be: a screen of rows with a point.    *)
(* A glyph goes to the point and advances it, a full row or a newline goes *)
(* to the next row, scrolling at the bottom, and erasing steps back, over  *)
(* the end of the previous row too, to blank the glyph there.              *)
(***************************************************************************)
EXTENDS Integers, Sequences

CONSTANTS Width, Height, Glyphs, Space, Newline

VARIABLES rows, at           \* the rows, and the point as <<row, column>>

vars == <<rows, at>>

BlankRow == [x \in 1 .. Width |-> Space]
Init == rows = [y \in 1 .. Height |-> BlankRow] /\ at = <<1, 1>>

NextRow(screen) ==
  IF at[1] = Height
  THEN rows' = Append(Tail(screen), BlankRow) /\ at' = <<Height, 1>>
  ELSE rows' = screen /\ at' = <<at[1] + 1, 1>>

Type(g) ==
  LET screen == [rows EXCEPT ![at[1]][at[2]] = g]
  IN  IF at[2] = Width
      THEN NextRow(screen)
      ELSE rows' = screen /\ at' = <<at[1], at[2] + 1>>

Return == NextRow(rows)

Erase ==
  /\ at # <<1, 1>>
  /\ at' = IF at[2] > 1 THEN <<at[1], at[2] - 1>> ELSE <<at[1] - 1, Width>>
  /\ rows' = [rows EXCEPT ![at'[1]][at'[2]] = Space]

Next == Return \/ Erase \/ \E g \in Glyphs : Type(g)
Spec == Init /\ [][Next]_vars
=============================================================================
