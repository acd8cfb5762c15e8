------------------------------ MODULE Graphics ------------------------------
(***************************************************************************)
(* Where drawTriangle, drawRectangle and drawString (graphics.c of         *)
(* PacificOS2/source) write.  A drawing is the set of the runs of pixels   *)
(* that its loops visit, <<first, last>> counted from the start of the     *)
(* frame buffer.  Parameters are uint16_t; sums are ints until stored.     *)
(***************************************************************************)
EXTENDS Integers

CONSTANTS
  horizontalResolution, verticalResolution,
  UINT16_MOD,          (* 2^16                                             *)
  GLYPH                (* the side of a glyph, 8 pixels                    *)

ASSUME GraphicsAssumption ==
  /\ {horizontalResolution, verticalResolution, GLYPH} \subseteq Nat \ {0}
  /\ UINT16_MOD \in Nat
  /\ horizontalResolution < UINT16_MOD /\ verticalResolution < UINT16_MOD

LOCAL H == horizontalResolution
LOCAL V == verticalResolution
UInt16(n) == n % UINT16_MOD

Run(first, length) == <<first, first + length - 1>>
Pixels(drawing) == UNION {r[1] .. r[2] : r \in drawing}

(* Two rows of each length, the second pair of rows one pixel further in.  *)
drawTriangle(center_x, center_y, width) ==
  LET top == H * (center_y - width \div 2) + center_x - width \div 2
  IN  {Run(top + (2 * row + second) * H + row, width - row * 2) :
          row \in 0 .. width \div 2 - 1, second \in {0, 1}}

ClipStart(n, size) == IF n >= size THEN size - 1 ELSE n
ClipEnd(n, size)      == IF n >= size THEN size - 1 ELSE n

(* A row visits start_x to end_x, both included, and then goes on by the   *)
(* unclipped width: a row cut short starts the next one further left.      *)
Advance_clipped(n, width) == H                        \* mutant of Advance
Advance(n, width)         == n + H - width - 1
drawRectangle(start_x, start_y, width, height) ==
  LET x1 == ClipStart(start_x, H)
      y1 == ClipStart(start_y, V)
      x2 == ClipEnd(UInt16(start_x + width), H)
      y2 == ClipEnd(UInt16(start_y + height), V)
      n  == IF x2 >= x1 THEN x2 - x1 + 1 ELSE 0
  IN  IF width = 0 \/ height = 0 \/ n = 0 THEN {}
      ELSE {Run(H * y1 + x1 + k * Advance(n, width), n) : k \in 0 .. y2 - y1}

(* The string's last row is the one above start_y.                         *)
drawString(start_x, start_y, length) ==
  {Run(H * (start_y - GLYPH + y) + start_x + i * GLYPH, GLYPH) :
      i \in 0 .. length - 1, y \in 0 .. GLYPH - 1}
=============================================================================
