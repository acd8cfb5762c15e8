--------------------------- MODULE GraphicsProofs ---------------------------
(***************************************************************************)
(* Where the shapes of Graphics lie, for every size of the screen.         *)
(***************************************************************************)
EXTENDS Graphics, TLAPS

(* The run lies in a frame buffer of `height' rows of the screen's width.  *)
Inside(r) == /\ r \in Int \X Int
             /\ 0 <= r[1] /\ r[2] < horizontalResolution * verticalResolution

(* A product with a natural number keeps the order of the other factor.    *)
LEMMA ProductOrder ==
  ASSUME NEW n \in Nat, NEW a \in Int, NEW b \in Int, a <= b
  PROVE  /\ n * a \in Int /\ n * b \in Int /\ n * a <= n * b
         /\ n * (a + 1) = n * a + n /\ n * (b - 1) = n * b - n
BY SMT

(* The pixels of one row that stay within it lie in the frame buffer.      *)
LEMMA RowInside ==
  ASSUME NEW row \in 0 .. verticalResolution - 1,
         NEW first \in Int, NEW length \in Int,
         0 <= first, first + length <= horizontalResolution
  PROVE  Inside(Run(horizontalResolution * row + first, length))
<1> DEFINE H == horizontalResolution
           V == verticalResolution
<1>1. H \in Nat /\ V \in Nat
  BY GraphicsAssumption
<1>2. /\ H * 0 <= H * row /\ H * row \in Int
      /\ H * row <= H * (V - 1) /\ H * (V - 1) = H * V - H /\ H * V \in Int
  <2>1. /\ H * row \in Int /\ H * row <= H * (V - 1)
    BY <1>1, ProductOrder
  <2>2. H * 0 <= H * row
    BY <1>1, ProductOrder
  <2>3. H * (V - 1) = H * V - H /\ H * V \in Int
    BY <1>1, ProductOrder
  <2> QED BY <2>1, <2>2, <2>3
<1>3. H * 0 = 0
  BY <1>1
<1> HIDE DEF H, V
<1>4. /\ H * row + first \in Int /\ H * row + first + length - 1 \in Int
      /\ 0 <= H * row + first /\ H * row + first + length - 1 < H * V
  BY <1>1, <1>2, <1>3 DEF H, V
<1> QED
  BY <1>4 DEF Inside, Run, H, V

(* Two offsets of rows add up.                                             *)
LEMMA RowsAdd ==
  ASSUME NEW n \in Nat, NEW a \in Int, NEW b \in Int
  PROVE  /\ n * a + b * n = n * (a + b)
         /\ n * a \in Int /\ b * n \in Int /\ n * (a + b) \in Int
BY SMT

(* A triangle that fits, its centre half its width from every margin, is   *)
(* drawn inside the frame buffer.                                          *)
LEMMA TriangleInside ==
  ASSUME NEW x \in Nat, NEW y \in Nat, NEW width \in Nat,
         0 <= x - width \div 2, x + width \div 2 < horizontalResolution,
         0 <= y - width \div 2, y + width \div 2 <= verticalResolution
  PROVE  \A r \in drawTriangle(x, y, width) : Inside(r)
<1> DEFINE half == width \div 2
           H    == horizontalResolution
<1>1. H \in Nat /\ half \in Nat /\ 2 * half <= width /\ width <= 2 * half + 1
  BY GraphicsAssumption
<1>2. SUFFICES ASSUME NEW row \in 0 .. half - 1, NEW second \in {0, 1}
               PROVE  Inside(Run(H * (y - half) + x - half + (2 * row + second) * H + row,
                                 width - row * 2))
  BY DEF drawTriangle
<1> DEFINE at    == (y - half) + (2 * row + second)
           first == x - half + row
<1>3. /\ H * (y - half) + (2 * row + second) * H = H * at
      /\ H * (y - half) \in Int /\ (2 * row + second) * H \in Int /\ H * at \in Int
  <2>1. y - half \in Int /\ 2 * row + second \in Int
    BY <1>1
  <2> QED BY <1>1, <2>1, RowsAdd
<1>4. /\ at \in 0 .. verticalResolution - 1 /\ first \in Int /\ 0 <= first
      /\ width - row * 2 \in Int /\ first + (width - row * 2) <= H
  BY <1>1, GraphicsAssumption
<1>5. Inside(Run(H * at + first, width - row * 2))
  BY <1>4, RowInside
<1>6. H * (y - half) + x - half + (2 * row + second) * H + row = H * at + first
  <2> HIDE DEF at, H
  <2> QED BY <1>1, <1>3
<1> QED
  BY <1>5, <1>6

(* A string that fits, from its row of glyphs above y to its last glyph,   *)
(* is drawn inside the frame buffer.                                       *)
LEMMA StringInside ==
  ASSUME NEW x \in Nat, NEW y \in GLYPH .. verticalResolution, NEW length \in Nat,
         x + length * GLYPH <= horizontalResolution
  PROVE  \A r \in drawString(x, y, length) : Inside(r)
<1> DEFINE H == horizontalResolution
<1>1. H \in Nat /\ GLYPH \in Nat /\ verticalResolution \in Nat
  BY GraphicsAssumption
<1>2. SUFFICES ASSUME NEW i \in 0 .. length - 1, NEW row \in 0 .. GLYPH - 1
               PROVE  Inside(Run(H * (y - GLYPH + row) + x + i * GLYPH, GLYPH))
  BY DEF drawString
<1>3. /\ GLYPH * 0 <= GLYPH * i /\ GLYPH * 0 = 0
      /\ GLYPH * (i + 1) <= GLYPH * length /\ GLYPH * (i + 1) = GLYPH * i + GLYPH
      /\ GLYPH * i = i * GLYPH /\ GLYPH * length = length * GLYPH
      /\ i * GLYPH \in Int /\ length * GLYPH \in Int
  BY <1>1, ProductOrder
<1> DEFINE at    == y - GLYPH + row
           first == x + i * GLYPH
<1>4. /\ at \in 0 .. verticalResolution - 1
      /\ first \in Int /\ GLYPH \in Int /\ 0 <= first /\ first + GLYPH <= H
  <2>1. at \in 0 .. verticalResolution - 1
    BY <1>1
  <2>2. i * GLYPH >= 0 /\ i * GLYPH + GLYPH <= length * GLYPH
    BY <1>1, <1>3
  <2> QED BY <1>1, <1>3, <2>1, <2>2
<1>5. Inside(Run(H * at + first, GLYPH))
  <2> HIDE DEF at, first
  <2> QED BY <1>4, RowInside
<1>6. H * at \in Int /\ H * at + x + i * GLYPH = H * at + first
  <2>1. H * at \in Int
    <3> HIDE DEF at
    <3> QED BY <1>1, <1>4
  <2> QED BY <1>1, <1>3, <2>1
<1> QED
  BY <1>5, <1>6
(* What is stored in a uint16_t is at most what it was.                    *)
LEMMA UInt16Bounds ==
  ASSUME NEW n \in Nat
  PROVE  UInt16(n) \in Nat /\ UInt16(n) <= n
<1>1. UINT16_MOD \in Nat /\ UINT16_MOD > 0
  BY GraphicsAssumption
<1>2. n % UINT16_MOD \in 0 .. UINT16_MOD - 1
  BY <1>1
<1>3. CASE n < UINT16_MOD
  BY <1>1, <1>3 DEF UInt16
<1>4. CASE n >= UINT16_MOD
  BY <1>1, <1>2, <1>4 DEF UInt16
<1> QED BY <1>1, <1>3, <1>4

(* A rectangle no wider than the screen is drawn inside the frame buffer,  *)
(* wherever it starts and however its corners wrap: the rows go down by at *)
(* most a row of the screen each, and never up.                            *)
LEMMA RectangleInside ==
  ASSUME NEW x \in Nat, NEW y \in Nat, NEW width \in Nat, NEW height \in Nat,
         width <= horizontalResolution
  PROVE  \A r \in drawRectangle(x, y, width, height) : Inside(r)
<1> DEFINE H  == horizontalResolution
           V  == verticalResolution
           x1 == ClipStart(x, H)
           y1 == ClipStart(y, V)
           x2 == ClipEnd(UInt16(x + width), H)
           y2 == ClipEnd(UInt16(y + height), V)
           n  == x2 - x1 + 1
           down == Advance(n, width)
<1>1. H \in Nat \ {0} /\ V \in Nat \ {0} /\ UINT16_MOD \in Nat \ {0}
  BY GraphicsAssumption
<1>2. SUFFICES ASSUME x2 >= x1, NEW k \in 0 .. y2 - y1
               PROVE  Inside(Run(H * y1 + x1 + k * down, n))
  BY DEF drawRectangle
<1>3. /\ x1 \in 0 .. H - 1 /\ y1 \in 0 .. V - 1
      /\ x2 \in 0 .. H - 1 /\ y2 \in 0 .. V - 1
  <2>1. UInt16(x + width) \in Nat /\ UInt16(y + height) \in Nat
    BY UInt16Bounds
  <2> QED BY <1>1, <2>1 DEF ClipStart, ClipEnd
<1>4. n \in Int /\ 1 <= n /\ n <= width + 1
  <2>1. UInt16(x + width) \in Nat /\ UInt16(x + width) <= x + width
    BY UInt16Bounds
  <2>2. CASE x < H
    BY <1>1, <1>2, <1>3, <2>1, <2>2 DEF ClipStart, ClipEnd
  <2>3. CASE x >= H
    BY <1>1, <1>2, <1>3, <2>3 DEF ClipStart
  <2> QED BY <1>1, <2>2, <2>3
<1>5. down \in Nat /\ down <= H
  <2> HIDE DEF n
  <2> QED BY <1>1, <1>4 DEF Advance
<1> HIDE DEF H, V, x1, y1, x2, y2, n, down
<1>6. /\ k * down \in Nat /\ k * down <= H * k /\ H * k \in Int
  BY <1>1, <1>3, <1>5
<1>7. /\ H * y1 \in Nat /\ H * k \in Int /\ H * V \in Int
      /\ H * y1 + H * k <= H * V - H
  <2>1. H * y1 + k * H = H * (y1 + k) /\ H * y1 \in Int /\ k * H \in Int
    BY <1>1, <1>3, RowsAdd
  <2>2. H * (y1 + k) <= H * (V - 1) /\ H * (V - 1) = H * V - H
    <3>1. y1 + k \in Int /\ V - 1 \in Int /\ y1 + k <= V - 1 /\ V \in Int
      BY <1>1, <1>3
    <3> QED BY <1>1, <3>1, ProductOrder
  <2>3. H * y1 >= 0 /\ H * V \in Int /\ H * k = k * H
    BY <1>1, <1>3
  <2> QED BY <1>1, <1>3, <2>1, <2>2, <2>3
<1>8. n = x2 - x1 + 1
  BY DEF n
<1>9. /\ H * y1 + x1 + k * down \in Int /\ 0 <= H * y1 + x1 + k * down
      /\ H * y1 + x1 + k * down + n - 1 \in Int
      /\ H * y1 + x1 + k * down + n - 1 < H * V
  BY <1>1, <1>3, <1>4, <1>6, <1>7, <1>8
<1> QED
  BY <1>9 DEF Inside, Run, H, V
=============================================================================
