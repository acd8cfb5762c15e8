SPECIFICATION ConsoleSpec
CONSTANTS
  VGA_WIDTH = 2
  VGA_HEIGHT = 3
  SIZE_MOD = 64
  Glyphs = {a, b, blank}
  Space = blank
  Newline = newline
  MaxErased = 8
  ErasesAcrossRows = TRUE
INVARIANT NeverBelowStart
