SPECIFICATION ProgramSpec
CONSTANTS
  IDT_SIZE = 48
  Spurious <- MCSpurious
  Keys <- MCOneKey
  LeftShift = 42
  RightShift = 54
  keyboard_us <- MCOneScancode
  to_upper <- MCUpper
  FifoSize = 1
  VGA_WIDTH = 2
  VGA_HEIGHT = 1
  SIZE_MOD = 9
  Glyphs <- MCGlyphs
  Space = " "
  Newline = "nl"
  BYTE = 3
  BiosCursor = 2
  CursorHome = 5
  TIMER_PHASE_HZ = 2
  INT_MAX = 2
  Welcome <- MCWelcome
  TimerLine <- MCTimerLine
  TimeLine <- MCTimeLine
  NULL = NULL
  horizontalResolution = 1024
  verticalResolution = 768
  UINT16_MOD = 65536
  GLYPH = 8
  Modes <- MCModes
  MaxModes = 2
  MaxKeys = 2
INVARIANTS
  CursorConfigured
  DrawsOnScreen
  HaltExplained
  KeyIsFresh
PROPERTY KeysGetRead
