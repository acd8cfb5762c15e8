SPECIFICATION BareSpec
CONSTANTS
  VGA_WIDTH = 2
  VGA_HEIGHT = 3
  SIZE_MOD = 64
  Glyphs <- MCGlyphs
  Space = " "
  Newline = "nl"
  MaxErased = 8
  ErasesAcrossRows = FALSE
  FirstLine <- MCFirst
  LastLine <- MCLast
  Keys <- MCKeys
  Extended <- MCCursor
  Cursor <- MCCursor
  LeftShift = 42
  RightShift = 54
  keyboard_us <- MCScancode
  to_upper <- MCUpper
  FifoSize = 3
  INT_MAX = 127
  TIMER_PHASE_HZ = 3
  TICKS_IN_MINUTES = 12
  TICKS_IN_HOUR = 60
  MaxElapsed = 127
  Values <- MCValues
  Bases <- MCBases
  Minus = 45
  horizontalResolution = 4
  verticalResolution = 3
  UINT16_MOD = 16
  GLYPH = 2
  Xs <- MCXs
  Ys <- MCYs
  Sizes <- MCSizes
  Nothing = Nothing
  ENTRIES = 64
  NoPage = NoPage
  KERNEL_PAGE = 0
  IDT_SIZE = 48
  Raisable = {0, 1, 8}
  Spurious = {7, 15}
  Exceptions = {2, 13}
  MaxFrames = 2
  Indices = {31, 32, 40, 48}
  Handlers = {timer, keyboard}
  NULL = NULL
INVARIANTS
  TypeOK
  IdleWhenEnabled
  OneAtATime
  InServiceMatchesFrame
  RightHandler
  PagingComplete
  FramesKept
  KernelMapped
  StepsAddUp
  BlankAhead
  ReportTorn
  KeydownTracksHeld
  ShowsElapsed
  ItoaExact
  DrawingExact
PROPERTIES
  NoResetOnceOn
  FaultIsFinal
  ImplementsIrqService
  EveryRequestServed
  StartUpEnds
  ImplementsTeletype
