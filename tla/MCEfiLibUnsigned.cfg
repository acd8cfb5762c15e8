SPECIFICATION LibSpec
CONSTANTS
  Tasks = {"app", "callback", "notify", "high"}
  App = "app"
  Users = {"app", "callback", "notify"}
  TplOf <- MCTplOf
  Tpl = 3
  NULL = NULL
  Protocols = {"p", "q"}
  Interfaces = {"a", "b"}
  MaxList = 2
  APPLICATION = 1
  TPL_NOTIFY = 3
  Nodes <- MCNodes
  HEADER = 4
  ALIGNMENT = 4
  Paths <- MCPaths
  Items = {1, 2}
  Matching = {2}
  FIRST = 1
  MaxLen = 3
  MaxNodes = 2
  Sizes = {0, 1, 3}
  UINTN_MOD = 8
  Segments <- MCSegments
  MaxSegments = 2
  PRINT_STRING_LEN = 3
  Earlier <- MCEarlier
  Limits = {0, 3}
  START = 1
  NORM = 7
  HIGHLIGHT = 15
  Characters = {"a", "b"}
  MaxKeys = 2
  MaxTaken = 3
  StrLens = {1, 3}
  VALUE_MOD = 4096
  MAX_CMDLINE_ARGC = 3
  Numerals <- MCNumerals
  Lines <- MCLines
  Subjects <- MCSubjects
  Elements <- MCElements
  MaxElements = 3
  UINT32_MOD = 8
  MIN_MBR_DEVICE_SIZE = 4
  MBR_ERRATA_PAD = 2
  Masters <- MCMasters
  LastBlocks = {2, 4, 7}
  FULL = 3
  Records <- MCRecords
  MaxRecords = 3
  Words = {1, 2, 3}
  ldbase = 10
  MAX_FUNCTION_DESCRIPTORS = 1
  MaxEntries = 2
  MaxLinks = 3
  HALF = 8
  Halves = {0, 1, 2, 3, 7, 16, 63, 64, 100, 127, 128, 129, 200, 254, 255}
  BYTE_BITS = 3
  POLYNOMIAL = 44
  MEMORY = 4
  DENOMINATOR = 8
  LINE = 2
  Dividends = {0,1,2,7,8,15,16,63,64,255,256,1000,4095,4096,65535,1000000,67108862,67108863}
  Divisors = {1,2,3,7,8,63,64,100,4095,4096,65536,67108863}
  Copies = {"c1", "c2"}
  MaxHellos = 2
  MAX_NUM_PAGES = 20
  MAX_ADDR = 100
  Typed = {0, 1, 2, 3, 13, 14, 20, 21, 100, 101, 2047, 2048, 4095, 4098}
  NAME = 2
INVARIANT UnsignedDecimal
