------------------------------ MODULE EfiTables ------------------------------
(***************************************************************************)
(* The functions of gnu-efi that read tables: those that somebody else     *)
(* wrote, the partitions of a disk (ValidMBR in misc.c), the firmware's    *)
(* system description (smbios.c), configuration tables and strings in a    *)
(* language (misc.c) and the system table of the ia64's firmware           *)
(* (salpal.c); and its own, of the names of status codes (error.c) and of  *)
(* line graphics (boxdraw.c).  Also packed decimal digits (rtstr.c),       *)
(* checksums (crc.c) and devices by path (dpath.c, hw.c).                  *)
(***************************************************************************)
EXTENDS Integers, Sequences, SequencesExt, FiniteSetsExt, Bitwise, TLC, EfiAnswer

CONSTANTS
  UINT32_MOD,                                   \* 2^32
  MIN_MBR_DEVICE_SIZE, MBR_ERRATA_PAD,
  Masters, LastBlocks,   \* the partition tables, and the disks they are on
  FULL,                  \* the Length, 0x19, of a type 1 record with a serial
  Records, MaxRecords,   \* what system descriptions are made of
  NULL,
  BYTE_BITS, POLYNOMIAL  \* of the checksum, two bytes wide: 8 and 0xEDB88320

EfiTablesAssumption ==
  /\ MaxRecords \in Nat /\ FULL \in Nat
  /\ {UINT32_MOD, BYTE_BITS} \subseteq Nat \ {0, 1}
  /\ POLYNOMIAL \in 4 ^ BYTE_BITS \div 2 .. 4 ^ BYTE_BITS - 1     \* the x^0 term

-----------------------------------------------------------------------------
(* ValidMBR: a partition is [start, size]; one of size or kind 0 is unused *)
MBR_SIGNATURE == "55 AA"
Used(p) == p.size # 0
EndingLBA(p) == (p.start + p.size - 1) % UINT32_MOD
BeyondDisk(p, last) ==
  EndingLBA(p) > last /\ (last < MIN_MBR_DEVICE_SIZE \/ EndingLBA(p) > last + MBR_ERRATA_PAD)
Within(lba, p) == lba >= p.start /\ lba <= EndingLBA(p)
Overlap_start(p, q) == Within(q.start, p)             \* mutant of Overlap
Overlap(p, q)       == Within(q.start, p) \/ Within(EndingLBA(q), p)
ValidMBR(Mbr, last) ==
  LET p == Mbr.Partition
      used == {i \in DOMAIN p : Used(p[i])}
  IN  /\ Mbr.Signature = MBR_SIGNATURE /\ used # {}
      /\ \A i \in used : ~ BeyondDisk(p[i], last)
      /\ \A i, j \in used : i < j => ~ Overlap(p[i], p[j])

(* Packed decimal, in an 8-bit integer                                     *)
DecimaltoBCD(d) == (d - 10 * (d \div 10) + 16 * (d \div 10)) % 256
BCDtoDecimal(b) == (b - 16 * (b \div 16) + 10 * (b \div 16)) % 256

-----------------------------------------------------------------------------
(* LibGetSmbiosString: a record in memory is its type, its Length, what    *)
(* else is formatted, and its strings, each ended by 0, and one 0 more.    *)
(* The string asked for is returned by its address, or 0 for NULL.         *)
EndOfString[m \in Seq(Nat), s \in Nat] == IF m[s] = 0 THEN s ELSE EndOfString[m, s + 1]
ALL == 65535
UNSET == <<-1>>                       \* the serial number is left as it was
NthString[m \in Seq(Nat), s \in Nat, n \in Nat] ==
  IF n <= 1 THEN [string |-> IF n = 0 THEN 0 ELSE s, next |-> 0]
  ELSE LET after == EndOfString[m, s] + 1
       IN  IF m[after] = 0 THEN [string |-> 0, next |-> after + 1]
           ELSE NthString[m, after, n - 1]
LibGetSmbiosString(m, raw, n) == NthString[m, raw + m[raw + 1], n]

(* LibGetSmbiosSystemGuidAndSerialNumber: it says that it succeeded in     *)
(* every case, and stays at a record that is too short until the count of  *)
(* the loop runs out.                                                      *)
TooShort(m, raw)       == m[raw + 1] < FULL
Found(m, length) ==
  LET search[raw \in Nat, Index \in Nat] ==
        IF Index >= length THEN UNSET
        ELSE IF m[raw] = 1
             THEN IF TooShort(m, raw) THEN search[raw, Index + 1]
                  ELSE LET s == LibGetSmbiosString(m, raw, m[raw + 2]).string
                       IN  IF s = 0 THEN <<>> ELSE SubSeq(m, s, EndOfString[m, s] - 1)
             ELSE LET next == LibGetSmbiosString(m, raw, ALL).next
                  IN  IF next - 1 >= length THEN UNSET ELSE search[next, Index + 1]
  IN  search[1, 0]

-----------------------------------------------------------------------------
(* StatusToString: an error is [error, number]; the text of one without a  *)
(* name is the lower half of the code, where no error shows.               *)
ErrorCodeTable ==
  <<<<FALSE, 0>>>> \o [i \in 1 .. 28 |-> <<TRUE, i>>] \o <<<<TRUE, 31>>, <<TRUE, 32>>, <<TRUE, 33>>>>
  \o [i \in 1 .. 4 |-> <<FALSE, i>>]
StatusToString(Status) ==
  IF Contains(ErrorCodeTable, Status) THEN <<"name", SelectInSeq(ErrorCodeTable, LAMBDA c : c = Status)>>
  ELSE <<"%X", Status[2] % UINT32_MOD>>

(* The graphics, by the lower byte of their number, and what they become   *)
(* on other terminals; arrows are on a page of their own.                  *)
Unicode ==
  <<0, 2, 12, 16, 20, 24, 28, 36, 44, 52, 60, 80, 81, 82, 83, 84, 85, 86, 87, 88, 89, 90, 91, 92, 93,
    94, 95, 96, 97, 98, 99, 100, 101, 102, 103, 104, 105, 106, 107, 108, 136, 145, 178, 186, 188, 196,
    145, 147>>
PcAnsi ==
  <<196, 179, 218, 191, 192, 217, 195, 180, 194, 193, 197, 205, 186, 213, 214, 201, 184, 183, 187, 212,
    211, 200, 190, 189, 188, 198, 199, 204, 181, 182, 185, 209, 210, 203, 207, 208, 202, 216, 215, 206,
    219, 176, 30, 16, 31, 17, 24, 25>>
Pages == <<33, 37>>
UnicodeToPcAnsi ==
  [i \in DOMAIN Unicode |-> [Unicode |-> <<IF i <= 46 THEN 37 ELSE 33, Unicode[i]>>, PcAnsi |-> PcAnsi[i]]]
LibIsValidTextGraphics(Graphic) ==
  LET Table == SelectInSeq(UnicodeToPcAnsi, LAMBDA t : t.Unicode = Graphic)
  IN  IF Contains(Pages, Graphic[1]) /\ Table # 0 THEN UnicodeToPcAnsi[Table].PcAnsi ELSE NULL
IsValidAscii(Ascii) == Ascii >= 32 /\ Ascii <= 127
IsValidEfiCntlChar(c) == c \in {0, 8, 10, 13}

-----------------------------------------------------------------------------
(* A table with a header: its checksum apart from its other bytes.         *)
BYTE == 2 ^ BYTE_BITS
WORD == BYTE * BYTE
Remainder(i) ==
  FoldLeft(LAMBDA r, k : IF r % 2 = 1 THEN (r \div 2) ^^ POLYNOMIAL ELSE r \div 2, i, [k \in 1 .. BYTE_BITS |-> k])
CRCTable == [i \in 0 .. BYTE - 1 |-> Remainder(i)]
CalculateCrc(bytes) ==
  FoldLeft(LAMBDA Crc, pt : (Crc \div BYTE) ^^ CRCTable[(Crc % BYTE) ^^ pt], WORD - 1, bytes) ^^ (WORD - 1)
OverHeader(Hdr, Size) == CalculateCrc(<<0, 0>> \o SubSeq(Hdr.bytes, 1, Size))
SetCrcAltSize(Size, Hdr) == [Hdr EXCEPT !.CRC32 = OverHeader(Hdr, Size)]
SetCrc(Hdr) == SetCrcAltSize(Hdr.HeaderSize, Hdr)
CheckCrcAltSize(MaxSize, Size, Hdr) ==
  Size # 0 /\ (MaxSize = 0 \/ Size <= MaxSize) /\ Hdr.CRC32 = OverHeader(Hdr, Size)
CheckCrc(MaxSize, Hdr) == CheckCrcAltSize(MaxSize, Hdr.HeaderSize, Hdr)

-----------------------------------------------------------------------------
(* Devices: the protocols at each path.  LocateDevicePath finds the        *)
(* nearest device on the way that has the protocol.                        *)
LocateDevicePath(devices, Protocol, path) ==
  LET on == {n \in 0 .. Len(path) : LET p == SubSeq(path, 1, n)
                                    IN  p \in DOMAIN devices /\ Protocol \in devices[p]}
  IN  IF on = {} THEN NULL ELSE SubSeq(path, 1, Max(on))
LibDevicePathToInterface(devices, Protocol, FilePath) ==
  IF LocateDevicePath(devices, Protocol, FilePath) = FilePath THEN <<FilePath, Protocol>> ELSE NULL

LOAD_ERROR == <<>>
InitializeGlobalIoDevice(devices, Protocol, DevicePath) ==
  IF LocateDevicePath(devices, Protocol, DevicePath) # NULL THEN LOAD_ERROR
  ELSE LET Handle == LocateDevicePath(devices, "DeviceIo", DevicePath)
       IN  IF Handle = NULL THEN NULL ELSE <<Handle>>

(* A read of Width bytes of four: the others are what Data had in it.      *)
ReadPort(Width, port, Data) == [i \in 1 .. 4 |-> IF i <= Width THEN port[i] ELSE Data[i]]
ReadPciConfig(Width, register, Data) == ReadPort(Width, register, Data)
WritePort(Width, Data, port) == [i \in 1 .. 4 |-> IF i <= Width THEN Data[i] ELSE port[i]]
WritePciConfig(Width, Data, register) == WritePort(Width, Data, register)

-----------------------------------------------------------------------------
LibGetSystemConfigurationTable(ConfigurationTable, TableGuid) ==
  LET Index == SelectInSeq(ConfigurationTable, LAMBDA t : t[1] = TableGuid)
  IN  IF Index = 0 THEN NULL ELSE ConfigurationTable[Index][2]

(* Ui is what HandleProtocol finds, its strings by type, or NULL.  Of the  *)
(* strings of a type only the first is looked at, over and over.           *)
Endless == "endless"
DevicePathStr == "device path"
LibGetUiString(Ui, StringType, LangCode, ReturnDevicePathStrOnMismatch) ==
  LET strings == IF Ui = NULL THEN <<>> ELSE Ui[StringType]
  IN  IF strings = <<>> THEN IF ReturnDevicePathStrOnMismatch THEN DevicePathStr ELSE NULL
      ELSE IF strings[1].LangCode = LangCode THEN strings[1].UiString ELSE Endless

(* The firmware's table: a count and entries.  Those about memory follow   *)
(* the first; their search looks at no count and may leave the table.      *)
ENTRY_POINT == 0
MEMORY_DESCRIPTOR == 1
AP_WAKEUP == 5
IPI_BLOCK == 2
IO_PORT_MAPPING == 3
Beyond == <<>>
Descriptor(entries, MemoryType) ==
  LET stop == SelectInSeq(Tail(entries), LAMBDA e : e.Type # MEMORY_DESCRIPTOR \/ e.MemoryType = MemoryType)
      found == Tail(entries)[stop]
  IN  IF entries[1].Type # ENTRY_POINT THEN NULL
      ELSE IF stop = 0 THEN Beyond
      ELSE IF found.Type = MEMORY_DESCRIPTOR THEN <<found.value>> ELSE NULL
LibGetSalIoPortMapping(entries) == Descriptor(entries, IO_PORT_MAPPING)
LibGetSalIpiBlock(entries) == Descriptor(entries, IPI_BLOCK)

(* An entry of no known type is not passed over.                           *)
SalEntrySizes == 0 :> 48 @@ 1 :> 32 @@ 2 :> 16 @@ 3 :> 32 @@ 4 :> 16 @@ 5 :> 16
LibSearchSalSystemTable(EntryCount, entries, EntryType) ==
  LET looked == SubSeq(entries, 1, EntryCount)
      stop == SelectInSeq(looked, LAMBDA e : e.Type = EntryType \/ e.Type \notin DOMAIN SalEntrySizes)
  IN  IF stop = 0 \/ looked[stop].Type # EntryType THEN NULL ELSE looked[stop]
LibGetSalWakeupVector(EntryCount, entries) ==
  LET ApWakeUp == LibSearchSalSystemTable(EntryCount, entries, AP_WAKEUP)
  IN  IF ApWakeUp = NULL THEN -1 ELSE ApWakeUp.value

(* Both entry points are set or none is.                                   *)
LibInitSalAndPalProc(entries) == entries # <<>> /\ entries[1].Type = ENTRY_POINT
LibSalProc(initialised) == IF initialised THEN "SAL" ELSE "-3"
LibPalProc(initialised, Arg1) ==
  IF ~initialised THEN "-3"
  ELSE IF Arg1 \in 255 .. 511 \/ Arg1 \in 768 .. 1023 THEN "stacked" ELSE "static"

-----------------------------------------------------------------------------
Bytes(r) ==
  <<r.type, r.Length>> \o (IF r.Length < FULL THEN <<>> ELSE <<r.serial>>)
  \o FlattenSeq([i \in DOMAIN r.strings |-> r.strings[i] \o <<0>>])
  \o (IF r.strings = <<>> THEN <<0, 0>> ELSE <<0>>)
Memory(rs) == FlattenSeq([i \in DOMAIN rs |-> Bytes(rs[i])])

UpTo(n, S) == UNION {[1 .. k -> S] : k \in 0 .. n}
Headers == [CRC32 : {0}, HeaderSize : 0 .. 3, bytes : [1 .. 3 -> {0, 1, BYTE - 1}]]
Statuses == BOOLEAN \X (0 .. 40)
LocateNodes == {"p", "q"}
Devices == [{<<>>, <<"p">>, <<"p", "q">>} -> SUBSET {"DeviceIo", "own"}]
Types == {ENTRY_POINT, MEMORY_DESCRIPTOR, AP_WAKEUP, 9}
Entries == {e \in [Type : Types, MemoryType : {0, IPI_BLOCK, IO_PORT_MAPPING}, value : 7 .. 8] :
              e.Type # MEMORY_DESCRIPTOR => e.MemoryType = 0}
Strings == UpTo(2, [LangCode : {"en", "fr"}, UiString : {"a", "b"}])

AskedTables ==
  \/ \E mbr \in Masters, last \in LastBlocks : Ask("mbr", <<mbr, last>>, <<ValidMBR(mbr, last)>>)
  \/ \E n \in 1 .. MaxRecords : \E rs \in [1 .. n -> Records] :
       \E length \in 1 .. Len(Memory(rs)) :    \* it may be stated too small
         Ask("smbios", <<rs, length>>, Found(Memory(rs), length))
  \/ \E d \in 0 .. 255 : Ask("bcd", <<d>>, <<BCDtoDecimal(DecimaltoBCD(d))>>)
AskedLookup ==
  \/ Ask("status", <<>>, [s \in Statuses |-> StatusToString(s)])
  \/ Ask("graphics", <<>>, [g \in {33, 37} \X (0 .. 255) |-> LibIsValidTextGraphics(g)])
  \/ Ask("characters", <<>>, [c \in 0 .. 128 |-> <<IsValidAscii(c), IsValidEfiCntlChar(c)>>])
  \/ \E Hdr \in Headers, MaxSize \in 0 .. 3 :
       LET set == SetCrc(Hdr)
       IN  Ask("crc", <<Hdr, MaxSize>>,
               [i \in 1 .. 3, b \in 0 .. BYTE - 1 |-> CheckCrc(MaxSize, [set EXCEPT !.bytes[i] = b])])
  \/ \E devices \in Devices, path \in {<<"p", "q">>, <<"p">>, <<"q">>} :
       Ask("device", <<devices, path>>,
           <<LibDevicePathToInterface(devices, "own", path), InitializeGlobalIoDevice(devices, "own", path)>>)
  \/ \E Width \in {1, 2, 4}, port, Data \in [1 .. 4 -> 0 .. 1] :
       Ask("port", <<Width, port, Data>>,
           <<ReadPort(Width, port, Data), WritePciConfig(Width, port, Data)>>)
  \/ \E tables \in UpTo(3, {"sal", "acpi"} \X (1 .. 2)) :
       Ask("table", <<tables>>, LibGetSystemConfigurationTable(tables, "sal"))
  \/ \E ui \in [1 .. 2 -> Strings] \union {NULL}, type \in 1 .. 2, path \in BOOLEAN :
       Ask("string", <<ui, type, path>>, <<LibGetUiString(ui, type, "en", path)>>)
  \/ \E e \in UpTo(3, Entries) :
       \/ /\ e # <<>>
          /\ Ask("memory", <<e>>, <<LibGetSalIoPortMapping(e), LibGetSalIpiBlock(e)>>)
       \/ \E n \in 0 .. Len(e) : Ask("wakeup", <<e, n>>, LibGetSalWakeupVector(n, e))
  \/ \E e \in UpTo(1, Entries), Arg1 \in {254, 255, 511, 512, 767, 768, 1023, 1024} :
       LET on == LibInitSalAndPalProc(e)
       IN  Ask("call", <<e, Arg1>>, <<LibSalProc(on), LibPalProc(on, Arg1)>>)
Next ==
  \/ question = "none" /\ (AskedTables \/ AskedLookup)
  \/ Again
Spec == Init /\ [][Next]_asked

-----------------------------------------------------------------------------
(* A partition table is taken for valid exactly when it is signed and its  *)
(* partitions lie on the disk, or not far behind what is said to be its    *)
(* end, and are apart, or one contains an earlier one, which the check of  *)
(* both ends of the later one misses.  It says nothing if an end overflows.*)
Blocks(p) == p.start .. p.start + p.size - 1
Wraps(mbr) == \E i \in DOMAIN mbr : Used(mbr[i]) /\ mbr[i].start + mbr[i].size > UINT32_MOD
Room(last) == IF last < MIN_MBR_DEVICE_SIZE THEN last ELSE last + MBR_ERRATA_PAD
MbrExact ==
  question = "mbr" =>
    LET mbr  == subject[1].Partition
        used == {i \in DOMAIN mbr : Used(mbr[i])}
        Apart(i, j) == Blocks(mbr[i]) \cap Blocks(mbr[j]) = {}
        Hidden(i, j) == mbr[j].start < mbr[i].start /\ EndingLBA(mbr[j]) > EndingLBA(mbr[i])
    IN  ~ Wraps(mbr) =>
          (answer[1] <=>
             /\ subject[1].Signature = MBR_SIGNATURE /\ used # {}
             /\ \A i \in used : Blocks(mbr[i]) \subseteq 0 .. Room(subject[2])
             /\ \A i, j \in used : i < j => Apart(i, j) \/ Hidden(i, j))

(* The serial number is that of the first type 1 record, and is not set if *)
(* that record is too short, or begins behind the length stated.           *)
First(rs) == CHOOSE i \in DOMAIN rs : rs[i].type = 1 /\ \A j \in 1 .. i - 1 : rs[j].type # 1
SerialExact ==
  question = "smbios" =>
    LET rs == subject[1]
        none == \A i \in DOMAIN rs : rs[i].type # 1
        r == rs[First(rs)]
        start == Len(Memory(SubSeq(rs, 1, First(rs) - 1)))
    IN  answer = IF none \/ start >= subject[2] \/ r.Length < FULL THEN UNSET
                 ELSE IF r.serial \in DOMAIN r.strings THEN r.strings[r.serial] ELSE <<>>

(* A number survives packing, a decimal digit in each half of a byte, even *)
(* where its tens are no digit, as long as they fit in the upper half.     *)
DecimalExact == question = "bcd" => (answer = subject <=> subject[1] < 160)

(* Codes that have a name have one of their own.  Without one, an error    *)
(* reads like the warning of its number.                                   *)
StatusTold ==
  question = "status" =>
    \A s, t \in Statuses :
      s # t /\ answer[s] = answer[t] =>
        /\ answer[s][1] = "%X"
        /\ s[2] % UINT32_MOD = t[2] % UINT32_MOD

(* No two graphics become the same character of a PC, and none a character *)
(* that is printed or obeyed as such.                                      *)
GraphicsApart ==
  /\ question = "graphics" =>
       /\ Cardinality({g \in DOMAIN answer : answer[g] # NULL}) = Len(Unicode)
       /\ \A g, h \in DOMAIN answer : answer[g] = answer[h] /\ answer[g] # NULL => g = h
       /\ \A g \in DOMAIN answer :
            answer[g] # NULL => ~IsValidAscii(answer[g]) /\ ~IsValidEfiCntlChar(answer[g])
  /\ question = "characters" => \A c \in DOMAIN answer : answer[c] # <<TRUE, TRUE>>

(* A table passes with the checksum set for it and no longer when one byte *)
(* of what is stated to belong to it changes; one of size 0 never passes.  *)
ChecksumExact ==
  question = "crc" =>
    LET Hdr == subject[1]  Size == Hdr.HeaderSize IN
    \A i \in 1 .. 3, b \in 0 .. BYTE - 1 :
      answer[i, b] <=> /\ Size # 0 /\ (subject[2] = 0 \/ Size <= subject[2])
                       /\ i <= Size => b = Hdr.bytes[i]

(* An interface is that of the path itself.  A device counts as loaded     *)
(* also if only one on the way to it is; otherwise the nearest one gives   *)
(* access.  A narrow access leaves the rest as it was: what is read has    *)
(* then bytes that nobody set.                                             *)
Has(devices, p, Protocol) == p \in DOMAIN devices /\ Protocol \in devices[p]
Before(path) == {SubSeq(path, 1, n) : n \in 0 .. Len(path)}
DevicesFound ==
  /\ question = "device" =>
       LET devices == subject[1]  path == subject[2] IN
       /\ (answer[1] = NULL) = ~Has(devices, path, "own")
       /\ (answer[2] = LOAD_ERROR) = (\E p \in Before(path) : Has(devices, p, "own"))
       /\ answer[2] \notin {NULL, LOAD_ERROR} =>
            /\ Has(devices, answer[2][1], "DeviceIo")
            /\ \A p \in Before(path) : Has(devices, p, "DeviceIo") => Len(p) <= Len(answer[2][1])
  /\ question = "port" =>
       \A i \in 1 .. 4 :
         IF i <= subject[1] THEN answer[1][i] = subject[2][i] /\ answer[2][i] = subject[2][i]
         ELSE answer[1][i] = subject[3][i] /\ answer[2][i] = subject[3][i]

(* The comment at the end of ValidMBR: "Non of the regions overlapped so   *)
(* MBR is O.K."  Not even where no end overflows.                          *)
NoneOverlap ==
  question = "mbr" /\ answer[1] /\ ~ Wraps(subject[1].Partition) =>
    LET mbr == subject[1].Partition
    IN  \A i, j \in DOMAIN mbr :
          i # j /\ Used(mbr[i]) /\ Used(mbr[j]) => Blocks(mbr[i]) \cap Blocks(mbr[j]) = {}

(* LibGetUiString's comment: "Search for the match".  A search ends.       *)
SearchEnds == question = "string" => answer # <<Endless>>

(* Of several tables or strings the first counts; a string after one in    *)
(* another language is never reached, and the search never ends.  Where    *)
(* there are no strings the device's path stands in, if it was asked for.  *)
FirstFound ==
  /\ question = "table" =>
       LET mine == {i \in DOMAIN subject[1] : subject[1][i][1] = "sal"}
       IN  IF mine = {} THEN answer = NULL ELSE answer = subject[1][Min(mine)][2]
  /\ question = "string" =>
       LET strings == IF subject[1] = NULL THEN <<>> ELSE subject[1][subject[2]]
           mine == {i \in DOMAIN strings : strings[i].LangCode = "en"}
       IN  /\ answer = <<Endless>> <=> strings # <<>> /\ 1 \notin mine
           /\ answer = <<DevicePathStr>> <=> strings = <<>> /\ subject[3]
           /\ answer = <<NULL>> <=> strings = <<>> /\ ~ subject[3]
           /\ 1 \in mine => answer = <<strings[1].UiString>>

(* What the table says of memory is found if nothing but memory comes      *)
(* before it; the search leaves a table that ends with memory.  A wakeup   *)
(* vector is found unless an unknown entry or the count hides it.  The     *)
(* firmware's procedures are called only if the table begins as it should. *)
OfMemory(e, t) == e.Type = MEMORY_DESCRIPTOR /\ e.MemoryType = t
FirmwareTableExact ==
  LET e == subject[1]
      told(r, t) ==
        r \notin {NULL, Beyond} =>
          \E i \in 2 .. Len(e) :
            /\ OfMemory(e[i], t) /\ r = <<e[i].value>>
            /\ \A j \in 2 .. i - 1 : e[j].Type = MEMORY_DESCRIPTOR /\ ~OfMemory(e[j], t)
      lost(r, t) == r = NULL /\ e[1].Type = ENTRY_POINT =>
                      \E i \in 2 .. Len(e) : e[i].Type # MEMORY_DESCRIPTOR
                                             /\ \A j \in 2 .. i - 1 : ~OfMemory(e[j], t)
  IN  /\ question = "memory" =>
           /\ told(answer[1], IO_PORT_MAPPING) /\ lost(answer[1], IO_PORT_MAPPING)
           /\ told(answer[2], IPI_BLOCK) /\ lost(answer[2], IPI_BLOCK)
           /\ Beyond \in ToSet(answer) => Last(e).Type = MEMORY_DESCRIPTOR \/ Len(e) = 1
      /\ question = "wakeup" /\ answer = -1 =>
           \A i \in 1 .. subject[2] :
             e[i].Type = AP_WAKEUP => \E j \in 1 .. i - 1 : e[j].Type \notin DOMAIN SalEntrySizes
      /\ question = "call" =>
           (answer[1] = "-3") = (answer[2] = "-3")

TablesExact ==
  /\ MbrExact /\ SerialExact /\ DecimalExact
  /\ StatusTold /\ GraphicsApart /\ ChecksumExact /\ DevicesFound /\ FirstFound /\ FirmwareTableExact
=============================================================================
