----------------------------- MODULE EfiDescribe -----------------------------
(***************************************************************************)
(* The text that DevicePathToStr of gnu-efi (dpath.c) makes of a device    *)
(* path.  A node has a type and subtype, the length its header states, and *)
(* its fields under the names they have in the code.  Text is kept as the  *)
(* calls of CatPrint that make it: a format and the values put into it.    *)
(* What a value is does not matter, only whether two are told apart, and   *)
(* 0 where the code looks for it.                                          *)
(***************************************************************************)
EXTENDS Integers, Sequences, SequencesExt, TLC, EfiAnswer

CONSTANTS
  HEADER, ALIGNMENT,   \* sizeof(EFI_DEVICE_PATH) and MIN_ALIGNMENT_SIZE, 4 bytes
  UINT32_MOD           \* what %d and %x keep of a longer value

EfiDescribeAssumption == HEADER \in Nat /\ ALIGNMENT \in Nat \ {0} /\ UINT32_MOD \in Nat \ {0, 1}

HARDWARE  == 1
ACPI      == 2
MESSAGING == 3
MEDIA     == 4
BBS       == 5
END_TYPE  == 127
UNPACKED  == 128
DevicePathType(n) == n.Type % UNPACKED

(* UnpackDevicePath has padded each node and marked its type.              *)
AlignSize(size) == (ALIGNMENT - (size % ALIGNMENT)) % ALIGNMENT
Unpack(n) == [n EXCEPT !.Type = @ + UNPACKED, !.Length = @ + AlignSize(@)]

CatPrint(fmt, args) == <<<<fmt, args>>>>
Unless0(UID) == IF UID = 0 THEN <<>> ELSE CatPrint(",%d", <<UID>>)
Low32(v) == v % UINT32_MOD

-----------------------------------------------------------------------------
(* One function for each kind of node.  A few print what is not in the     *)
(* node: "elsewhere" is the memory behind it, or at an address that is not *)
(* meant as one, or the address of the node itself.                        *)
DevPathPci(f)    == CatPrint("Pci(0x%x,0x%x)", <<f.Device, f.Function>>)
DevPathPccard(f) == CatPrint("Pccard(0x%x)", <<f.FunctionNumber>>)
DevPathMemMap(f) ==
  CatPrint("MemMap(%d,0x%x,0x%x)", <<f.MemoryType, Low32(f.StartingAddress), Low32(f.EndingAddress)>>)
DevPathController(f) == CatPrint("Ctrl(%d)", <<f.Controller>>)

UnknownDevice == 2
DevPathVendor(n) ==
  LET Type == CASE DevicePathType(n) = HARDWARE -> "Hw" [] DevicePathType(n) = MESSAGING -> "Msg"
                [] DevicePathType(n) = MEDIA -> "Media"
  IN  CatPrint("Ven%s(%g", <<Type, n.f.Guid>>)
      \o IF n.f.Guid = UnknownDevice THEN CatPrint(":%02x)", <<n.f.LegacyDriveLetter>>)
         ELSE CatPrint(")", <<>>)

PNP == "PNP_EISA_ID_CONST"
AcpiNames == 769 :> "Keyboard(%d)" @@ 1025 :> "ParallelPort(%d)" @@ 1281 :> "Serial(%d)"
             @@ 1540 :> "Floppy(%d)" @@ 2563 :> "PciRoot(%d)" @@ 2568 :> "PcieRoot(%d)"
DevPathAcpi(f) ==
  IF f.Vendor = PNP /\ f.Num \in DOMAIN AcpiNames THEN CatPrint(AcpiNames[f.Num], <<f.UID>>)
  ELSE (IF f.Vendor = PNP THEN CatPrint("Acpi(PNP%04x", <<f.Num>>)
        ELSE CatPrint("Acpi(0x%X", <<f.Vendor, f.Num>>))
       \o Unless0(f.UID) \o CatPrint(")", <<>>)

DevPathAtapi(f) ==
  CatPrint("Ata(%s,%s)", <<IF f.PrimarySecondary # 0 THEN "Secondary" ELSE "Primary",
                           IF f.SlaveMaster # 0 THEN "Slave" ELSE "Master">>)
DevPathScsi(f)  == CatPrint("Scsi(%d,%d)", <<f.Pun, f.Lun>>)
DevPathFibre(f) == CatPrint("Fibre(0x%016lx,0x%016lx)", <<f.WWN, f.Lun>>)
DevPath1394(f, elsewhere) == CatPrint("1394(%g)", <<f.Guid, elsewhere>>)
DevPathUsb(f) == CatPrint("Usb(0x%x,0x%x)", <<f.Port, f.Endpoint>>)
DevPathI2O(f) == CatPrint("I2O(0x%X)", <<f.Tid>>)

(* An address of six bytes and what follows them, up to the size of the    *)
(* field; the padded node is longer, and its IfType is printed with it.    *)
ETHERNET == {0, 1}
MacSize == 32
DevPathMacAddr(n) ==
  LET HwAddressSize == IF n.f.IfType \in ETHERNET THEN 6 ELSE n.Length - HEADER - 1
  IN  CatPrint("Mac(", <<n.f.Six>>)
      \o (IF HwAddressSize > 6 THEN CatPrint("%02x", <<n.f.Rest>>) ELSE <<>>)
      \o (IF HwAddressSize > MacSize THEN CatPrint("%02x", <<n.f.IfType>>) ELSE <<>>)
      \o Unless0(n.f.IfType) \o CatPrint(")", <<>>)

CatPrintIPv4(Address) == CatPrint("%d.%d.%d.%d", <<Address>>)
IsNotNullIPv4(Address) == Address # 0
CatPrintNetworkProtocol(Proto) ==
  CASE Proto = 6 -> CatPrint("TCP", <<>>) [] Proto = 17 -> CatPrint("UDP", <<>>)
    [] OTHER -> CatPrint("%d", <<Proto>>)
SizeOfIPv4 == 28       \* 27 bytes, up to the alignment of its 16-bit fields
Comma == CatPrint(",", <<>>)
DevPathIPv4(n) ==
  LET f == n.f
      version2 == n.Length = SizeOfIPv4
      more == version2 /\ (IsNotNullIPv4(f.Gateway) \/ IsNotNullIPv4(f.SubnetMask))
      show == IsNotNullIPv4(f.Local) \/ more
  IN  CatPrint("IPv4(", <<>>) \o CatPrintIPv4(f.Remote) \o Comma
      \o CatPrintNetworkProtocol(f.Protocol)
      \o CatPrint(",%s", <<IF f.Static # 0 THEN "Static" ELSE "DHCP">>)
      \o (IF show THEN Comma \o CatPrintIPv4(f.Local) ELSE <<>>)
      \o (IF more THEN Comma \o CatPrintIPv4(f.Gateway) ELSE <<>>)
      \o (IF more /\ IsNotNullIPv4(f.SubnetMask) THEN Comma \o CatPrintIPv4(f.SubnetMask) ELSE <<>>)
      \o CatPrint(")", <<>>)

CatPrintIPv6(Address) == CatPrint("%x:%x:%x:%x:%x:%x:%x:%x", <<Address>>)
Origins == <<"Static", "StatelessAutoConfigure", "StatefulAutoConfigure">>
SizeOfIPv6 == 60
DevPathIPv6(n, elsewhere) ==
  LET f == n.f IN
  CatPrint("IPv6(", <<>>) \o CatPrintIPv6(f.Remote) \o Comma \o CatPrintNetworkProtocol(f.Protocol)
  \o CatPrint(",%s,", <<Origins[IF f.Origin < 2 THEN f.Origin + 1 ELSE 3]>>) \o CatPrintIPv6(f.Local)
  \o (IF n.Length = SizeOfIPv6
      THEN Comma \o CatPrintIPv6(f.Gateway) \o Comma \o CatPrint("%d", <<elsewhere>>) ELSE <<>>)
  \o CatPrint(")", <<>>)

(* Only padding ends a string that has no end of its own.                  *)
DevPathUri(n, elsewhere) ==
  CatPrint("Uri(%a)", IF n.Length > HEADER + n.f.Size THEN <<n.f.Uri>> ELSE <<n.f.Uri, elsewhere>>)
DevPathInfiniBand(f, elsewhere) ==
  CatPrint("Infiniband(0x%x,%g,0x%lx,0x%lx,0x%lx)",
           <<f.ResourceFlags, elsewhere, f.ServiceId, f.TargetPortId, f.DeviceId>>)

(* %c is given the rate of 0, which ends the text, and not the parity.     *)
Parities == <<"D", "N", "E", "O", "M", "S">>
Stops    == <<"D)", "1)", "1.5)", "2)">>
DevPathUart(f) ==
  (IF f.BaudRate = 0 THEN CatPrint("Uart(DEFAULT %c", <<"">>)
   ELSE CatPrint("Uart(%d %c", <<Low32(f.BaudRate), IF f.Parity < 6 THEN Parities[f.Parity + 1] ELSE "x">>))
  \o (IF f.DataBits = 0 THEN CatPrint("D", <<>>) ELSE CatPrint("%d", <<f.DataBits>>))
  \o CatPrint(IF f.StopBits < 4 THEN Stops[f.StopBits + 1] ELSE "x)", <<>>)
DevPathSata(f) ==
  CatPrint("Sata(0x%x,0x%x,0x%x)", <<f.HBAPortNumber, f.PortMultiplierPortNumber, f.Lun>>)

SIGNATURE_MBR  == 1
SIGNATURE_GUID == 2
DevPathHardDrive(f) ==
  CASE f.SignatureType = SIGNATURE_MBR -> CatPrint("HD(Part%d,Sig%08X)", <<f.PartitionNumber, f.Signature>>)
    [] f.SignatureType = SIGNATURE_GUID -> CatPrint("HD(Part%d,Sig%g)", <<f.PartitionNumber, f.Signature>>)
    [] OTHER -> CatPrint("HD(Part%d,MBRType=%02x,SigType=%02x)",
                         <<f.PartitionNumber, f.MBRType, f.SignatureType>>)
DevPathCDROM(f)         == CatPrint("CDROM(0x%x)", <<f.BootEntry>>)
DevPathFilePath(f)      == CatPrint("%s", <<f.PathName>>)
DevPathMediaProtocol(f) == CatPrint("%g", <<f.Protocol>>)
BssTypes == <<"Floppy", "Harddrive", "CDROM", "PCMCIA", "Usb", "Net">>
DevPathBssBss(f) ==
  CatPrint("Bss-%s(%a)", <<IF f.DeviceType \in DOMAIN BssTypes THEN BssTypes[f.DeviceType] ELSE "?", f.String>>)
DevPathEndInstance == Comma

(* All bytes of the node are printed from behind its header on, and so the *)
(* header of the next; the type is compared with its mark.                 *)
DevPathNodeUnknown(n, elsewhere) ==
  (CASE n.Type = HARDWARE -> CatPrint("HardwarePath(%d", <<n.SubType>>)
     [] n.Type = ACPI -> CatPrint("AcpiPath(%d", <<n.SubType>>)
     [] n.Type = MESSAGING -> CatPrint("Msg(%d", <<n.SubType>>)
     [] n.Type = MEDIA -> CatPrint("MediaPath(%d", <<n.SubType>>)
     [] n.Type = BBS -> CatPrint("BbsPath(%d", <<n.SubType>>)
     [] OTHER -> CatPrint("Path(%d,%d", <<n.Type, n.SubType>>))
  \o CatPrint(",0x%02x", <<n.f.Data, elsewhere>>) \o CatPrint(")", <<>>)

-----------------------------------------------------------------------------
DevPathTable ==
  << <<HARDWARE, 1, "Pci">>, <<HARDWARE, 2, "Pccard">>, <<HARDWARE, 3, "MemMap">>,
     <<HARDWARE, 4, "Vendor">>, <<HARDWARE, 5, "Controller">>, <<ACPI, 1, "Acpi">>,
     <<MESSAGING, 1, "Atapi">>, <<MESSAGING, 2, "Scsi">>, <<MESSAGING, 3, "Fibre">>,
     <<MESSAGING, 4, "1394">>, <<MESSAGING, 5, "Usb">>, <<MESSAGING, 6, "I2O">>,
     <<MESSAGING, 11, "MacAddr">>, <<MESSAGING, 12, "IPv4">>, <<MESSAGING, 13, "IPv6">>,
     <<MESSAGING, 24, "Uri">>, <<MESSAGING, 9, "InfiniBand">>, <<MESSAGING, 14, "Uart">>,
     <<MESSAGING, 18, "Sata">>, <<MESSAGING, 10, "Vendor">>, <<MEDIA, 1, "HardDrive">>,
     <<MEDIA, 2, "CDROM">>, <<MEDIA, 3, "Vendor">>, <<MEDIA, 4, "FilePath">>,
     <<MEDIA, 5, "MediaProtocol">>, <<BBS, 1, "BssBss">>, <<END_TYPE, 1, "EndInstance">> >>
DumpNode(n) ==
  LET Index == SelectInSeq(DevPathTable, LAMBDA e : e[1] = DevicePathType(n) /\ e[2] = n.SubType)
  IN  IF Index = 0 THEN "NodeUnknown" ELSE DevPathTable[Index][3]
Dump(n, elsewhere) ==
  LET d == DumpNode(n)
      f == n.f
  IN  CASE d = "Pci" -> DevPathPci(f) [] d = "Pccard" -> DevPathPccard(f)
        [] d = "MemMap" -> DevPathMemMap(f) [] d = "Vendor" -> DevPathVendor(n)
        [] d = "Controller" -> DevPathController(f) [] d = "Acpi" -> DevPathAcpi(f)
        [] d = "Atapi" -> DevPathAtapi(f) [] d = "Scsi" -> DevPathScsi(f)
        [] d = "Fibre" -> DevPathFibre(f) [] d = "1394" -> DevPath1394(f, elsewhere)
        [] d = "Usb" -> DevPathUsb(f) [] d = "I2O" -> DevPathI2O(f)
        [] d = "MacAddr" -> DevPathMacAddr(n) [] d = "IPv4" -> DevPathIPv4(n)
        [] d = "IPv6" -> DevPathIPv6(n, elsewhere) [] d = "Uri" -> DevPathUri(n, elsewhere)
        [] d = "InfiniBand" -> DevPathInfiniBand(f, elsewhere) [] d = "Uart" -> DevPathUart(f)
        [] d = "Sata" -> DevPathSata(f) [] d = "HardDrive" -> DevPathHardDrive(f)
        [] d = "CDROM" -> DevPathCDROM(f) [] d = "FilePath" -> DevPathFilePath(f)
        [] d = "MediaProtocol" -> DevPathMediaProtocol(f) [] d = "BssBss" -> DevPathBssBss(f)
        [] d = "EndInstance" -> DevPathEndInstance
        [] d = "NodeUnknown" -> DevPathNodeUnknown(n, elsewhere)

(* path is what comes before the node that ends everything.  Only a file   *)
(* without a name leaves the text empty.                                   *)
Slash == CatPrint("/", <<>>)
NoText == DevPathFilePath([PathName |-> 0])
Separator(Str, n) ==
  IF ToSet(Str) \subseteq ToSet(NoText) \/ DumpNode(n) = "EndInstance" THEN <<>> ELSE Slash
DevicePathToStr(path, elsewhere) ==
  FoldLeft(LAMBDA Str, n : Str \o Separator(Str, n) \o Dump(n, elsewhere), <<>>,
           [i \in DOMAIN path |-> Unpack(path[i])])

-----------------------------------------------------------------------------
(* The nodes looked at, of each kind.  Some fields are not meant to be     *)
(* told; those of version 1 of an address are 0 where it has none.         *)
Bit  == {0, 1}
Long == {1, 1 + UINT32_MOD}
Of(t, s, size, fields) == {[Type |-> t, SubType |-> s, Length |-> size, f |-> f] : f \in fields}
V1(nodes) == {[n EXCEPT !.Length = 19] : n \in {m \in nodes : m.f.Gateway = 0 /\ m.f.SubnetMask = 0}}
IPv4Nodes == Of(MESSAGING, 12, 27, [Local : Bit, Remote : Bit, Protocol : {6, 17, 1}, Static : Bit,
                                    Gateway : Bit, SubnetMask : Bit, LocalPort : Bit])
IPv6Fields == [Local : Bit, Remote : Bit, Protocol : {6, 1}, Origin : 0 .. 2, Gateway : Bit, PrefixLength : Bit]
Kinds == [
  Pci        |-> Of(HARDWARE, 1, 6, [Device : Bit, Function : Bit]),
  Pccard     |-> Of(HARDWARE, 2, 5, [FunctionNumber : Bit]),
  MemMap     |-> Of(HARDWARE, 3, 24, [MemoryType : Bit, StartingAddress : Long, EndingAddress : Long]),
  Vendor     |-> UNION {Of(ts[1], ts[2], 20, [Guid : {1}, LegacyDriveLetter : {0}])
                        \union Of(ts[1], ts[2], 21, [Guid : {UnknownDevice}, LegacyDriveLetter : Bit])
                          : ts \in {<<HARDWARE, 4>>, <<MESSAGING, 10>>, <<MEDIA, 3>>}},
  Controller |-> Of(HARDWARE, 5, 8, [Controller : Bit]),
  Acpi       |-> Of(ACPI, 1, 12, [Vendor : {PNP, "ABC"}, Num : DOMAIN AcpiNames \union {1}, UID : Bit]),
  Atapi      |-> Of(MESSAGING, 1, 8, [PrimarySecondary : Bit, SlaveMaster : Bit, Lun : Bit]),
  Scsi       |-> Of(MESSAGING, 2, 8, [Pun : Bit, Lun : Bit]),
  Fibre      |-> Of(MESSAGING, 3, 24, [WWN : Long, Lun : Long]),
  F1394      |-> Of(MESSAGING, 4, 16, [Guid : Long]),
  Usb        |-> Of(MESSAGING, 5, 6, [Port : Bit, Endpoint : Bit]),
  I2O        |-> Of(MESSAGING, 6, 8, [Tid : Bit]),
  MacAddr    |-> Of(MESSAGING, 11, 37, {f \in [Six : Bit, Rest : Bit, IfType : 0 .. 3] :
                                          f.IfType \in ETHERNET => f.Rest = 0}),
  IPv4       |-> IPv4Nodes \union V1(IPv4Nodes),
  IPv6       |-> Of(MESSAGING, 13, 60, IPv6Fields)
                 \union Of(MESSAGING, 13, 43, {f \in IPv6Fields : f.Gateway = 0 /\ f.PrefixLength = 0}),
  Uri        |-> UNION {Of(MESSAGING, 24, HEADER + size, [Uri : {2 * size, 2 * size + 1}, Size : {size}])
                          : size \in 1 .. 4},
  InfiniBand |-> Of(MESSAGING, 9, 40, [ResourceFlags : Bit, PortGid : Long, ServiceId : Long,
                                       TargetPortId : Long, DeviceId : Long]),
  Uart       |-> Of(MESSAGING, 14, 19, [BaudRate : {0} \union Long, Parity : 0 .. 5, DataBits : {0, 8},
                                        StopBits : 0 .. 3]),
  Sata       |-> Of(MESSAGING, 18, 10, [HBAPortNumber : Bit, PortMultiplierPortNumber : Bit, Lun : Bit]),
  HardDrive  |-> Of(MEDIA, 1, 42, {f \in [PartitionNumber : Bit, PartitionStart : Bit, Signature : Bit,
                                          MBRType : {1, 2}, SignatureType : 0 .. 2] :
                                     f.SignatureType = f.MBRType \/ f.SignatureType = 0}),
  CDROM      |-> Of(MEDIA, 2, 24, [BootEntry : Bit, PartitionStart : Bit]),
  FilePath   |-> Of(MEDIA, 4, 8, [PathName : 0 .. 2]),
  Protocol   |-> Of(MEDIA, 5, 20, [Protocol : Bit]),
  BssBss     |-> Of(BBS, 1, 10, [DeviceType : 1 .. 8, StatusFlag : Bit, String : Bit]),
  Unknown    |-> UNION {Of(t, 99, 6, [Data : Bit]) : t \in HARDWARE .. BBS}]
NotMeant == {"LocalPort", "PartitionStart", "StatusFlag"}
Agree(a, b) ==
  a.Type = b.Type /\ \A x \in DOMAIN a.f \ NotMeant : a.f[x] = b.f[x]

Elsewhere == 0 .. 1
Marks == {[Type |-> END_TYPE, SubType |-> 1, Length |-> HEADER, f |-> <<>>]}
Sample == Marks \union Kinds["FilePath"] \union Kinds["Pccard"]

Next ==
  \/ /\ question = "none"
     /\ \/ \E k \in DOMAIN Kinds :
             Ask("kind", <<k>>, [n \in Kinds[k], e \in Elsewhere |-> DevicePathToStr(<<n>>, e)])
        \/ \E path \in BoundedSeq(Sample, 4) : Ask("path", path, DevicePathToStr(path, 0))
  \/ Again
Spec == Init /\ [][Next]_asked

-----------------------------------------------------------------------------
(* Two nodes of a kind with the same text agree in every field that is     *)
(* meant to be told, and the text depends on nothing but the node.  Not    *)
(* so: half of each address of MemMap and of a rate is cut off, and the    *)
(* parity at the default rate; a unit of Atapi, a prefix of IPv6 and a     *)
(* port of InfiniBand are not told, nor the signature of a hard disk and   *)
(* the device of a boot entry if their type has no name.  1394, IPv6,      *)
(* InfiniBand, an address without padding (Uri) and unknown nodes show     *)
(* what happens to be in memory, and no unknown node goes by its type.     *)
Blurred  == {"MemMap", "Atapi", "IPv6", "InfiniBand", "Uart", "HardDrive", "BssBss"}
Unstable == {"F1394", "IPv6", "InfiniBand", "Uri", "Unknown"}
KindsTold ==
  question = "kind" =>
    LET k == subject[1] IN
    /\ (\A a, b \in Kinds[k] : answer[a, 0] = answer[b, 0] => Agree(a, b)) <=> k \notin Blurred
    /\ (\A n \in Kinds[k] : answer[n, 0] = answer[n, 1]) <=> k \notin Unstable
    /\ k = "Unknown" => \A n \in Kinds[k] : answer[n, 0][1][1] = "Path(%d,%d"

(* The text of a path comes apart again at "/" and ",", if all files have  *)
(* names: into instances, and these into nodes, with a "/" before each but *)
(* the very first.                                                         *)
Named(n) == n \notin Marks => Dump(Unpack(n), 0) # NoText
Between(mark, text) ==
  LET ends == SetToSortSeq({i \in DOMAIN text : <<text[i]>> = mark} \union {Len(text) + 1}, <)
  IN  [k \in DOMAIN ends |-> SubSeq(text, IF k = 1 THEN 1 ELSE ends[k - 1] + 1, ends[k] - 1)]
Instances(path) ==
  LET ends == SetToSortSeq({i \in DOMAIN path : path[i] \in Marks} \union {Len(path) + 1}, <)
  IN  [k \in DOMAIN ends |-> SubSeq(path, IF k = 1 THEN 1 ELSE ends[k - 1] + 1, ends[k] - 1)]
PathsTold ==
  question = "path" /\ (\A i \in DOMAIN subject : Named(subject[i])) =>
    LET told == Between(Comma, answer) IN
    /\ Len(told) = Len(Instances(subject))
    /\ \A k \in DOMAIN told :
         LET nodes == Instances(subject)[k]
             texts == Between(Slash, told[k])
             first == IF k = 1 /\ nodes # <<>> THEN 0 ELSE 1
         IN  /\ Len(texts) = Len(nodes) + first
             /\ first = 1 => texts[1] = <<>>
             /\ \A i \in DOMAIN nodes : texts[i + first] = Dump(Unpack(nodes[i]), 0)

DescribeExact == KindsTold /\ PathsTold
=============================================================================
