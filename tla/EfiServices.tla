----------------------------- MODULE EfiServices -----------------------------
(***************************************************************************)
(* The parts of gnu-efi that call the firmware step by step, for an        *)
(* application that uses them at any time: protocols on handles, data of   *)
(* unknown size, files, keys, and what is printed.                         *)
(***************************************************************************)
EXTENDS Integers, Sequences

CONSTANTS
  NULL,
  Protocols, Interfaces, MaxList, APPLICATION, TPL_NOTIFY,        \* EfiHandles
  Items, Matching, FIRST, MaxLen,                                 \* EfiBuffers
  MaxNodes, Sizes, UINTN_MOD,                                     \* EfiFiles
  Characters, MaxKeys, MaxTaken, StrLens,                         \* EfiInput
  Segments, MaxSegments, PRINT_STRING_LEN, Earlier, Limits, START, NORM, HIGHLIGHT
                                                                  \* EfiPrint

VARIABLES
  db, opened, signalled, level, OldTpl, Handle, OldHandle, handleCall, args,
  pos, Index, handleStatus, undoing, before,
  data, pool, fresh, call, option, onlyIfEmpty, place, Status, BufferSize,
  room, Buffer, New, read,
  nodes, FilePath, SourceSize, fileAt, fileStatus, next, files, filePool,
  FileHandle, FHand, DeviceHandle, Offset, ReadSize,
  keys, timer, keyCall, Timeout, keyAt, keyStatus, Key, StrLen, InStr, length,
  screen, column, typed, taken,
  to, segs, fmt, fmtIndex, mode, Item, parse, todo, Attr, RestoreAttr, Pending,
  Written, out, str, len, maxlen, lost, had

Handles == INSTANCE EfiHandles WITH tpl <- level, call <- handleCall, Status <- handleStatus
Buffers == INSTANCE EfiBuffers WITH at <- place
Files == INSTANCE EfiFiles WITH at <- fileAt, Status <- fileStatus, pool <- filePool
Input == INSTANCE EfiInput WITH call <- keyCall, at <- keyAt, Status <- keyStatus
Printing == INSTANCE EfiPrint WITH Index <- fmtIndex, Buffer <- Pending

ASSUME EfiServicesAssumption ==
  /\ Handles!EfiHandlesAssumption /\ Buffers!EfiBuffersAssumption
  /\ Files!EfiFilesAssumption /\ Input!EfiInputAssumption
  /\ Printing!EfiPrintAssumption

handleVars == <<db, opened, signalled, level, OldTpl, Handle, OldHandle, handleCall, args,
                pos, Index, handleStatus, undoing, before>>
bufferVars == <<data, pool, fresh, call, option, onlyIfEmpty, place, Status, BufferSize,
                room, Buffer, New, read>>
fileVars   == <<nodes, FilePath, SourceSize, fileAt, fileStatus, next, files, filePool,
                FileHandle, FHand, DeviceHandle, Offset, ReadSize>>
inputVars  == <<keys, timer, keyCall, Timeout, keyAt, keyStatus, Key, StrLen, InStr, length,
                screen, column, typed, taken>>
printVars  == <<to, segs, fmt, fmtIndex, mode, Item, parse, todo, Attr, RestoreAttr, Pending,
                Written, out, str, len, maxlen, lost, had>>
servicesVars == <<handleVars, bufferVars, fileVars, inputVars, printVars>>

ServicesInit == Handles!Init /\ Buffers!Init /\ Files!Init /\ Input!Init /\ Printing!Init
ServicesNext ==
  \/ Handles!Next /\ UNCHANGED <<bufferVars, fileVars, inputVars, printVars>>
  \/ Buffers!Next /\ UNCHANGED <<handleVars, fileVars, inputVars, printVars>>
  \/ Files!Next /\ UNCHANGED <<handleVars, bufferVars, inputVars, printVars>>
  \/ Input!Next /\ UNCHANGED <<handleVars, bufferVars, fileVars, printVars>>
  \/ Printing!Next /\ UNCHANGED <<handleVars, bufferVars, fileVars, inputVars>>
ServicesSpec == ServicesInit /\ [][ServicesNext]_servicesVars

-----------------------------------------------------------------------------
(* Properties                                                              *)

(* A list of protocols is installed or replaced whole, or not at all (see  *)
(* EfiHandles).                                                            *)
AllOrNothing == Handles!AllOrNothing

(* What is fetched from the firmware is whole and nothing is left behind;  *)
(* the boot order keeps its entries (see EfiBuffers).                      *)
BuffersExact == Buffers!BuffersExact
BootOrderKept == Buffers!BootOrderKept

(* An open file is the one asked for, and is let go again (see EfiFiles).  *)
FilesExact == Files!FilesExact

(* A line is what was typed; a timeout hides no key; a wait with a timeout *)
(* of 0 ends (see EfiInput).                                               *)
LineEdited == Input!LineEdited
KeyBeatsTimeout == Input!KeyBeatsTimeout
TimedWaitEnds == Input!TimedWaitEnds

(* A format comes out as meant, wherever it is sent (see EfiPrint).        *)
PrintExact == Printing!PrintExact
=============================================================================
