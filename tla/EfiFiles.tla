------------------------------ MODULE EfiFiles ------------------------------
(***************************************************************************)
(* The simple read files of gnu-efi (sread.c): a file that its caller has  *)
(* in memory, one found through a file system, or one loaded by a device.  *)
(* The firmware is external: each of its calls may fail.  A path is the    *)
(* sequence of nodes that follow the device it starts with.                *)
(***************************************************************************)
EXTENDS Integers, Sequences, FiniteSets

CONSTANTS
  MaxNodes,            \* bound: the nodes after the device
  Sizes,               \* the sizes that a file may have
  UINTN_MOD,           \* 2^w, w the width of UINTN
  NULL

Node == {"file", "other"}
FilePaths == UNION {[1 .. n -> Node] : n \in 0 .. MaxNodes}

(* NULL is none of the files, devices and copies.                          *)
EfiFilesAssumption ==
  /\ MaxNodes \in Nat /\ UINTN_MOD \in Nat /\ Sizes \subseteq 0 .. UINTN_MOD - 1
  /\ NULL \notin Seq(Node) /\ NULL \notin {"device", "caller", "block"}

VARIABLES
  nodes,               \* the path: "file" for a component of a file name
  FilePath,            \* where *FilePath points: "device", "file" or "other" node
  SourceSize,          \* of the caller's copy, or of the file as first asked
  at, Status, next,    \* next: the node that the loop is at
  files,               \* the open files, each by the nodes that lead to it
  pool,                \* the blocks allocated: "FHand" and "Source"
  FileHandle,          \* the local variable: one of files, or NULL
  FHand,               \* the handle's fields
  DeviceHandle,        \* NULL, or the device that the file was found on
  Offset, ReadSize     \* of the last read

found == <<FilePath, DeviceHandle>>
held  == <<files, pool>>
range == <<Offset, ReadSize>>
vars  == <<nodes, found, SourceSize, at, Status, next, held, FileHandle, FHand, range>>

Zero == [FreeBuffer |-> FALSE, Source |-> NULL, SourceSize |-> 0, FileHandle |-> NULL]

Init ==
  /\ nodes = <<>> /\ FilePath = "device" /\ SourceSize = 0
  /\ at = "closed" /\ Status = "SUCCESS" /\ next = 1
  /\ files = {} /\ pool = {} /\ FileHandle = NULL /\ FHand = Zero
  /\ DeviceHandle = NULL /\ Offset = 0 /\ ReadSize = 0

Go(here, there) == at = here /\ at' = there
Rest == FilePath = "file"

-----------------------------------------------------------------------------
(* OpenSimpleReadFile                                                      *)
Open ==
  /\ at = "closed" /\ nodes' \in FilePaths /\ FilePath' = "device" /\ FHand' = Zero
  /\ next' = 1 /\ FileHandle' = NULL
  /\ \/ /\ at' = "done" /\ Status' = "OUT_OF_RESOURCES" /\ UNCHANGED <<pool, SourceSize>>
     \/ /\ at' = "own copy" /\ SourceSize' \in Sizes
        /\ pool' = {"FHand"} /\ Status' = "SUCCESS"
     \/ /\ at' = "locate" /\ pool' = {"FHand"} /\ Status' = "SUCCESS" /\ SourceSize' = 0
  /\ DeviceHandle' = NULL /\ UNCHANGED <<files, range>>

SourceBuffer ==
  /\ Go("own copy", "done") /\ DeviceHandle' = NULL
  /\ FHand' = [FHand EXCEPT !.Source = "caller", !.SourceSize = SourceSize]
  /\ UNCHANGED <<nodes, FilePath, SourceSize, Status, next, held, FileHandle, range>>

(* LocateDevicePath leaves *FilePath behind the device; the root may fail  *)
(* to open even so.                                                        *)
LocateFileSystem ==
  /\ Go("locate", "walk")
  /\ \/ Status' = "UNSUPPORTED" /\ UNCHANGED <<found, files, FileHandle>>
     \/ /\ FilePath' = "file" /\ DeviceHandle' = "device"
        /\ \/ Status' = "UNSUPPORTED" /\ UNCHANGED <<files, FileHandle>>
           \/ Status' = "SUCCESS" /\ FileHandle' = <<>> /\ files' = files \union {<<>>}
  /\ UNCHANGED <<nodes, SourceSize, next, pool, FHand, range>>

(* The nodes of *FilePath: the device itself, unless it was found, and     *)
(* those behind it.                                                        *)
Walked == IF Rest THEN nodes ELSE <<"other">> \o nodes
CloseLast_notOnError(last, status) ==                 \* mutant of CloseLast
  IF status = "SUCCESS" THEN files \ {last} ELSE files
CloseLast(last, status) == files \ {last}
FollowNode ==
  /\ at = "walk" /\ next <= Len(Walked)
  /\ IF Walked[next] # "file" \/ Status # "SUCCESS"
     THEN /\ at' = "walked"
          /\ Status' = IF Walked[next] # "file" THEN "UNSUPPORTED" ELSE Status
          /\ UNCHANGED <<next, files, FileHandle>>
     ELSE /\ next' = next + 1 /\ UNCHANGED at
          /\ \/ /\ Status' = "SUCCESS" /\ FileHandle' = SubSeq(nodes, 1, next)
                /\ files' = CloseLast(FileHandle, Status') \union {FileHandle'}
             \/ /\ Status' \in {"NOT_FOUND", "UNSUPPORTED"} /\ FileHandle' = NULL
                /\ files' = CloseLast(FileHandle, Status')
  /\ UNCHANGED <<nodes, found, SourceSize, pool, FHand, range>>
PathEnds ==
  /\ Go("walk", "walked") /\ next > Len(Walked)
  /\ UNCHANGED <<nodes, found, SourceSize, Status, next, held, FileHandle, FHand, range>>

(* *FilePath is put back only if there is a file to close.                 *)
LeaveFileSystem ==
  /\ at = "walked"
  /\ IF Status = "SUCCESS"
     THEN /\ at' = "done" /\ FHand' = [FHand EXCEPT !.FileHandle = FileHandle]
          /\ UNCHANGED <<FilePath, files, FileHandle>>
     ELSE /\ at' = IF Status = "UNSUPPORTED" THEN "interface" ELSE "done"
          /\ IF FileHandle = NULL THEN UNCHANGED <<FilePath, files>>
             ELSE FilePath' = "device" /\ files' = files \ {FileHandle}
          /\ FileHandle' = NULL /\ UNCHANGED FHand
  /\ UNCHANGED <<nodes, DeviceHandle, SourceSize, Status, next, pool, range>>

(* LibDevicePathToInterface: what is left behind the device names none.    *)
(* The copy of the path may fail, and then DeviceHandle is not set.        *)
LocateLoadFile ==
  /\ at = "interface"
  /\ \/ at' = "done" /\ Status' = "UNSUPPORTED" /\ UNCHANGED DeviceHandle
     \/ /\ ~ Rest /\ at' = "ask" /\ UNCHANGED Status
        /\ DeviceHandle' \in {DeviceHandle, "device"}
  /\ UNCHANGED <<nodes, FilePath, SourceSize, next, held, FileHandle, FHand, range>>

Loaded == {"SUCCESS", "ALREADY_STARTED"}
AskSize ==
  /\ at = "ask" /\ SourceSize' \in Sizes
  /\ \/ at' = "done" /\ Status' \in Loaded
     \/ at' = "done" /\ Status' = "UNSUPPORTED"                \* of any error
     \/ at' = "allocate" /\ Status' = "BUFFER_TOO_SMALL"
  /\ UNCHANGED <<nodes, found, next, held, FileHandle, FHand, range>>
Allocate ==
  /\ at = "allocate"
  /\ \/ at' = "done" /\ Status' = "UNSUPPORTED" /\ UNCHANGED <<pool, FHand>>
     \/ /\ at' = "load" /\ UNCHANGED Status /\ pool' = pool \union {"Source"}
        /\ FHand' = [FHand EXCEPT !.FreeBuffer = TRUE, !.Source = "block",
                                  !.SourceSize = SourceSize]
  /\ UNCHANGED <<nodes, found, SourceSize, next, files, FileHandle, range>>
Load ==
  /\ Go("load", "done") /\ Status' \in Loaded \union {"UNSUPPORTED"}
  /\ UNCHANGED <<nodes, found, SourceSize, next, held, FileHandle, FHand, range>>

Done ==
  /\ at = "done"
  /\ IF Status \in Loaded THEN at' = "open" /\ UNCHANGED pool
     ELSE at' = "failed" /\ pool' = {}
  /\ UNCHANGED <<nodes, found, SourceSize, Status, next, files, FileHandle, FHand, range>>
Failed ==
  /\ Go("failed", "closed") /\ DeviceHandle' = NULL /\ Status' = "SUCCESS"
  /\ UNCHANGED <<nodes, FilePath, SourceSize, next, held, FileHandle, FHand, range>>

-----------------------------------------------------------------------------
(* ReadSimpleReadFile and CloseSimpleReadFile                              *)
Clipped(offset, size, length) ==
  IF (offset + size) % UINTN_MOD <= length THEN size
  ELSE IF offset >= length THEN 0 ELSE length - offset
Read ==
  /\ at = "open"
  /\ \/ /\ FHand.Source # NULL /\ UNCHANGED at
        /\ Offset' \in 0 .. UINTN_MOD - 1
        /\ \E size \in 0 .. UINTN_MOD - 1 : ReadSize' = Clipped(Offset', size, FHand.SourceSize)
     \/ /\ FHand.Source = NULL /\ UNCHANGED range
        /\ at' = IF FHand.FileHandle = NULL THEN "undefined" ELSE "open"
  /\ UNCHANGED <<nodes, found, SourceSize, Status, next, held, FileHandle, FHand>>
Undefined == at = "undefined" /\ UNCHANGED vars

Close ==
  /\ Go("open", "closed") /\ Status' = "SUCCESS"
  /\ files' = files \ {FHand.FileHandle}
  /\ pool' = pool \ ({"FHand"} \union (IF FHand.FreeBuffer THEN {"Source"} ELSE {}))
  /\ FHand' = Zero /\ DeviceHandle' = NULL /\ Offset' = 0 /\ ReadSize' = 0
  /\ UNCHANGED <<nodes, FilePath, SourceSize, next, FileHandle>>

Next ==
  \/ Open \/ SourceBuffer \/ LocateFileSystem \/ FollowNode \/ PathEnds \/ LeaveFileSystem
  \/ LocateLoadFile \/ AskSize \/ Allocate \/ Load \/ Done \/ Failed \/ Read \/ Undefined \/ Close
Spec == Init /\ [][Next]_vars

-----------------------------------------------------------------------------
(* A read from memory stays within the copy, unless its offset and size    *)
(* add up to more than a UINTN holds.                                      *)
ReadsWithin ==
  ReadSize > 0 =>
    Offset + ReadSize <= FHand.SourceSize \/ Offset + ReadSize >= UINTN_MOD

(* A file that is open is the one at the end of the path, or a copy of it; *)
(* it and what was allocated for it are all that is left open and in the   *)
(* pool, and nothing is once it is closed or an open failed.  The handle   *)
(* that a device's loader gives without a copy has no file behind it.      *)
FilesExact ==
  /\ at \in {"closed", "failed"} => files = {} /\ pool = {}
  /\ at = "open" =>
       /\ FHand.FileHandle # NULL => FHand.FileHandle = nodes /\ DeviceHandle = "device"
       /\ files = {FHand.FileHandle} \ {NULL}
       /\ pool = {"FHand"} \union (IF FHand.Source = "block" THEN {"Source"} ELSE {})
       /\ FHand.Source = NULL \/ FHand.FileHandle = NULL
       /\ ReadsWithin
  /\ at = "undefined" => FilePath = "device" /\ FHand = Zero
=============================================================================
