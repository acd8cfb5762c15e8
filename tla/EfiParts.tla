------------------------------ MODULE EfiParts ------------------------------
(***************************************************************************)
(* Those parts of gnu-efi that have theorems, but for the locks: its       *)
(* services, device paths and the applications that come with it.          *)
(***************************************************************************)
EXTENDS EfiServices

CONSTANTS
  Nodes, HEADER, ALIGNMENT, Paths,                                \* EfiPaths
  VALUE_MOD, UINT32_MOD,
  Copies, MaxHellos, MAX_NUM_PAGES, MAX_ADDR, Typed, NAME         \* EfiApps

VARIABLES
  op, src1, src2, dst, bytes,
  resident, handles, held, Counter, told, stuck,
  asked

DevicePaths == INSTANCE EfiPaths
Apps == INSTANCE EfiApps

ASSUME EfiPartsAssumption == DevicePaths!EfiPathsAssumption /\ Apps!EfiAppsAssumption

-----------------------------------------------------------------------------
(* Properties                                                              *)

(* Device paths are put together as their instances say (see EfiPaths);    *)
(* what a comment says of AppendDevicePath is true of one instance only.   *)
PathsExact == DevicePaths!PathsExact

(* The applications do what they say with what the firmware answers, and a *)
(* driver's copies are found while they are there, with the exceptions     *)
(* that EfiApps names.                                                     *)
AppsExact == Apps!AppsExact
=============================================================================
