------------------------------- MODULE EfiLib -------------------------------
(***************************************************************************)
(* The parts of gnu-efi, each on its own, as an application uses them one  *)
(* at a time: locks (from EfiLocks), protocols, data from the firmware,    *)
(* files, keys and printing (from EfiServices), device paths, strings and  *)
(* tables; what it has for each kind of machine; and its own applications. *)
(***************************************************************************)
EXTENDS EfiLocks, EfiParts

CONSTANTS
  MAX_CMDLINE_ARGC, Numerals, Lines, Subjects, Elements, MaxElements,
  MEMORY, DENOMINATOR, LINE,                                      \* EfiText
  MIN_MBR_DEVICE_SIZE, MBR_ERRATA_PAD, Masters, LastBlocks, FULL,
  Records, MaxRecords, BYTE_BITS, POLYNOMIAL,                     \* EfiTables
  Words, ldbase, MAX_FUNCTION_DESCRIPTORS, MaxEntries, MaxLinks,  \* EfiImage
  HALF, Halves, Dividends, Divisors                               \* EfiArith

VARIABLE unit                                    (* the part looked at      *)

Text == INSTANCE EfiText
Describe == INSTANCE EfiDescribe
Machine == INSTANCE EfiMachine
StartUp == INSTANCE EfiImage
Arith == INSTANCE EfiArith
Tables == INSTANCE EfiTables

ASSUME EfiLibAssumption ==
  /\ Text!EfiTextAssumption /\ Tables!EfiTablesAssumption
  /\ Describe!EfiDescribeAssumption /\ StartUp!EfiImageAssumption /\ Arith!EfiArithAssumption

lockVars   == <<tpl, active, resume, at, saved, OwnerTpl, Lock>>
pathVars   == <<op, src1, src2, dst, bytes>>
driverVars == <<resident, handles, held, Counter, told, stuck>>
libVars == <<unit, lockVars, handleVars, pathVars, bufferVars, fileVars, printVars, inputVars,
             driverVars, asked>>

(* The units that only answer questions, and share what was asked.         *)
Answering == {"text", "description", "tables", "machine", "start-up", "arithmetic",
              "applications"}

(* A unit that is not looked at stays in its first state.                  *)
LibInit ==
  /\ unit \in {"locks", "handles", "paths", "buffers", "files", "printing", "input", "driver"}
              \union Answering
  /\ Init /\ ServicesInit /\ DevicePaths!Init /\ Text!Init
  /\ Apps!DriverInit

Except(u) ==
  /\ unit = u /\ UNCHANGED unit
  /\ u # "locks" => UNCHANGED lockVars
  /\ u # "handles" => UNCHANGED handleVars
  /\ u # "paths" => UNCHANGED pathVars
  /\ u # "buffers" => UNCHANGED bufferVars
  /\ u # "files" => UNCHANGED fileVars
  /\ u # "printing" => UNCHANGED printVars
  /\ u # "input" => UNCHANGED inputVars
  /\ u # "driver" => UNCHANGED driverVars
  /\ u \notin Answering => UNCHANGED asked

InputStep  == Except("input") /\ Input!Step
TimerStep  == Except("input") /\ Input!Expire

LibNext ==
  \/ Except("locks") /\ Next
  \/ Except("handles") /\ Handles!Next
  \/ Except("paths") /\ DevicePaths!Next
  \/ Except("buffers") /\ Buffers!Next
  \/ Except("files") /\ Files!Next
  \/ Except("printing") /\ Printing!Next
  \/ Except("input") /\ Input!Next
  \/ Except("text") /\ Text!Next
  \/ Except("description") /\ Describe!Next
  \/ Except("machine") /\ Machine!Next
  \/ Except("start-up") /\ StartUp!Next
  \/ Except("arithmetic") /\ Arith!Next
  \/ Except("tables") /\ Tables!Next
  \/ Except("applications") /\ Apps!Next
  \/ Except("driver") /\ Apps!DriverNext

(* A wait goes on and timers expire.                                       *)
LibSpec ==
  /\ LibInit /\ [][LibNext]_libVars
  /\ WF_libVars(InputStep) /\ WF_libVars(TimerStep)

-----------------------------------------------------------------------------
(* Properties                                                              *)

(* What comments say of AppendDevicePath, of the conversion 'u' of Print,  *)
(* of ValidMBR and of LibGetUiString.                                      *)
AppendsToEach == DevicePaths!AppendsToEach
UnsignedDecimal == Text!UnsignedDecimal
NoneOverlap == Tables!NoneOverlap
SearchEnds == Tables!SearchEnds

(* Numbers, strings, patterns, arguments and the tables of others are read *)
(* as they were meant, and paths are told in full (see EfiText, EfiTables  *)
(* and EfiDescribe, with the exceptions these name).                       *)
FunctionsExact == Text!TextExact /\ Tables!TablesExact /\ Describe!DescribeExact

(* On every kind of machine arguments arrive, longjmp goes back, an image  *)
(* is moved whole before efi_main runs, and arithmetic agrees, with the    *)
(* exceptions that EfiMachine, EfiImage and EfiArith name.                 *)
MachinesAgree == Machine!MachineExact /\ StartUp!ImageExact /\ Arith!ArithExact
=============================================================================
