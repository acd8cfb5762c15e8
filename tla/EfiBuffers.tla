----------------------------- MODULE EfiBuffers -----------------------------
(***************************************************************************)
(* The functions of gnu-efi that ask the firmware for data of unknown size *)
(* with the retry loop around GrowBuffer (misc.c, hand.c), and those that  *)
(* go on to use what they got.  Sizes are counted in entries: handles,     *)
(* boot options, descriptors.  The firmware's pool may run out, its calls  *)
(* may fail, and what it is asked for may change at any time.              *)
(***************************************************************************)
EXTENDS Integers, Sequences

CONSTANTS
  Items, Matching,     \* the entries, and those on the disk looked for
  FIRST,               \* the entries that the first buffer has room for
  MaxLen,              \* bound: the entries that the firmware holds
  NULL

Filtered(s) == SelectSeq(s, LAMBDA h : h \in Matching)

(* NULL is no block of entries.                                            *)
EfiBuffersAssumption ==
  /\ Matching \subseteq Items /\ FIRST \in Nat \ {0} /\ MaxLen \in Nat
  /\ NULL \notin Seq(Items)
  /\ \A n \in 0 .. MaxLen + 1 : \A s \in [1 .. n -> Items] : Filtered(s) # NULL

VARIABLES
  data,                \* the firmware's handles, map or variable; <<>>: none
  pool,                \* the blocks allocated: "Buffer" and "New"
  fresh,               \* no block has come or gone since data was read
  call, option, onlyIfEmpty,   \* the call under way and its arguments
  at, Status, BufferSize,
  room, Buffer,        \* the room in Buffer, and its entries or NULL
  New,                 \* the second block of some functions, or NULL
  read                 \* ghost: data as last read

args == <<call, option, onlyIfEmpty>>
vars == <<data, pool, fresh, args, at, Status, BufferSize, room, Buffer, New, read>>

Getters == {"LibLocateHandle", "LibMemoryMap", "LibGetVariableAndSize", "LibFileInfo"}
Calls == Getters \union {"LibLocateProtocol", "LibLocateHandleByDiskSignature",
                         "LibDeleteVariable", "LibInsertToTailOfBootOrder"}

DefaultOption == CHOOSE o \in Items : TRUE
Init ==
  /\ data = <<>> /\ pool = {} /\ fresh = FALSE
  /\ call = "none" /\ option = DefaultOption /\ onlyIfEmpty = FALSE
  /\ at = "idle" /\ Status = "SUCCESS" /\ BufferSize = 0
  /\ room = 0 /\ Buffer = NULL /\ New = NULL /\ read = <<>>

-----------------------------------------------------------------------------
(* Others add to what the firmware holds.                                  *)
Change ==
  /\ Len(data) < MaxLen
  /\ \E i \in Items : data' = Append(data, i)
  /\ UNCHANGED <<pool, fresh, args, at, Status, BufferSize, room, Buffer, New, read>>

Begin(c) ==
  /\ call = "none" /\ call' = c
  /\ \/ c # "LibInsertToTailOfBootOrder" /\ UNCHANGED <<option, onlyIfEmpty>>
     \/ /\ c = "LibInsertToTailOfBootOrder" /\ Len(data) < MaxLen
        /\ option' \in Items /\ onlyIfEmpty' \in BOOLEAN
  /\ at' = "grow" /\ Status' = "SUCCESS" /\ BufferSize' = FIRST
  /\ read' = <<>> /\ UNCHANGED <<data, pool, fresh, room, Buffer, New>>

(* GrowBuffer: a block of the size asked for, in place of the one before.  *)
GrowBuffer ==
  /\ at = "grow" /\ UNCHANGED <<data, args, BufferSize, New, read>>
  /\ IF (Buffer = NULL /\ BufferSize > 0) \/ Status = "BUFFER_TOO_SMALL"
     THEN /\ fresh' = FALSE
          /\ \/ /\ Buffer' = <<>> /\ room' = BufferSize
                /\ pool' = pool \union {"Buffer"}
                /\ at' = "ask" /\ Status' = "BUFFER_TOO_SMALL"
             \/ /\ Buffer' = NULL /\ room' = 0 /\ pool' = pool \ {"Buffer"}
                /\ at' = "got" /\ Status' = "OUT_OF_RESOURCES"
     ELSE /\ at' = "got" /\ UNCHANGED <<Status, room>>
          /\ IF Status = "SUCCESS" THEN UNCHANGED <<pool, fresh, Buffer>>
             ELSE pool' = pool \ {"Buffer"} /\ Buffer' = NULL /\ fresh' = FALSE

Answer ==
  /\ at = "ask" /\ at' = "grow"
  /\ \/ /\ data = <<>> /\ Status' = "NOT_FOUND"
        /\ UNCHANGED <<BufferSize, Buffer, fresh, read>>
     \/ /\ Status' = "DEVICE_ERROR" /\ UNCHANGED <<BufferSize, Buffer, fresh, read>>
     \/ /\ Len(data) > room /\ Status' = "BUFFER_TOO_SMALL"
        /\ BufferSize' = Len(data) /\ UNCHANGED <<Buffer, fresh, read>>
     \/ /\ data # <<>> /\ Len(data) <= room /\ Status' = "SUCCESS"
        /\ BufferSize' = Len(data) /\ Buffer' = data /\ fresh' = TRUE /\ read' = data
  /\ UNCHANGED <<data, pool, args, room, New>>

-----------------------------------------------------------------------------
(* What the callers do with the buffer.                                    *)
To(place, status) == at' = place /\ Status' = status
Keep == UNCHANGED <<args, BufferSize, room, read>>
FreeBoth_one ==                                       \* mutant of FreeBoth
  pool' = pool \ {"New"} /\ Buffer' = NULL /\ New' = NULL /\ fresh' = FALSE
FreeBoth == pool' = {} /\ Buffer' = NULL /\ New' = NULL /\ fresh' = FALSE

Get == /\ at = "got" /\ call \in Getters /\ To("return", Status)
       /\ UNCHANGED <<data, pool, fresh, Buffer, New>> /\ Keep

(* The first handle whose interface can still be had.                      *)
LibLocateProtocol ==
  /\ at = "got" /\ call = "LibLocateProtocol"
  /\ IF Status # "SUCCESS" THEN To("return", Status) /\ UNCHANGED <<pool, fresh, Buffer, New>>
     ELSE FreeBoth /\ \E s \in {"SUCCESS", "UNSUPPORTED"} : To("return", s)
  /\ UNCHANGED data /\ Keep

LibDeleteVariable ==
  /\ at = "got" /\ call = "LibDeleteVariable"
  /\ IF Buffer = NULL
     THEN To("return", "NOT_FOUND") /\ UNCHANGED <<data, pool, fresh, Buffer, New>>
     ELSE /\ FreeBoth
          /\ \/ data' = <<>> /\ To("return", "SUCCESS")
             \/ UNCHANGED data /\ To("return", "WRITE_PROTECTED")
  /\ Keep

LibLocateHandleByDiskSignature ==
  /\ at = "got" /\ call = "LibLocateHandleByDiskSignature"
  /\ Buffer' = NULL /\ fresh' = FALSE
  /\ IF Buffer = NULL \/ Filtered(Buffer) = <<>>
     THEN To("return", Status) /\ New' = NULL /\ pool' = {}
     ELSE \/ To("return", "SUCCESS") /\ New' = Filtered(Buffer) /\ pool' = {"New"}
          \/ To("return", "OUT_OF_RESOURCES") /\ New' = NULL /\ pool' = {}
  /\ UNCHANGED data /\ Keep

(* LibInsertToTailOfBootOrder: a failure to read counts as an empty order, *)
(* and the new block is written to whether or not there is one.            *)
VarSize == IF Buffer = NULL THEN 0 ELSE BufferSize
Order == IF Buffer = NULL THEN <<>> ELSE Buffer
Kept_first(order) == IF order = <<>> THEN order ELSE SubSeq(order, 1, 1) \* mutant of Kept
Kept(order) == order
BuildOrder ==
  /\ at = "got" /\ call = "LibInsertToTailOfBootOrder"
  /\ IF VarSize # 0 /\ onlyIfEmpty THEN FreeBoth /\ To("return", "UNSUPPORTED")
     ELSE /\ UNCHANGED <<Buffer, Status>> /\ fresh' = FALSE
          /\ \/ /\ pool' = pool \union {"New"} /\ at' = "set"
                /\ New' = Append(Kept(Order), option)
             \/ at' = "undefined" /\ UNCHANGED <<pool, New>>
  /\ UNCHANGED data /\ Keep
SetOrder ==
  /\ at = "set" /\ FreeBoth
  /\ \/ data' = New /\ To("return", "SUCCESS")
     \/ UNCHANGED data /\ To("return", "WRITE_PROTECTED")
  /\ Keep

(* The call returns, and its caller frees what it was given.               *)
Return ==
  /\ at = "return" /\ call' = "none" /\ at' = "idle"
  /\ FreeBoth /\ room' = 0 /\ BufferSize' = 0 /\ Status' = "SUCCESS" /\ read' = <<>>
  /\ option' = DefaultOption /\ onlyIfEmpty' = FALSE /\ UNCHANGED data
Undefined == at = "undefined" /\ UNCHANGED vars

Step == GrowBuffer \/ Answer \/ Get \/ LibLocateProtocol \/ LibDeleteVariable
        \/ LibLocateHandleByDiskSignature \/ BuildOrder \/ SetOrder \/ Return
Next == Change \/ (\E c \in Calls : Begin(c)) \/ Step \/ Undefined
Spec == Init /\ [][Next]_vars

-----------------------------------------------------------------------------
(* When a call returns, its caller has the data as last read, in a block   *)
(* large enough, or NULL with an error; nothing else is left in the pool;  *)
(* and the memory map's key still holds, since no block came or went after *)
(* the map was read.                                                       *)
BuffersExact ==
  at = "return" =>
    /\ "Buffer" \in pool <=> Buffer # NULL
    /\ "New" \in pool <=> New # NULL
    /\ call \in Getters =>
         IF Status = "SUCCESS" THEN Buffer = read /\ Len(Buffer) = BufferSize /\ BufferSize <= room
         ELSE Buffer = NULL
    /\ call \notin Getters => Buffer = NULL
    /\ call = "LibLocateHandleByDiskSignature" /\ Status = "SUCCESS" =>
         New = (IF Filtered(read) = <<>> THEN NULL ELSE Filtered(read))
    /\ call = "LibMemoryMap" /\ Status = "SUCCESS" => fresh

(* Inserting a boot option adds it to the end of the order.  What was in   *)
(* the order is lost only if it could not be read, or if somebody else     *)
(* changed it after it was read.                                           *)
BootOrderKept ==
  [][at = "set" /\ at' = "return" /\ Status' = "SUCCESS" =>
      data' = Append(data, option) \/ Buffer = NULL \/ data # read]_vars
=============================================================================
