------------------------- MODULE EfiServicesProofs -------------------------
(***************************************************************************)
(* What gnu-efi guarantees: EfiServices for every set of protocols,        *)
(* entries, files and keys, of any size, what it prints for every format   *)
(* and what it makes of every device path (argued in EfiDataProofs), the   *)
(* lock of EfiLocks for every set of tasks, every level of each and every  *)
(* level of the lock that is not below its users', and the applications of *)
(* EfiApps for every set of copies and of numbers typed, and every width   *)
(* of a word.                                                              *)
(***************************************************************************)
EXTENDS EfiParts, EfiLocks, SequenceTheorems, TLAPS

-----------------------------------------------------------------------------
(* Data of unknown size                                                    *)

Inserting == call = "LibInsertToTailOfBootOrder"

(* What the firmware holds, and what was read of it; no more comes while a *)
(* boot option is inserted, so that there is room for it.                  *)
DataType ==
  /\ data \in Seq(Items) /\ Len(data) <= MaxLen + 1
  /\ read \in Seq(Items) /\ Len(read) <= MaxLen + 1
  /\ Inserting => option \in Items
  /\ Inserting /\ place # "return" => Len(data) <= MaxLen /\ Len(read) <= MaxLen

CallPlace ==
  /\ call = "none" <=> place = "idle"
  /\ place \in {"idle", "grow", "ask", "got", "set", "return", "undefined"}
  /\ place \in {"set", "undefined"} => Inserting

(* The pool has exactly the blocks that the two pointers point to.         *)
PoolMatches ==
  /\ "Buffer" \in pool <=> Buffer # NULL
  /\ "New" \in pool <=> New # NULL
  /\ pool \subseteq {"Buffer", "New"}

(* The second block comes last.                                            *)
OneBlock == place \in {"idle", "grow", "ask", "got"} => New = NULL
NoBlock  == place = "idle" => Buffer = NULL

(* The loop: a buffer with room for what is asked for, or, when the answer *)
(* was a success, with the data as read.                                   *)
Whole == Buffer = read /\ Len(read) = BufferSize /\ BufferSize <= room /\ fresh
Growing ==
  /\ place = "grow" =>
       \/ Buffer = NULL /\ Status = "SUCCESS" /\ BufferSize > 0
       \/ Buffer # NULL /\ (Status = "SUCCESS" => Whole)
  /\ place = "ask" => Buffer # NULL
  /\ place = "got" => IF Status = "SUCCESS" THEN Whole ELSE Buffer = NULL

(* The new boot order is the one read with the option at its end.          *)
OrderBuilt ==
  place = "set" => (Buffer = NULL \/ (Buffer = read /\ New = Append(read, option)))
                   /\ New \in Seq(Items) /\ Len(New) <= MaxLen + 1

BufferInv == /\ DataType /\ CallPlace /\ PoolMatches /\ OneBlock /\ NoBlock
             /\ Growing /\ OrderBuilt /\ BuffersExact

(* It holds before the first call.                                         *)
LEMMA BufferInit == ServicesInit => BufferInv
<1> SUFFICES ASSUME Buffers!Init PROVE BufferInv
  BY DEF ServicesInit
<1>1. <<>> \in Seq(Items) /\ Len(<<>>) = 0 /\ 0 <= MaxLen
  BY EmptySeq, EfiServicesAssumption DEF Buffers!EfiBuffersAssumption
<1>2. DataType
  BY <1>1, EfiServicesAssumption DEF Buffers!Init, DataType, Inserting, Buffers!EfiBuffersAssumption
<1> QED
  BY <1>2 DEF Buffers!Init, BufferInv, CallPlace, PoolMatches, OneBlock, NoBlock,
     Growing, OrderBuilt, BuffersExact, Buffers!BuffersExact

(* NULL is no block.                                                       *)
LEMMA BufferFacts ==
  /\ FIRST \in Nat /\ FIRST > 0 /\ MaxLen \in Nat /\ <<>> \in Seq(Items) /\ Len(<<>>) = 0
  /\ <<>> # NULL /\ \A s \in Seq(Items) : s # NULL /\ Len(s) \in Nat
<1>1. FIRST \in Nat /\ FIRST > 0 /\ MaxLen \in Nat /\ NULL \notin Seq(Items)
  BY EfiServicesAssumption DEF Buffers!EfiBuffersAssumption
<1> QED BY <1>1, EmptySeq, LenProperties

(* Every step of a call, and of others meanwhile, keeps it.                *)
LEMMA BufferNext == ASSUME BufferInv, Buffers!Next PROVE BufferInv'
<1> USE DEF BufferInv, Buffers!args
<1>1. CASE Buffers!Change
  <2> USE <1>1 DEF Buffers!Change
  <2>1. DataType' /\ CallPlace'
    BY BufferFacts DEF DataType, Inserting, CallPlace
  <2>2. PoolMatches' /\ OneBlock' /\ NoBlock'
    BY DEF PoolMatches, OneBlock, NoBlock
  <2>3. Growing' /\ OrderBuilt'
    BY DEF Growing, Whole, OrderBuilt
  <2>4. BuffersExact'
    BY DEF BuffersExact, Buffers!BuffersExact
  <2> QED BY <2>1, <2>2, <2>3, <2>4
<1>2. CASE \E c \in Buffers!Calls : Buffers!Begin(c)
  <2> USE <1>2 DEF Buffers!Begin, Buffers!Calls, Buffers!Getters
  <2>1. DataType' /\ CallPlace'
    BY BufferFacts DEF DataType, Inserting, CallPlace
  <2>2. PoolMatches' /\ OneBlock' /\ NoBlock'
    BY DEF PoolMatches, OneBlock, NoBlock, CallPlace
  <2>3. Growing' /\ OrderBuilt'
    BY BufferFacts DEF Growing, CallPlace, NoBlock, OrderBuilt
  <2>4. BuffersExact'
    BY DEF BuffersExact, Buffers!BuffersExact
  <2> QED BY <2>1, <2>2, <2>3, <2>4
<1>3. CASE Buffers!GrowBuffer
  <2> USE <1>3 DEF Buffers!GrowBuffer
  <2>1. DataType' /\ CallPlace'
    BY DEF DataType, Inserting, CallPlace
  <2>2. PoolMatches' /\ OneBlock' /\ NoBlock'
    BY BufferFacts DEF PoolMatches, OneBlock, NoBlock
  <2>3. Growing' /\ OrderBuilt'
    BY BufferFacts DEF Growing, Whole, OrderBuilt
  <2>4. BuffersExact'
    BY DEF BuffersExact, Buffers!BuffersExact
  <2> QED BY <2>1, <2>2, <2>3, <2>4
<1>4. CASE Buffers!Answer
  <2> USE <1>4 DEF Buffers!Answer
  <2>1. DataType' /\ CallPlace'
    BY DEF DataType, Inserting, CallPlace
  <2>2. PoolMatches' /\ OneBlock' /\ NoBlock'
    BY BufferFacts DEF PoolMatches, Growing, OneBlock, NoBlock, DataType
  <2>3. Growing' /\ OrderBuilt'
    BY DEF Growing, Whole, OrderBuilt
  <2>4. BuffersExact'
    BY DEF BuffersExact, Buffers!BuffersExact
  <2> QED BY <2>1, <2>2, <2>3, <2>4
<1>5. CASE Buffers!Get
  <2> USE <1>5 DEF Buffers!Get, Buffers!To, Buffers!Keep, Buffers!Getters
  <2>1. DataType' /\ CallPlace'
    BY DEF DataType, Inserting, CallPlace
  <2>2. PoolMatches' /\ OneBlock' /\ NoBlock'
    BY DEF PoolMatches, OneBlock, NoBlock
  <2>3. Growing' /\ OrderBuilt'
    BY DEF Growing, OrderBuilt
  <2>4. BuffersExact'
    BY DEF BuffersExact, Buffers!BuffersExact, Growing, Whole, PoolMatches
  <2> QED BY <2>1, <2>2, <2>3, <2>4
<1>6. CASE Buffers!LibLocateProtocol
  <2> USE <1>6 DEF Buffers!LibLocateProtocol, Buffers!To, Buffers!Keep, Buffers!FreeBoth, Buffers!Getters
  <2>1. DataType' /\ CallPlace'
    BY DEF DataType, Inserting, CallPlace
  <2>2. PoolMatches' /\ OneBlock' /\ NoBlock'
    BY DEF PoolMatches, OneBlock, NoBlock
  <2>3. Growing' /\ OrderBuilt'
    BY DEF Growing, OrderBuilt
  <2>4. BuffersExact'
    BY DEF BuffersExact, Buffers!BuffersExact, Growing, PoolMatches
  <2> QED BY <2>1, <2>2, <2>3, <2>4
<1>7. CASE Buffers!LibDeleteVariable
  <2> USE <1>7 DEF Buffers!LibDeleteVariable, Buffers!To, Buffers!Keep, Buffers!FreeBoth, Buffers!Getters
  <2>1. DataType' /\ CallPlace'
    <3>1. data' \in {data, <<>>} /\ UNCHANGED <<read, call>> /\ place' = "return"
      OBVIOUS
    <3>2. ~ Inserting
      BY DEF Inserting
    <3>3. data' \in Seq(Items) /\ Len(data') <= MaxLen + 1
      <4>1. CASE data' = data
        BY <4>1 DEF DataType
      <4>2. CASE data' = <<>>
        BY <4>2, BufferFacts
      <4> QED BY <3>1, <4>1, <4>2
    <3> QED BY <3>1, <3>2, <3>3 DEF DataType, CallPlace, Inserting
  <2>2. PoolMatches' /\ OneBlock' /\ NoBlock'
    BY DEF PoolMatches, OneBlock, NoBlock
  <2>3. Growing' /\ OrderBuilt'
    BY DEF Growing, OrderBuilt
  <2>4. BuffersExact'
    BY DEF BuffersExact, Buffers!BuffersExact, PoolMatches
  <2> QED BY <2>1, <2>2, <2>3, <2>4
<1>8. CASE Buffers!LibLocateHandleByDiskSignature
  <2>0. /\ place = "got" /\ Buffer # NULL =>
             Buffer = read /\ Status = "SUCCESS" /\ Buffers!Filtered(Buffer) # NULL
        /\ place = "got" /\ Status = "SUCCESS" => Buffer # NULL
    <3>1. read \in [1 .. Len(read) -> Items] /\ Len(read) \in 0 .. MaxLen + 1
      BY DEF DataType
    <3>2. Buffers!Filtered(read) # NULL
      BY <3>1, EfiServicesAssumption DEF Buffers!EfiBuffersAssumption
    <3> QED BY <3>2, BufferFacts DEF Growing, Whole, DataType
  <2> USE <1>8 DEF Buffers!LibLocateHandleByDiskSignature, Buffers!To, Buffers!Keep, Buffers!Getters
  <2>1. DataType' /\ CallPlace'
    BY DEF DataType, Inserting, CallPlace
  <2>2. PoolMatches' /\ OneBlock' /\ NoBlock'
    BY <2>0 DEF PoolMatches, OneBlock, NoBlock
  <2>3. Growing' /\ OrderBuilt'
    BY DEF Growing, OrderBuilt
  <2>4. BuffersExact'
    <3>1. UNCHANGED <<read, call>> /\ call = "LibLocateHandleByDiskSignature" /\ Buffer' = NULL
      OBVIOUS
    <3>2. Status' = "SUCCESS" =>
            New' = (IF Buffers!Filtered(read) = <<>> THEN NULL ELSE Buffers!Filtered(read))
      BY <2>0
    <3>3. PoolMatches'
      BY <2>2
    <3> QED BY <3>1, <3>2, <3>3 DEF PoolMatches, BuffersExact, Buffers!BuffersExact
  <2> QED BY <2>1, <2>2, <2>3, <2>4
<1>9. CASE Buffers!BuildOrder
  <2>0. place = "got" /\ Inserting =>
          LET order == IF Buffer = NULL THEN <<>> ELSE Buffer
          IN  /\ Append(order, option) \in Seq(Items) /\ Len(Append(order, option)) <= MaxLen + 1
              /\ Append(order, option) # NULL
              /\ Buffer # NULL => Buffer = read
    <3>1. SUFFICES ASSUME place = "got", Inserting
                   PROVE  LET order == IF Buffer = NULL THEN <<>> ELSE Buffer
                          IN  /\ Append(order, option) \in Seq(Items)
                              /\ Len(Append(order, option)) <= MaxLen + 1
                              /\ Append(order, option) # NULL
                              /\ Buffer # NULL => Buffer = read
      OBVIOUS
    <3> DEFINE order == IF Buffer = NULL THEN <<>> ELSE Buffer
    <3>2. /\ order \in Seq(Items) /\ Len(order) <= MaxLen /\ option \in Items
          /\ Buffer # NULL => Buffer = read
      BY <3>1, BufferFacts DEF DataType, Growing, Whole
    <3> HIDE DEF order
    <3>3. /\ Append(order, option) \in Seq(Items) /\ Len(Append(order, option)) <= MaxLen + 1
          /\ Append(order, option) # NULL
      BY <3>2, BufferFacts
    <3> QED BY <3>2, <3>3 DEF order
  <2> USE <1>9 DEF Buffers!BuildOrder, Buffers!To, Buffers!Keep, Buffers!FreeBoth, Buffers!VarSize, Buffers!Order, Buffers!Kept, Buffers!Getters
  <2>1. DataType' /\ CallPlace'
    BY DEF DataType, Inserting, CallPlace
  <2>2. PoolMatches' /\ OneBlock' /\ NoBlock'
    BY <2>0 DEF PoolMatches, OneBlock, NoBlock, Inserting
  <2>3. Growing' /\ OrderBuilt'
    BY <2>0 DEF Growing, OrderBuilt, Inserting
  <2>4. BuffersExact'
    BY DEF BuffersExact, Buffers!BuffersExact
  <2> QED BY <2>1, <2>2, <2>3, <2>4
<1>10. CASE Buffers!SetOrder
  <2> USE <1>10 DEF Buffers!SetOrder, Buffers!To, Buffers!Keep, Buffers!FreeBoth, Buffers!Getters
  <2>1. DataType' /\ CallPlace'
    BY DEF DataType, CallPlace, OrderBuilt
  <2>2. PoolMatches' /\ OneBlock' /\ NoBlock'
    BY DEF PoolMatches, OneBlock, NoBlock
  <2>3. Growing' /\ OrderBuilt'
    BY DEF Growing, OrderBuilt
  <2>4. BuffersExact'
    BY DEF BuffersExact, Buffers!BuffersExact, CallPlace, Inserting
  <2> QED BY <2>1, <2>2, <2>3, <2>4
<1>11. CASE Buffers!Return
  <2> USE <1>11 DEF Buffers!Return, Buffers!FreeBoth
  <2>1. DataType' /\ CallPlace'
    BY BufferFacts DEF DataType, Inserting, CallPlace
  <2>2. PoolMatches' /\ OneBlock' /\ NoBlock'
    BY DEF PoolMatches, OneBlock, NoBlock
  <2>3. Growing' /\ OrderBuilt'
    BY DEF Growing, OrderBuilt
  <2>4. BuffersExact'
    BY DEF BuffersExact, Buffers!BuffersExact
  <2> QED BY <2>1, <2>2, <2>3, <2>4
<1>12. CASE Buffers!Undefined
  <2> USE <1>12 DEF Buffers!Undefined, Buffers!vars
  <2>1. DataType' /\ CallPlace'
    BY DEF DataType, Inserting, CallPlace
  <2>2. PoolMatches' /\ OneBlock' /\ NoBlock'
    BY DEF PoolMatches, OneBlock, NoBlock
  <2>3. Growing' /\ OrderBuilt'
    BY DEF Growing, OrderBuilt
  <2>4. BuffersExact'
    BY DEF BuffersExact, Buffers!BuffersExact
  <2> QED BY <2>1, <2>2, <2>3, <2>4
<1> QED
  BY <1>1, <1>2, <1>3, <1>4, <1>5, <1>6, <1>7, <1>8, <1>9, <1>10, <1>11, <1>12
     DEF Buffers!Next, Buffers!Step

(* Steps of the other parts leave all of it alone.                         *)
LEMMA BufferRest == ASSUME BufferInv, UNCHANGED bufferVars PROVE BufferInv'
<1> USE DEF BufferInv, bufferVars
<1>1. DataType' /\ CallPlace' /\ PoolMatches' /\ OneBlock' /\ NoBlock' /\ OrderBuilt'
  BY DEF DataType, Inserting, CallPlace, PoolMatches, OneBlock, NoBlock, OrderBuilt
<1>2. Growing'
  BY DEF Growing, Whole
<1>3. BuffersExact'
  BY DEF BuffersExact, Buffers!BuffersExact, Buffers!Getters
<1> QED BY <1>1, <1>2, <1>3

(* Whatever fails and however often the data grows, a caller gets all of   *)
(* it or NULL, and nothing else stays in the pool.                         *)
THEOREM DataFetchedWhole == ServicesSpec => []BuffersExact
<1>1. BufferInv /\ [ServicesNext]_servicesVars => BufferInv'
  BY BufferNext, BufferRest DEF ServicesNext, servicesVars
<1>2. BufferInv => BuffersExact
  BY DEF BufferInv
<1> QED BY BufferInit, <1>1, <1>2, PTL DEF ServicesSpec

(* A boot option is added to the end of the order and nothing is lost,     *)
(* unless the order could not be read or another changed it.               *)
THEOREM OptionAppended == ServicesSpec => BootOrderKept
<1>1. BufferInv /\ [ServicesNext]_servicesVars => BufferInv'
  BY BufferNext, BufferRest DEF ServicesNext, servicesVars
<1>2. BufferInv /\ [ServicesNext]_servicesVars =>
        [place = "set" /\ place' = "return" /\ Status' = "SUCCESS" =>
           data' = Append(data, option) \/ Buffer = NULL \/ data # read]_Buffers!vars
  <2> SUFFICES ASSUME BufferInv, ServicesNext, place = "set", place' = "return", Status' = "SUCCESS"
               PROVE  data' = Append(data, option) \/ Buffer = NULL \/ data # read
    BY DEF servicesVars, bufferVars, Buffers!vars, Buffers!args
  <2>1. Buffers!SetOrder
    BY DEF ServicesNext, bufferVars, Buffers!Next, Buffers!Step, Buffers!Change, Buffers!Begin,
       Buffers!GrowBuffer, Buffers!Answer, Buffers!Get, Buffers!LibLocateProtocol,
       Buffers!LibDeleteVariable, Buffers!LibLocateHandleByDiskSignature, Buffers!BuildOrder,
       Buffers!Return, Buffers!Undefined, Buffers!vars
  <2> QED BY <2>1 DEF BufferInv, OrderBuilt, Buffers!SetOrder, Buffers!To
<1> QED BY BufferInit, <1>1, <1>2, PTL DEF ServicesSpec, BootOrderKept, Buffers!BootOrderKept

-----------------------------------------------------------------------------
(* Keys                                                                    *)

(* A timer exists only while it is waited for.                             *)
InputPlace ==
  /\ keys \in Seq(Input!Keys)
  /\ keyCall \in {"none", "WaitForSingleEvent", "WaitForEventWithTimeout", "IInput"}
  /\ keyCall = "none" <=> keyAt = "idle"
  /\ timer # "none" => keyAt = "wait"

(* The buffer holds the line as typed so far; the screen shows it, with    *)
(* blanks behind it where it was longer.                                   *)
LineType ==
  /\ keyAt \in {"wait", "read", "return"}
  /\ StrLen \in Nat /\ typed \in Seq(Characters)
  /\ length = Len(typed) /\ column = length /\ length < StrLen
LineHeld ==
  /\ DOMAIN InStr = 0 .. StrLen - 1
  /\ \A i \in 1 .. length : InStr[i - 1] = typed[i]
  /\ keyAt = "return" => InStr[length] = Input!Nul
LineShown ==
  /\ screen \in Seq(Characters \union {Input!Blank}) /\ column <= Len(screen)
  /\ \A i \in 1 .. Len(screen) : screen[i] = IF i <= length THEN typed[i] ELSE Input!Blank
LineInv == keyCall = "IInput" => LineType /\ LineHeld /\ LineShown

InputInv == InputPlace /\ LineInv

(* Keys and characters are apart.                                          *)
LEMMA InputFacts ==
  /\ \A n \in StrLens : n \in Nat /\ n > 0
  /\ "back" \notin Characters /\ "function" \notin Characters
<1>1. StrLens \subseteq Nat \ {0}
  BY EfiServicesAssumption DEF Input!EfiInputAssumption
<1>2. \A c \in {"back", "return", "function", "nul", " "} : c \notin Characters
  BY Zenon, EfiServicesAssumption DEF Input!EfiInputAssumption
<1>3. "back" \notin Characters /\ "function" \notin Characters
  BY Zenon, <1>2
<1> QED BY <1>1, <1>3

(* There is an empty line.                                                 *)
LEMMA EmptyLine == \A S : <<>> \in Seq(S) /\ Len(<<>>) = 0
  BY EmptySeq

(* A sequence without its last element.                                    *)
LEMMA FrontFacts ==
  ASSUME NEW S, NEW s \in Seq(S), Len(s) > 0
  PROVE  /\ Input!Front(s) \in Seq(S) /\ Len(Input!Front(s)) = Len(s) - 1
         /\ \A i \in 1 .. Len(s) - 1 : Input!Front(s)[i] = s[i]
<1> DEFINE m == Len(s) - 1
           t == SubSeq(s, 1, m)
<1>1. m \in Nat /\ \A i \in 1 .. m : s[i] \in S
  BY LenProperties, ElementOfSeq
<1> HIDE DEF m
<1>2. t \in Seq(S) /\ Len(t) = (IF 1 <= m THEN m - 1 + 1 ELSE 0) /\ \A i \in 1 .. m - 1 + 1 : t[i] = s[1 + i - 1]
  BY <1>1, SubSeqProperties
<1> HIDE DEF t
<1>3. Len(t) = m /\ \A i \in 1 .. m : t[i] = s[i]
  BY <1>1, <1>2
<1> QED BY <1>2, <1>3 DEF Input!Front, m, t

(* Text with one character put over another, or behind its end.            *)
LEMMA PutFacts ==
  ASSUME NEW S, NEW text \in Seq(S), NEW there \in 1 .. Len(text) + 1, NEW c \in S
  PROVE  /\ Input!Put(text, there, c) \in Seq(S)
         /\ Len(Input!Put(text, there, c)) = IF there > Len(text) THEN there ELSE Len(text)
         /\ \A i \in 1 .. Len(Input!Put(text, there, c)) :
              Input!Put(text, there, c)[i] = IF i = there THEN c ELSE text[i]
<1> DEFINE n == IF there > Len(text) THEN there ELSE Len(text)
<1>1. Len(text) \in Nat /\ n \in Nat /\ \A i \in 1 .. n : i # there => text[i] \in S
  BY LenProperties, ElementOfSeq
<1>2. Input!Put(text, there, c) = [i \in 1 .. n |-> IF i = there THEN c ELSE text[i]]
  BY DEF Input!Put
<1> HIDE DEF n
<1>3. Input!Put(text, there, c) \in [1 .. n -> S]
  BY <1>1, <1>2
<1>4. Input!Put(text, there, c) \in Seq(S) /\ Len(Input!Put(text, there, c)) = n
  BY <1>1, <1>2, <1>3, SeqDef
<1> QED BY <1>1, <1>2, <1>4 DEF n

(* Nothing has been typed yet.                                             *)
LEMMA InputInit == ServicesInit => InputInv
  BY EmptyLine DEF ServicesInit, Input!Init, InputInv, InputPlace, LineInv

(* A step of the keyboard, of another reader or of the timer.              *)
LEMMA KeyTyped == ASSUME InputInv, Input!Type \/ Input!Steal \/ Input!Expire PROVE InputInv'
<1> USE DEF InputInv
<1>1. CASE Input!Type
  <2>1. PICK k \in Input!Keys : keys' = Append(keys, k)
    BY <1>1 DEF Input!Type
  <2>2. keys' \in Seq(Input!Keys)
    BY <2>1, AppendProperties DEF InputPlace
  <2> QED
    BY <1>1, <2>2 DEF Input!Type, Input!line, InputPlace, LineInv, LineType, LineHeld, LineShown
<1>2. CASE Input!Steal
  <2>1. keys' \in Seq(Input!Keys)
    BY <1>2, HeadTailProperties DEF Input!Steal, InputPlace
  <2> QED
    BY <1>2, <2>1 DEF Input!Steal, Input!line, InputPlace, LineInv, LineType, LineHeld, LineShown
<1>3. CASE Input!Expire
  BY <1>3 DEF Input!Expire, Input!line, InputPlace, LineInv, LineType, LineHeld, LineShown
<1> QED BY <1>1, <1>2, <1>3

(* A key read into the line.                                               *)
LEMMA EditLine == ASSUME InputInv, Input!EditLine PROVE InputInv'
<1> DEFINE k == Head(keys)
<1>1. /\ keyCall = "IInput" /\ keyAt = "read" /\ keyAt' = "wait" /\ k # "return" /\ keys # <<>>
      /\ keys' = Tail(keys) /\ UNCHANGED <<timer, keyCall, StrLen>> /\ typed' = Input!Edit(typed, k)
  BY DEF Input!EditLine
<1>2. keys' \in Seq(Input!Keys) /\ k \in Input!Keys
  BY <1>1, HeadTailProperties DEF InputInv, InputPlace
<1>3. LineType /\ LineHeld /\ LineShown
  BY <1>1 DEF InputInv, LineInv
<1>4. /\ Len(typed) \in Nat /\ Len(screen) \in Nat
      /\ \A i \in 1 .. Len(typed) : typed[i] \in Characters
      /\ typed = <<>> <=> Len(typed) = 0
  BY <1>3, LenProperties, ElementOfSeq, EmptySeq DEF LineType, LineShown
<1>5. InputPlace'
  BY <1>1, <1>2 DEF InputInv, InputPlace
<1>6. CASE k = "back" /\ length > 0
  <2>1. /\ length' = length - 1 /\ column' = column - 1 /\ screen' = Input!Put(screen, column, Input!Blank)
        /\ InStr' = InStr
    BY <1>6, InputFacts DEF Input!EditLine
  <2>2. typed' = Input!Front(typed)
    BY <1>1, <1>3, <1>4, <1>6 DEF Input!Edit, LineType
  <2>3. /\ typed' \in Seq(Characters) /\ Len(typed') = length - 1
        /\ \A i \in 1 .. length - 1 : typed'[i] = typed[i]
    BY <2>2, <1>3, <1>4, <1>6, FrontFacts DEF LineType
  <2>4. /\ screen' \in Seq(Characters \union {Input!Blank}) /\ Len(screen') = Len(screen)
        /\ \A i \in 1 .. Len(screen) : screen'[i] = IF i = column THEN Input!Blank ELSE screen[i]
    <3>1. column \in 1 .. Len(screen) + 1 /\ ~ column > Len(screen)
      BY <1>3, <1>4, <1>6 DEF LineType, LineShown
    <3>2. screen \in Seq(Characters \union {Input!Blank}) /\ Input!Blank \in Characters \union {Input!Blank}
      BY <1>3 DEF LineShown
    <3>3. /\ Input!Put(screen, column, Input!Blank) \in Seq(Characters \union {Input!Blank})
          /\ Len(Input!Put(screen, column, Input!Blank)) = Len(screen)
          /\ \A i \in 1 .. Len(screen) :
               Input!Put(screen, column, Input!Blank)[i] = IF i = column THEN Input!Blank ELSE screen[i]
      BY <3>1, <3>2, PutFacts
    <3> QED BY <2>1, <3>3
  <2>5. LineType'
    BY <1>1, <1>3, <1>4, <1>6, <2>1, <2>3 DEF LineType
  <2>6. LineHeld'
    BY <1>1, <1>3, <1>4, <1>6, <2>1, <2>3 DEF LineType, LineHeld
  <2>7. LineShown'
    BY <1>3, <1>4, <1>6, <2>1, <2>3, <2>4 DEF LineType, LineShown
  <2> QED BY <1>5, <2>5, <2>6, <2>7 DEF InputInv, LineInv
<1>7. CASE k \in Characters /\ ~ Input!Full
  <2>1. /\ length' = length + 1 /\ column' = column + 1 /\ screen' = Input!Put(screen, column + 1, k)
        /\ InStr' = [InStr EXCEPT ![length] = k, ![length + 1] = Input!Nul]
    BY <1>7, InputFacts DEF Input!EditLine
  <2>2. typed' = Append(typed, k) /\ length + 1 < StrLen
    BY <1>1, <1>3, <1>4, <1>7, InputFacts DEF Input!Edit, Input!Full, LineType
  <2>3. /\ typed' \in Seq(Characters) /\ Len(typed') = length + 1 /\ typed'[length + 1] = k
        /\ \A i \in 1 .. length : typed'[i] = typed[i]
    BY <2>2, <1>3, <1>7, AppendProperties DEF LineType
  <2>4. /\ screen' \in Seq(Characters \union {Input!Blank})
        /\ Len(screen') = IF column + 1 > Len(screen) THEN column + 1 ELSE Len(screen)
        /\ \A i \in 1 .. Len(screen') : screen'[i] = IF i = column + 1 THEN k ELSE screen[i]
    <3> DEFINE there == column + 1
               new == Input!Put(screen, there, k)
    <3>1. there \in 1 .. Len(screen) + 1
      BY <1>3, <1>4 DEF LineType, LineShown
    <3>2. screen \in Seq(Characters \union {Input!Blank}) /\ k \in Characters \union {Input!Blank}
      BY <1>3, <1>7 DEF LineShown
    <3>3. screen' = new
      BY <2>1
    <3> HIDE DEF k, there
    <3>4. new \in Seq(Characters \union {Input!Blank})
      BY <3>1, <3>2, PutFacts
    <3>5. Len(new) = IF there > Len(screen) THEN there ELSE Len(screen)
      BY <3>1, <3>2, PutFacts
    <3>6. ASSUME NEW i \in 1 .. Len(new) PROVE new[i] = IF i = there THEN k ELSE screen[i]
      BY <3>5 DEF Input!Put
    <3> HIDE DEF new
    <3> QED BY <3>3, <3>4, <3>5, <3>6 DEF there
  <2> HIDE DEF k
  <2>5. LineType'
    BY <1>1, <1>3, <1>4, <2>1, <2>2, <2>3 DEF LineType
  <2>6. LineHeld'
    <3>0. length \in Nat /\ StrLen \in Nat /\ length + 1 < StrLen /\ DOMAIN InStr = 0 .. StrLen - 1
      BY <1>3, <1>4, <2>2 DEF LineType, LineHeld
    <3>1. /\ DOMAIN InStr' = 0 .. StrLen - 1 /\ length \in 0 .. StrLen - 1
          /\ InStr'[length] = k /\ \A j \in 0 .. length - 1 : InStr'[j] = InStr[j]
      BY <3>0, <2>1
    <3>2. ASSUME NEW i \in 1 .. length + 1 PROVE InStr'[i - 1] = typed'[i]
      <4>1. CASE i = length + 1
        BY <4>1, <1>3, <1>4, <2>3, <3>1 DEF LineType
      <4>2. CASE i # length + 1
        <5>1. i \in 1 .. length /\ i - 1 \in 0 .. length - 1
          BY <4>2, <1>3, <1>4 DEF LineType
        <5> QED BY <5>1, <1>3, <2>3, <3>1 DEF LineHeld
      <4> QED BY <4>1, <4>2
    <3> QED BY <1>1, <2>1, <3>1, <3>2 DEF LineHeld
  <2>7. LineShown'
    <3>1. /\ length \in Nat /\ column = length /\ column <= Len(screen)
          /\ \A i \in 1 .. Len(screen) : screen[i] = IF i <= length THEN typed[i] ELSE Input!Blank
      BY <1>3, <1>4 DEF LineType, LineShown
    <3>4. \A i \in 1 .. Len(screen') : screen'[i] = IF i = length + 1 THEN k ELSE screen[i]
      BY <2>4, <3>1
    <3>5. typed'[length + 1] = k /\ \A i \in 1 .. length : typed'[i] = typed[i]
      BY <2>3
    <3>6. Len(screen) \in Nat /\ Len(screen') = IF length + 1 > Len(screen) THEN length + 1 ELSE Len(screen)
      BY <1>4, <2>4, <3>1
    <3>2. ASSUME NEW i \in 1 .. Len(screen')
          PROVE  screen'[i] = IF i <= length + 1 THEN typed'[i] ELSE Input!Blank
      <4>1. CASE i = length + 1
        BY <4>1, <3>1, <3>4, <3>5
      <4>2. CASE i # length + 1
        <5>1. i \in 1 .. Len(screen) /\ (i <= length + 1 <=> i <= length)
          BY <4>2, <3>1, <3>6
        <5> QED BY <4>2, <5>1, <3>1, <3>4, <3>5
      <4> QED BY <4>1, <4>2
    <3>3. column' <= Len(screen')
      BY <2>1, <3>1, <3>6
    <3> QED BY <2>1, <2>4, <3>2, <3>3 DEF LineShown
  <2> QED BY <1>5, <2>5, <2>6, <2>7 DEF InputInv, LineInv
<1>8. CASE \/ k = "back" /\ length = 0
           \/ k \in Characters /\ Input!Full
           \/ k = "function"
  <2>1. UNCHANGED <<InStr, length, screen, column>>
    <3>1. ~ (k = "back" /\ length > 0) /\ ~ (k \in Characters /\ ~ Input!Full)
      BY <1>8, InputFacts
    <3> QED BY <3>1 DEF Input!EditLine
  <2>2. typed' = typed
    BY <1>1, <1>3, <1>4, <1>8, InputFacts DEF Input!Edit, Input!Full, LineType
  <2> QED BY <1>1, <1>3, <1>5, <2>1, <2>2 DEF InputInv, LineInv, LineType, LineHeld, LineShown
<1>9. length >= 0
  BY <1>3, <1>4 DEF LineType
<1> QED BY <1>1, <1>2, <1>3, <1>4, <1>6, <1>7, <1>8, <1>9 DEF Input!Keys, LineType

(* Every other step.                                                       *)
LEMMA InputNext == ASSUME InputInv, Input!Next PROVE InputInv'
<1> USE DEF InputInv
<1>1. CASE \E c \in {"WaitForSingleEvent", "WaitForEventWithTimeout", "IInput"} : Input!Begin(c)
  <2>1. PICK c \in {"WaitForSingleEvent", "WaitForEventWithTimeout", "IInput"} : Input!Begin(c)
    BY <1>1
  <2>2. InputPlace'
    BY <2>1 DEF Input!Begin, InputPlace
  <2>3. LineInv'
    <3>1. CASE c = "IInput"
      <4>1. /\ StrLen' \in Nat /\ StrLen' > 0 /\ InStr' = [i \in 0 .. StrLen' - 1 |-> "?"]
            /\ length' = 0 /\ column' = 0 /\ screen' = <<>> /\ typed' = <<>> /\ keyAt' = "wait"
        BY <2>1, <3>1, InputFacts DEF Input!Begin
      <4> QED BY <4>1, EmptyLine DEF LineInv, LineType, LineHeld, LineShown
    <3>2. CASE c # "IInput"
      BY <2>1, <3>2 DEF Input!Begin, LineInv
    <3> QED BY <3>1, <3>2
  <2> QED BY <2>2, <2>3
<1>2. CASE Input!CreateTimer
  BY <1>2 DEF Input!CreateTimer, Input!After, Input!line, InputPlace, LineInv, LineType
<1>3. CASE Input!WaitForEvent
  BY <1>3 DEF Input!WaitForEvent, Input!After, Input!line, InputPlace, LineInv, LineType, LineHeld, LineShown
<1>4. CASE Input!ReadKeyStroke
  <2>1. keys' \in Seq(Input!Keys)
    BY <1>4, HeadTailProperties DEF Input!ReadKeyStroke, InputPlace
  <2> QED
    BY <1>4, <2>1 DEF Input!ReadKeyStroke, InputPlace, LineInv
<1>5. CASE Input!Retry
  BY <1>5 DEF Input!Retry, Input!line, InputPlace, LineInv, LineType
<1>6. CASE Input!EndLine
  <2>1. keys' \in Seq(Input!Keys)
    BY <1>6, HeadTailProperties DEF Input!EndLine, InputPlace
  <2>2. InputPlace'
    BY <1>6, <2>1 DEF Input!EndLine, InputPlace
  <2>3. Len(typed) \in Nat /\ LineType /\ LineHeld /\ LineShown
    BY <1>6, LenProperties DEF Input!EndLine, LineInv, LineType
  <2>4. LineType' /\ LineShown'
    BY <1>6, <2>3 DEF Input!EndLine, LineType, LineShown
  <2>5. LineHeld'
    <3>1. /\ InStr' = [InStr EXCEPT ![length] = Input!Nul] /\ UNCHANGED <<length, StrLen, typed>>
          /\ length \in 0 .. StrLen - 1 /\ DOMAIN InStr = 0 .. StrLen - 1
      BY <1>6, <2>3 DEF Input!EndLine, LineType, LineHeld
    <3>2. /\ DOMAIN InStr' = 0 .. StrLen - 1 /\ InStr'[length] = Input!Nul
          /\ \A j \in 0 .. length - 1 : InStr'[j] = InStr[j]
      BY <3>1
    <3>3. ASSUME NEW i \in 1 .. length PROVE InStr'[i - 1] = typed[i]
      <4>1. i - 1 \in 0 .. length - 1
        BY <3>1
      <4> QED BY <4>1, <3>2, <2>3 DEF LineHeld
    <3> QED BY <3>1, <3>2, <3>3 DEF LineHeld
  <2> QED BY <2>2, <2>4, <2>5 DEF LineInv
<1>7. CASE Input!Return
  BY <1>7 DEF Input!Return, InputPlace, LineInv
<1> QED
  BY <1>1, <1>2, <1>3, <1>4, <1>5, <1>6, <1>7, KeyTyped, EditLine DEF Input!Next, Input!Step

(* A line read is what was typed.                                          *)
LEMMA LineRead == InputInv => LineEdited
<1> SUFFICES ASSUME InputInv, keyAt = "return", keyCall = "IInput"
             PROVE  /\ \A i \in 1 .. Len(typed) : InStr[i - 1] = typed[i]
                    /\ Len(typed) < StrLen /\ InStr[Len(typed)] = Input!Nul
                    /\ screen = Input!Shown /\ column = Len(typed) /\ Len(screen) >= column
  BY DEF LineEdited, Input!LineEdited
<1>1. LineType /\ LineHeld /\ LineShown /\ Len(typed) \in Nat /\ Len(screen) \in Nat
  BY LenProperties DEF InputInv, LineInv, LineType, LineShown
<1>2. screen = [i \in 1 .. Len(screen) |-> screen[i]] /\ DOMAIN screen = 1 .. Len(screen)
  BY <1>1, LenProperties DEF LineShown
<1>3. screen = Input!Shown
  BY <1>1, <1>2 DEF Input!Shown, LineType, LineShown
<1> QED BY <1>1, <1>3 DEF LineType, LineHeld, LineShown

(* Steps of the other parts leave all of it alone.                         *)
LEMMA InputRest == ASSUME InputInv, UNCHANGED inputVars PROVE InputInv'
  BY DEF inputVars, InputInv, InputPlace, LineInv, LineType, LineHeld, LineShown

(* The line that IInput returns is what was typed, in a buffer of any size *)
(* and for any number of keys.                                             *)
THEOREM LineIsTyped == ServicesSpec => []LineEdited
<1>1. InputInv /\ [ServicesNext]_servicesVars => InputInv'
  BY InputNext, InputRest DEF ServicesNext, servicesVars
<1> QED BY InputInit, <1>1, LineRead, PTL DEF ServicesSpec

(* A key that waits is never reported as a timeout, and no timer is left   *)
(* behind by a call that returns.                                          *)
THEOREM KeyFirst == ServicesSpec => KeyBeatsTimeout
<1>1. InputInv /\ [ServicesNext]_servicesVars => InputInv'
  BY InputNext, InputRest DEF ServicesNext, servicesVars
<1>2. InputInv /\ [ServicesNext]_servicesVars =>
        [/\ keyAt = "wait" /\ keyAt' # "wait" /\ keys # <<>> => keyStatus' = "SUCCESS"
         /\ keyAt' = "idle" => timer' = "none"]_Input!vars
  <2> SUFFICES ASSUME InputInv, InputInv', ServicesNext, UNCHANGED Input!vars \/ Input!Next
               PROVE  [/\ keyAt = "wait" /\ keyAt' # "wait" /\ keys # <<>> => keyStatus' = "SUCCESS"
                       /\ keyAt' = "idle" => timer' = "none"]_Input!vars
    BY <1>1 DEF ServicesNext, servicesVars, inputVars, Input!vars, Input!line
  <2>1. CASE UNCHANGED Input!vars
    BY <2>1
  <2>2. CASE Input!Next
    <3>1. keyAt' = "idle" => timer' = "none"
      BY DEF InputInv, InputPlace
    <3>2. ASSUME keyAt = "wait", keyAt' # "wait" PROVE Input!WaitForEvent
      <4>1. ~ (Input!Type \/ Input!Steal \/ Input!Expire)
        BY <3>2 DEF Input!Type, Input!Steal, Input!Expire
      <4>2. keyCall # "none"
        BY <3>2 DEF InputInv, InputPlace
      <4>3. ~ \E c \in {"WaitForSingleEvent", "WaitForEventWithTimeout", "IInput"} : Input!Begin(c)
        BY <4>2 DEF Input!Begin
      <4>4. ~ (Input!CreateTimer \/ Input!ReadKeyStroke \/ Input!Retry \/ Input!EndLine
               \/ Input!EditLine \/ Input!Return)
        BY <3>2 DEF Input!CreateTimer, Input!ReadKeyStroke, Input!Retry, Input!EndLine,
           Input!EditLine, Input!Return
      <4> QED BY <2>2, <4>1, <4>3, <4>4 DEF Input!Next, Input!Step
    <3> QED BY <3>1, <3>2 DEF Input!WaitForEvent, Input!TimedOut
  <2> QED BY <2>1, <2>2
<1> QED BY InputInit, <1>1, <1>2, PTL DEF ServicesSpec, KeyBeatsTimeout, Input!KeyBeatsTimeout
-----------------------------------------------------------------------------
(* Files: what is open and allocated at each place of an open and of the   *)
(* calls on the file.  Until a source is found the handle is all zero.     *)
FileType ==
  /\ nodes \in Seq(Files!Node) /\ next \in Nat \ {0} /\ FilePath \in {"device", "file"}
  /\ fileAt \in {"closed", "failed", "own copy", "locate", "walk", "walked", "interface", "ask",
                 "allocate", "load", "done", "open", "undefined"}
  /\ fileAt \in {"own copy", "allocate"} => SourceSize \in Sizes
  /\ fileAt \notin {"open", "undefined"} => ReadSize = 0
Searching ==
  fileAt \in {"own copy", "locate", "walk", "walked", "interface", "ask", "allocate"} =>
    FHand = Files!Zero /\ filePool = {"FHand"}

(* At most one file is open, the local variable's until the handle has it; *)
(* while nothing failed it is the one that the nodes so far lead to.       *)
OneFile ==
  /\ fileAt \in {"walk", "walked"} =>
       /\ files = {FileHandle} \ {NULL}
       /\ fileStatus \in {"SUCCESS", "NOT_FOUND", "UNSUPPORTED"}
       /\ fileStatus = "SUCCESS" =>
            /\ FilePath = "file" /\ DeviceHandle = "device" /\ FileHandle \in Seq(Files!Node)
            /\ IF fileAt = "walked" THEN FileHandle = nodes
               ELSE next \in 1 .. Len(nodes) + 1 /\ FileHandle = SubSeq(nodes, 1, next - 1)
       /\ fileAt = "walk" /\ fileStatus # "SUCCESS" => FileHandle = NULL
  /\ fileAt = "locate" => FileHandle = NULL /\ next = 1 /\ fileStatus = "SUCCESS"
  /\ fileAt \in {"locate", "own copy", "interface", "ask", "allocate", "load", "closed", "failed"} =>
       files = {}
  /\ fileAt \in {"closed", "failed"} => filePool = {}
  /\ fileAt \in {"ask", "allocate", "load"} => FilePath = "device"

(* The four handles that an open may end with: the caller's copy, a file,  *)
(* the copy that a device loaded, or none that could be read.              *)
OfCopy ==
  /\ FHand.Source \in {"caller", "block"} /\ FHand.SourceSize \in Sizes
  /\ FHand.FreeBuffer = (FHand.Source = "block") /\ FHand.FileHandle = NULL /\ files = {}
  /\ filePool = {"FHand"} \union (IF FHand.Source = "block" THEN {"Source"} ELSE {})
OfFile ==
  /\ FHand.FileHandle = nodes /\ FHand.Source = NULL /\ FHand.FreeBuffer = FALSE
  /\ files = {nodes} /\ filePool = {"FHand"} /\ DeviceHandle = "device"
OfNone == FHand = Files!Zero /\ FilePath = "device" /\ files = {} /\ filePool = {"FHand"}
Held ==
  /\ fileAt = "load" => OfCopy
  /\ fileAt = "done" => IF fileStatus \in Files!Loaded THEN OfCopy \/ OfFile \/ OfNone ELSE files = {}
  /\ fileAt = "open" => (OfCopy \/ OfFile \/ OfNone) /\ Files!ReadsWithin
  /\ fileAt = "undefined" => FilePath = "device" /\ FHand = Files!Zero

FileInv == FileType /\ Searching /\ OneFile /\ Held

(* NULL is no file, no device and no copy.                                 *)
LEMMA FileFacts ==
  /\ NULL \notin Seq(Files!Node) /\ NULL \notin {"device", "caller", "block"}
  /\ UINTN_MOD \in Nat /\ Sizes \subseteq 0 .. UINTN_MOD - 1
BY EfiServicesAssumption DEF Files!EfiFilesAssumption

(* A sequence's first entries, none of them, and all.                      *)
LEMMA Prefixes ==
  ASSUME NEW S, NEW s \in Seq(S), NEW n \in 1 .. Len(s)
  PROVE  SubSeq(s, 1, n) \in Seq(S) /\ SubSeq(s, 1, 0) = <<>> /\ SubSeq(s, 1, Len(s)) = s
BY SubSeqProperties, LenProperties

(* A read is clipped to the copy unless its end does not fit a UINTN.      *)
LEMMA ClippedWithin ==
  ASSUME NEW m \in Nat, NEW o \in 0 .. m - 1, NEW size \in 0 .. m - 1, NEW has \in 0 .. m - 1,
         m = UINTN_MOD
  PROVE  LET r == Files!Clipped(o, size, has)
         IN  r \in Nat /\ (r > 0 => o + r <= has \/ o + r >= m)
<1>1. CASE o + size < m
  <2>1. (o + size) % m = o + size
    BY <1>1
  <2> QED BY <1>1, <2>1 DEF Files!Clipped
<1>2. CASE o + size >= m
  BY <1>2 DEF Files!Clipped
<1> QED BY <1>1, <1>2

(* No file is open yet.                                                    *)
LEMMA FileInit == ServicesInit => FileInv
BY FileFacts DEF ServicesInit, Files!Init, FileInv, FileType, Searching, OneFile, Held

(* Every step of opening, reading and closing a file keeps its invariant.  *)
LEMMA FileNext == ASSUME FileInv, Files!Next PROVE FileInv'
<1> USE DEF FileInv
<1>1. CASE Files!Open
  <2>1. nodes' \in Seq(Files!Node)
    <3>1. PICK n \in 0 .. MaxNodes : nodes' \in [1 .. n -> Files!Node]
      BY <1>1 DEF Files!Open, Files!FilePaths
    <3> QED BY <3>1
  <2>2. FileType'
    <3>1. /\ fileAt = "closed" /\ fileAt' \in {"done", "own copy", "locate"} /\ FilePath' = "device"
          /\ fileAt' = "own copy" => SourceSize' \in Sizes
      BY <1>1 DEF Files!Open
    <3>2. next' = 1 /\ UNCHANGED ReadSize
      BY <1>1 DEF Files!Open, Files!range
    <3>3. next' \in Nat \ {0}
      BY <3>2
    <3>4. ReadSize' = 0
      BY <3>1, <3>2 DEF FileType
    <3> QED BY <2>1, <3>1, <3>3, <3>4, Zenon DEF FileType
  <2>3. Searching' /\ OneFile'
    BY <1>1 DEF Files!Open, Files!held, Searching, OneFile
  <2>4. Held'
    BY <1>1 DEF Files!Open, Files!held, Files!Loaded, OneFile, Held
  <2> QED BY <2>2, <2>3, <2>4
<1>2. CASE Files!SourceBuffer
  <2>1. OfCopy'
    <3>1. FHand = Files!Zero /\ files = {} /\ filePool = {"FHand"} /\ SourceSize \in Sizes
      BY <1>2 DEF Files!SourceBuffer, Files!Go, FileType, Searching, OneFile
    <3>2. FHand' = [FHand EXCEPT !.Source = "caller", !.SourceSize = SourceSize]
          /\ UNCHANGED <<files, filePool>>
      BY <1>2 DEF Files!SourceBuffer, Files!held
    <3> QED BY <3>1, <3>2 DEF OfCopy, Files!Zero
  <2> QED BY <1>2, <2>1 DEF Files!SourceBuffer, Files!Go, Files!held, Files!range, FileType,
     Searching, OneFile, Held
<1>3. CASE Files!LocateFileSystem
  <2>1. <<>> \in Seq(Files!Node) /\ nodes \in Seq(Files!Node)
    BY EmptySeq DEF FileType
  <2>2. SubSeq(nodes, 1, 0) = <<>> /\ Len(nodes) \in Nat
    BY <2>1, SubSeqEmpty, LenProperties
  <2>3. OneFile'
    <3>1. /\ fileAt = "locate" /\ fileAt' = "walk" /\ files = {} /\ FileHandle = NULL /\ next' = 1
          /\ UNCHANGED nodes
      BY <1>3 DEF Files!LocateFileSystem, Files!Go, OneFile
    <3>2. CASE fileStatus' = "SUCCESS"
      <4>1. FilePath' = "file" /\ DeviceHandle' = "device" /\ FileHandle' = <<>> /\ files' = {<<>>}
        BY <1>3, <3>1, <3>2 DEF Files!LocateFileSystem
      <4>2. next' \in 1 .. Len(nodes') + 1 /\ <<>> = SubSeq(nodes', 1, next' - 1)
        BY <3>1, <2>2
      <4>3. FileHandle' \in Seq(Files!Node) /\ FileHandle' # NULL
        BY <4>1, <2>1, FileFacts
      <4> QED BY <3>1, <3>2, <4>1, <4>2, <4>3, Zenon DEF OneFile
    <3>3. CASE fileStatus' # "SUCCESS"
      <4>1. fileStatus' = "UNSUPPORTED" /\ UNCHANGED <<files, FileHandle>>
        BY <1>3, <3>3 DEF Files!LocateFileSystem
      <4> QED BY <3>1, <3>3, <4>1 DEF OneFile
    <3> QED BY <3>2, <3>3
  <2> QED BY <1>3, <2>3 DEF Files!LocateFileSystem, Files!Go, Files!found, Files!range, FileType,
     Searching, Held
<1>4. CASE Files!FollowNode
  <2> DEFINE file == SubSeq(nodes, 1, next)
  <2>0. nodes \in Seq(Files!Node) /\ Len(nodes) \in Nat /\ next \in Nat \ {0}
    BY LenProperties DEF FileType
  <2>1. fileStatus = "SUCCESS" =>
          next <= Len(nodes) /\ file \in Seq(Files!Node) /\ file # NULL
    <3>1. fileStatus = "SUCCESS" => Files!Walked = nodes
      BY <1>4, FileFacts DEF Files!FollowNode, Files!Walked, Files!Rest, OneFile
    <3> QED BY <1>4, <2>0, <3>1, Prefixes, FileFacts DEF Files!FollowNode
  <2> HIDE DEF file
  <2>2. OneFile'
    <3>1. CASE Files!Walked[next] # "file" \/ fileStatus # "SUCCESS"
      BY <1>4, <3>1 DEF Files!FollowNode, Files!found, OneFile
    <3>2. CASE ~ (Files!Walked[next] # "file" \/ fileStatus # "SUCCESS")
      <4>1. /\ fileAt = "walk" /\ fileAt' = "walk" /\ fileStatus = "SUCCESS" /\ next' = next + 1
            /\ UNCHANGED <<nodes, FilePath, DeviceHandle>>
            /\ \/ fileStatus' = "SUCCESS" /\ FileHandle' = file
                  /\ files' = (files \ {FileHandle}) \union {FileHandle'}
               \/ fileStatus' \in {"NOT_FOUND", "UNSUPPORTED"} /\ FileHandle' = NULL
                  /\ files' = files \ {FileHandle}
        BY <1>4, <3>2 DEF Files!FollowNode, Files!found, Files!CloseLast, file
      <4>2. files \subseteq {FileHandle} /\ FilePath = "file" /\ DeviceHandle = "device"
        BY <4>1 DEF OneFile
      <4>3. next <= Len(nodes) /\ file \in Seq(Files!Node) /\ file # NULL
        BY <2>1, <4>1
      <4>4. next' \in 1 .. Len(nodes) + 1 /\ next' - 1 = next
        BY <2>0, <4>1, <4>3
      <4>5. CASE fileStatus' = "SUCCESS"
        <5>1. FileHandle' = file /\ files' = {FileHandle'}
          BY <4>1, <4>2, <4>5
        <5>2. FileHandle' = SubSeq(nodes, 1, next' - 1)
          BY <4>4, <5>1 DEF file
        <5> QED BY <4>1, <4>2, <4>3, <4>4, <4>5, <5>1, <5>2, Zenon DEF OneFile
      <4>6. CASE fileStatus' # "SUCCESS"
        <5>1. FileHandle' = NULL /\ files' = {} /\ fileStatus' \in {"NOT_FOUND", "UNSUPPORTED"}
          BY <4>1, <4>2, <4>6
        <5> QED BY <4>1, <4>6, <5>1 DEF OneFile
      <4> QED BY <4>5, <4>6
    <3> QED BY <3>1, <3>2
  <2>3. FileType' /\ Searching'
    <3>1. UNCHANGED <<nodes, FilePath, SourceSize, filePool, FHand, ReadSize>>
      BY <1>4 DEF Files!FollowNode, Files!found, Files!range
    <3>2. fileAt = "walk" /\ fileAt' \in {"walk", "walked"} /\ next' \in {next, next + 1}
      BY <1>4 DEF Files!FollowNode
    <3>3. next' \in Nat \ {0} /\ ReadSize' = 0
      BY <2>0, <3>1, <3>2 DEF FileType
    <3> QED BY <2>0, <3>1, <3>2, <3>3, Zenon DEF FileType, Searching
  <2>4. Held'
    BY <1>4 DEF Files!FollowNode, Held
  <2> QED BY <2>2, <2>3, <2>4
<1>5. CASE Files!PathEnds
  <2>1. fileStatus = "SUCCESS" => FileHandle = nodes
    BY <1>5, SubSeqFull, LenProperties, FileFacts DEF Files!PathEnds, Files!Go, Files!Walked,
       Files!Rest, FileType, OneFile
  <2> QED BY <1>5, <2>1 DEF Files!PathEnds, Files!Go, Files!found, Files!held, Files!range,
     FileType, Searching, OneFile, Held
<1>6. CASE Files!LeaveFileSystem
  <2>1. CASE fileStatus = "SUCCESS"
    <3>1. OfFile'
      <4>1. /\ FHand = Files!Zero /\ filePool = {"FHand"} /\ FileHandle = nodes /\ FileHandle # NULL
            /\ files = {FileHandle} \ {NULL} /\ DeviceHandle = "device"
        BY <1>6, <2>1, FileFacts DEF Files!LeaveFileSystem, Searching, OneFile
      <4>2. /\ FHand' = [FHand EXCEPT !.FileHandle = FileHandle]
            /\ UNCHANGED <<nodes, DeviceHandle, filePool, files>>
        BY <1>6, <2>1 DEF Files!LeaveFileSystem
      <4> QED BY <4>1, <4>2 DEF OfFile, Files!Zero
    <3>2. fileAt' = "done" /\ UNCHANGED fileStatus
      BY <1>6, <2>1 DEF Files!LeaveFileSystem
    <3>3. FileType'
      BY <1>6, <2>1 DEF Files!LeaveFileSystem, Files!range, FileType
    <3> QED BY <2>1, <3>1, <3>2, <3>3 DEF Searching, OneFile, Held, Files!Loaded
  <2>2. CASE fileStatus # "SUCCESS"
    <3>1. files' = {}
      BY <1>6, <2>2 DEF Files!LeaveFileSystem, OneFile
    <3> QED BY <1>6, <2>2, <3>1 DEF Files!LeaveFileSystem, Files!range, FileType, Searching, OneFile,
       Held, Files!Loaded
  <2> QED BY <2>1, <2>2
<1>7. CASE Files!LocateLoadFile
  BY <1>7 DEF Files!LocateLoadFile, Files!Rest, Files!held, Files!range, FileType, Searching, OneFile,
     Held, Files!Loaded
<1>8. CASE Files!AskSize
  <2>1. fileAt' = "done" => OfNone'
    BY <1>8 DEF Files!AskSize, Files!found, Files!held, Searching, OneFile, OfNone
  <2> QED BY <1>8, <2>1 DEF Files!AskSize, Files!found, Files!held, Files!range, FileType, Searching,
     OneFile, Held, Files!Loaded
<1>9. CASE Files!Allocate
  <2>1. fileAt' = "load" => OfCopy'
    <3>1. /\ FHand = Files!Zero /\ files = {} /\ filePool = {"FHand"} /\ SourceSize \in Sizes
      BY <1>9 DEF Files!Allocate, FileType, Searching, OneFile
    <3>2. fileAt' = "load" =>
            /\ FHand' = [FHand EXCEPT !.FreeBuffer = TRUE, !.Source = "block", !.SourceSize = SourceSize]
            /\ UNCHANGED files /\ filePool' = filePool \union {"Source"}
      BY <1>9 DEF Files!Allocate
    <3> QED BY <3>1, <3>2 DEF OfCopy, Files!Zero
  <2> QED BY <1>9, <2>1 DEF Files!Allocate, Files!found, Files!range, FileType, Searching, OneFile,
     Held, Files!Loaded
<1>10. CASE Files!Load
  BY <1>10 DEF Files!Load, Files!Go, Files!found, Files!held, Files!range, FileType, Searching,
     OneFile, Held, OfCopy
<1>11. CASE Files!Done
  <2>1. FileType' /\ ReadSize' = 0
    BY <1>11 DEF Files!Done, Files!found, Files!range, FileType
  <2>2. Searching' /\ OneFile'
    BY <1>11 DEF Files!Done, Searching, OneFile, Held
  <2>3. fileAt' = "open" => OfCopy' \/ OfFile' \/ OfNone'
    BY <1>11 DEF Files!Done, Files!found, Held, OfCopy, OfFile, OfNone
  <2>4. Files!ReadsWithin'
    BY <2>1 DEF Files!ReadsWithin
  <2> QED BY <1>11, <2>1, <2>2, <2>3, <2>4 DEF Files!Done, Held
<1>12. CASE Files!Failed
  BY <1>12 DEF Files!Failed, Files!Go, Files!held, Files!range, FileType, Searching, OneFile, Held
<1>13. CASE Files!Read
  <2>1. (OfCopy \/ OfFile \/ OfNone) /\ (OfCopy \/ OfFile \/ OfNone)'
    BY <1>13 DEF Files!Read, Files!found, Files!held, Held, OfCopy, OfFile, OfNone
  <2>2. Files!ReadsWithin'
    <3>1. CASE FHand.Source # NULL
      <4>1. FHand.SourceSize \in Sizes
        BY <2>1, <3>1, FileFacts DEF OfCopy, OfFile, OfNone, Files!Zero
      <4> QED BY <1>13, <3>1, <4>1, ClippedWithin, FileFacts DEF Files!Read, Files!ReadsWithin
    <3>2. CASE FHand.Source = NULL
      BY <1>13, <3>2 DEF Files!Read, Files!range, Held, Files!ReadsWithin
    <3> QED BY <3>1, <3>2
  <2>3. fileAt' = "undefined" => FilePath = "device" /\ FHand = Files!Zero
    BY <1>13, <2>1, FileFacts, EmptySeq DEF Files!Read, FileType, OfCopy, OfFile, OfNone,
       Files!Zero
  <2> QED BY <1>13, <2>1, <2>2, <2>3 DEF Files!Read, Files!found, Files!held, FileType, Searching,
     OneFile, Held
<1>14. CASE Files!Undefined
  BY <1>14 DEF Files!Undefined, Files!vars, Files!found, Files!held, Files!range, FileType, Searching,
     OneFile, Held
<1>15. CASE Files!Close
  <2>1. files' = {} /\ filePool' = {}
    BY <1>15, FileFacts DEF Files!Close, Files!Go, Held, OfCopy, OfFile, OfNone, Files!Zero
  <2> QED BY <1>15, <2>1 DEF Files!Close, Files!Go, FileType, Searching, OneFile, Held
<1> QED
  BY <1>1, <1>2, <1>3, <1>4, <1>5, <1>6, <1>7, <1>8, <1>9, <1>10, <1>11, <1>12, <1>13, <1>14, <1>15
     DEF Files!Next

(* What the invariant says of an open file.                                *)
LEMMA FileExact == FileInv => FilesExact
<1> SUFFICES ASSUME FileInv, fileAt = "open"
             PROVE  /\ FHand.FileHandle # NULL => FHand.FileHandle = nodes /\ DeviceHandle = "device"
                    /\ files = {FHand.FileHandle} \ {NULL}
                    /\ filePool = {"FHand"} \union (IF FHand.Source = "block" THEN {"Source"} ELSE {})
                    /\ FHand.Source = NULL \/ FHand.FileHandle = NULL
                    /\ Files!ReadsWithin
  BY DEF FileInv, OneFile, Held, FilesExact, Files!FilesExact
<1>1. nodes # NULL
  BY FileFacts DEF FileInv, FileType
<1>2. (OfCopy \/ OfFile \/ OfNone) /\ Files!ReadsWithin
  BY DEF FileInv, Held
<1>3. CASE OfCopy
  BY <1>2, <1>3, FileFacts DEF OfCopy
<1>4. CASE OfFile
  BY <1>1, <1>2, <1>4, FileFacts DEF OfFile
<1>5. CASE OfNone
  BY <1>2, <1>5, FileFacts DEF OfNone, Files!Zero
<1> QED BY <1>2, <1>3, <1>4, <1>5

(* Steps of the other parts leave all of it alone.                         *)
LEMMA FileRest == ASSUME FileInv, UNCHANGED fileVars PROVE FileInv'
<1>1. FileType' /\ Searching' /\ OneFile'
  BY DEF fileVars, FileInv, FileType, Searching, OneFile
<1>2. (OfCopy' <=> OfCopy) /\ (OfFile' <=> OfFile) /\ (OfNone' <=> OfNone)
  BY DEF fileVars, OfCopy, OfFile, OfNone
<1>3. Held'
  BY <1>2 DEF fileVars, FileInv, Held, Files!ReadsWithin
<1> QED BY <1>1, <1>3 DEF FileInv

(* Whatever step of an open fails, what is left open and allocated is what *)
(* the handle holds, and all of it goes when the file is closed.           *)
THEOREM FileHeld == ServicesSpec => []FilesExact
<1>1. FileInv /\ [ServicesNext]_servicesVars => FileInv'
  BY FileNext, FileRest DEF ServicesNext, servicesVars
<1> QED BY FileInit, <1>1, FileExact, PTL DEF ServicesSpec
-----------------------------------------------------------------------------
(* Protocols on a handle: what a call lists, and how far it has come.      *)
HandleType ==
  /\ db \in [Protocols -> Interfaces \union {NULL}]
  /\ before \in [Protocols -> Interfaces \union {NULL}]
  /\ opened \subseteq Protocols
  /\ undoing => handleCall \in {"install", "reinstall"}
  /\ handleCall = "none" => handleStatus = "SUCCESS"
  /\ handleCall \in {"none", "install", "reinstall", "uninstall"}
  /\ handleCall # "none" =>
       /\ Len(args) \in Nat /\ pos \in 0 .. Len(args)
       /\ \A i \in 1 .. Len(args) : args[i] \in Handles!Entries(handleCall)

(* What the driver holds is installed.  A call that can be undone keeps    *)
(* the driver out, so that nothing it has done is held.                    *)
Undoable == handleCall \in {"install", "reinstall"}
DoneCount == IF undoing THEN pos + Index ELSE Index
Counting == IF undoing THEN handleStatus # "SUCCESS" /\ pos + Index < Len(args)
            ELSE Index = (IF handleStatus = "SUCCESS" THEN pos ELSE pos - 1)
DriverOut ==
  /\ \A p \in opened : db[p] # NULL
  /\ Undoable =>
       /\ level = TPL_NOTIFY /\ Index \in Nat /\ Counting
       /\ \A i \in 1 .. DoneCount : args[i].protocol \notin opened

(* Until something fails, each protocol is what the last of the entries    *)
(* done for it asks for; those with none are as they were.                 *)
LastDone(p) ==
  LET mine == {i \in 1 .. Index : args[i].protocol = p}
  IN  IF mine = {} THEN db[p] = before[p]
      ELSE \E i \in mine : db[p] = args[i].new /\ \A j \in mine : j <= i
DoneSoFar == Undoable /\ ~ undoing => \A p \in Protocols : LastDone(p)

(* With one entry at most for each protocol, those done found what they    *)
(* would put back, and those undone have put it back.                      *)
Once == Undoable /\ (handleCall = "install" \/ ~ Handles!Repeats)
Unique(i) == \A j \in 1 .. DoneCount : args[j].protocol = args[i].protocol => i = j
FoundOld ==
  Once => \A i \in 1 .. DoneCount : before[args[i].protocol] = args[i].old /\ Unique(i)
UndoneSoFar ==
  Once /\ undoing =>
    /\ \A i \in pos + 1 .. pos + Index : db[args[i].protocol] = args[i].new
    /\ \A p \in Protocols :
         (\A i \in pos + 1 .. pos + Index : args[i].protocol # p) => db[p] = before[p]

(* The caller's variable holds the handle while there is one.              *)
HandleGiven ==
  /\ handleCall = "install" =>
       /\ OldHandle = (IF \A p \in Protocols : before[p] = NULL THEN NULL ELSE "handle")
       /\ ~ undoing => Handle = Handles!TheHandle
  /\ handleCall = "reinstall" => Handle = Handles!TheHandle

HandleInv == HandleType /\ DriverOut /\ DoneSoFar /\ FoundOld /\ UndoneSoFar /\ HandleGiven

(* Interfaces are not NULL, and nothing is below its own level.            *)
LEMMA HandleFacts == NULL \notin Interfaces /\ ~ (TPL_NOTIFY < TPL_NOTIFY)
BY EfiServicesAssumption DEF Handles!EfiHandlesAssumption

(* What the firmware answers and leaves installed.                         *)
LEMMA InstallAnswer ==
  ASSUME HandleType, NEW p \in Protocols, NEW i \in Interfaces, NEW a \in Handles!Install(p, i)
  PROVE  /\ a[2] \in Interfaces \union {NULL}
         /\ IF a[1] = "SUCCESS" THEN db[p] = NULL /\ a[2] = i ELSE a[2] = db[p]
BY DEF HandleType, Handles!Install

(* What the firmware answers to replacing an interface.                    *)
LEMMA ReplaceAnswer ==
  ASSUME HandleType, NEW p \in Protocols, NEW old, NEW new \in Interfaces \union {NULL},
         NEW a \in Handles!Replace(p, old, new)
  PROVE  /\ a[2] \in Interfaces \union {NULL}
         /\ IF db[p] = old /\ p \notin opened THEN a[1] = "SUCCESS" /\ a[2] = new
            ELSE a[1] # "SUCCESS" /\ a[2] = db[p]
BY DEF HandleType, Handles!Replace

(* No driver has begun a call.                                             *)
LEMMA HandleInit == ServicesInit => HandleInv
BY DEF ServicesInit, Handles!Init, HandleInv, HandleType, DriverOut, Undoable, DoneSoFar, Once,
   FoundOld, UndoneSoFar, HandleGiven

(* The next entry of a list that nothing has failed for yet.               *)
Forward(e, v) ==
  /\ Undoable /\ ~ undoing /\ handleStatus = "SUCCESS" /\ pos < Len(args) /\ e = args[pos + 1]
  /\ db' = [db EXCEPT ![e.protocol] = v] /\ v \in Interfaces \union {NULL} /\ pos' = pos + 1
  /\ UNCHANGED <<opened, level, handleCall, args, OldHandle, before, undoing>>
  /\ IF handleStatus' = "SUCCESS"
     THEN /\ Index' = Index + 1 /\ v = e.new /\ v # NULL
          /\ db[e.protocol] = e.old /\ e.protocol \notin opened
     ELSE Index' = Index /\ v = db[e.protocol]

(* One entry of the list is carried out.                                   *)
LEMMA ForwardStep ==
  ASSUME HandleInv, NEW e, NEW v, Forward(e, v)
  PROVE  HandleType' /\ DriverOut' /\ DoneSoFar' /\ FoundOld' /\ UndoneSoFar'
<1> USE DEF HandleInv
<1>1. /\ pos \in Nat /\ Index = pos /\ pos + 1 \in 1 .. Len(args) /\ Len(args) \in Nat
      /\ Undoable /\ Undoable' /\ ~ undoing /\ ~ undoing'
  BY DEF Forward, HandleType, DriverOut, Counting, Undoable
<1>2. e.protocol \in Protocols /\ e \in Handles!Entries(handleCall)
  BY <1>1 DEF Forward, HandleType, Undoable, Handles!Entries
<1>3. HandleType'
  BY <1>1, <1>2 DEF Forward, HandleType, Undoable
<1>4. CASE handleStatus' # "SUCCESS"
  <2>1. UNCHANGED <<db, Index>>
    BY <1>2, <1>4 DEF Forward, HandleType
  <2>2. DriverOut'
    BY <1>1, <1>4, <2>1 DEF Forward, DriverOut, Counting, DoneCount
  <2>3. DoneSoFar' /\ FoundOld' /\ UndoneSoFar'
    BY <1>1, <2>1 DEF Forward, DoneSoFar, LastDone, Undoable, Once, Handles!Repeats, FoundOld, Unique,
       DoneCount, UndoneSoFar
  <2> QED BY <1>3, <2>2, <2>3
<1>5. CASE handleStatus' = "SUCCESS"
  <2>1. /\ Index' = pos + 1 /\ pos' = pos + 1 /\ db[e.protocol] = e.old
        /\ e.protocol \notin opened /\ v = e.new /\ v # NULL
        /\ db' = [db EXCEPT ![e.protocol] = v] /\ args' = args /\ before' = before /\ opened' = opened
        /\ DoneCount = pos /\ DoneCount' = pos + 1
    BY <1>1, <1>5 DEF Forward, DoneCount
  <2>2. DriverOut'
    <3>1. \A p \in opened' : db'[p] # NULL
      BY <1>2, <2>1 DEF DriverOut, HandleType
    <3>2. level' = TPL_NOTIFY /\ Index' \in Nat /\ Counting'
      BY <1>1, <1>5, <2>1 DEF Forward, DriverOut, Counting
    <3>3. \A i \in 1 .. DoneCount' : args'[i].protocol \notin opened'
      BY <1>1, <2>1 DEF Forward, DriverOut
    <3> QED BY <3>1, <3>2, <3>3 DEF DriverOut
  <2>3. DoneSoFar'
    <3> SUFFICES ASSUME NEW p \in Protocols PROVE LastDone(p)'
      BY DEF DoneSoFar
    <3>1. LastDone(p) /\ db \in [Protocols -> Interfaces \union {NULL}]
      BY <1>1 DEF DoneSoFar, HandleType
    <3>2. CASE p = e.protocol
      <4>1. db'[p] = args'[pos + 1].new /\ args'[pos + 1].protocol = p
        BY <1>2, <2>1, <3>1, <3>2 DEF Forward
      <4> QED BY <1>1, <2>1, <4>1 DEF LastDone
    <3>3. CASE p # e.protocol
      <4>1. {i \in 1 .. Index' : args'[i].protocol = p} = {i \in 1 .. Index : args[i].protocol = p}
        BY <1>1, <2>1, <3>3 DEF Forward
      <4>2. db'[p] = db[p]
        BY <1>2, <2>1, <3>1, <3>3
      <4> QED BY <2>1, <3>1, <4>1, <4>2 DEF LastDone
    <3> QED BY <3>2, <3>3
  <2>4. FoundOld'
    <3> SUFFICES ASSUME Once PROVE \A i \in 1 .. pos + 1 : before[args[i].protocol] = args[i].old
                                     /\ \A j \in 1 .. pos + 1 : args[j].protocol = args[i].protocol => i = j
      BY <2>1 DEF Forward, FoundOld, Unique, Once, Undoable, Handles!Repeats
    <3>1. \A i \in 1 .. pos : args[i].protocol # e.protocol
      <4>1. CASE handleCall = "install"
        <5>1. e.old = NULL
          BY <1>2, <4>1 DEF Handles!Entries
        <5>2. LastDone(e.protocol)
          BY <1>1, <1>2 DEF DoneSoFar
        <5>3. \A i \in 1 .. pos : args[i].new # NULL
          BY <1>1, <4>1, HandleFacts DEF HandleType, Handles!Entries
        <5> QED BY <1>1, <2>1, <5>1, <5>2, <5>3 DEF LastDone
      <4>2. CASE ~ Handles!Repeats
        BY <1>1, <4>2 DEF Handles!Repeats, Forward
      <4> QED BY <4>1, <4>2 DEF Once
    <3>2. before[e.protocol] = e.old
      <4>1. LastDone(e.protocol)
        BY <1>1, <1>2 DEF DoneSoFar
      <4> QED BY <1>1, <2>1, <3>1, <4>1 DEF LastDone
    <3>3. \A i \in 1 .. pos : before[args[i].protocol] = args[i].old /\ Unique(i)
      BY <2>1 DEF FoundOld
    <3>4. \A i \in 1 .. pos + 1 : i = pos + 1 \/ i \in 1 .. pos
      BY <1>1
    <3>5. e = args[pos + 1]
      BY DEF Forward
    <3> QED BY <2>1, <3>1, <3>2, <3>3, <3>4, <3>5, Zenon DEF Unique
  <2>5. UndoneSoFar'
    BY <1>1 DEF UndoneSoFar
  <2> QED BY <1>3, <2>2, <2>3, <2>4, <2>5
<1> QED BY <1>4, <1>5

(* The next entry that was done is undone.                                 *)
Backward(e, v) ==
  /\ Undoable /\ undoing /\ Index > 0 /\ e = args[pos + 1]
  /\ db' = [db EXCEPT ![e.protocol] = v] /\ v \in Interfaces \union {NULL}
  /\ pos' = pos + 1 /\ Index' = Index - 1
  /\ UNCHANGED <<opened, level, handleCall, handleStatus, args, OldHandle, before, undoing>>
  /\ IF db[e.protocol] = e.new /\ e.protocol \notin opened THEN v = e.old ELSE v = db[e.protocol]

(* One entry of the list is undone.                                        *)
LEMMA BackwardStep ==
  ASSUME HandleInv, NEW e, NEW v, Backward(e, v)
  PROVE  HandleType' /\ DriverOut' /\ DoneSoFar' /\ FoundOld' /\ UndoneSoFar'
<1> USE DEF HandleInv
<1>1. /\ pos \in Nat /\ Index \in Nat \ {0} /\ pos + Index < Len(args) /\ Len(args) \in Nat
      /\ Undoable /\ Undoable' /\ undoing /\ undoing'
      /\ DoneCount = pos + Index /\ DoneCount' = DoneCount
  BY DEF Backward, HandleType, DriverOut, Counting, DoneCount, Undoable
<1>2. pos + 1 \in 1 .. Len(args) /\ pos + 1 \in 1 .. DoneCount /\ e.protocol \in Protocols
  BY <1>1 DEF Backward, HandleType, Undoable, Handles!Entries
<1>3. HandleType'
  BY <1>1, <1>2 DEF Backward, HandleType
<1>4. e.protocol \notin opened
  BY <1>1, <1>2 DEF Backward, DriverOut
<1>5. DriverOut'
  <2>1. \A p \in opened' : db'[p] # NULL
    BY <1>2, <1>4 DEF Backward, DriverOut, HandleType
  <2>2. level' = TPL_NOTIFY /\ Index' \in Nat /\ Counting'
    BY <1>1 DEF Backward, DriverOut, Counting
  <2> QED BY <1>1, <2>1, <2>2 DEF Backward, DriverOut
<1>6. FoundOld'
  BY <1>1 DEF Backward, FoundOld, Unique, Once, Undoable, Handles!Repeats
<1>7. UndoneSoFar'
  <2> SUFFICES ASSUME Once
               PROVE  /\ \A i \in pos + 2 .. pos + Index : db'[args[i].protocol] = args[i].new
                      /\ \A p \in Protocols :
                           (\A i \in pos + 2 .. pos + Index : args[i].protocol # p) => db'[p] = before[p]
    <3>1. Once' => Once
      BY DEF Backward, Once, Undoable, Handles!Repeats
    <3>2. pos' + 1 = pos + 2 /\ pos' + Index' = pos + Index /\ args' = args /\ before' = before
      <4>1. pos' = pos + 1 /\ Index' = Index - 1 /\ args' = args /\ before' = before
        BY DEF Backward
      <4>2. pos \in Nat /\ Index \in Nat
        BY <1>1
      <4> QED BY <4>1, <4>2
    <3> QED BY <3>1, <3>2 DEF UndoneSoFar
  <2>1. /\ \A i \in pos + 1 .. pos + Index : db[args[i].protocol] = args[i].new
        /\ \A p \in Protocols :
             (\A i \in pos + 1 .. pos + Index : args[i].protocol # p) => db[p] = before[p]
    BY <1>1 DEF UndoneSoFar
  <2>2. v = e.old /\ v = before[e.protocol] /\ Unique(pos + 1) /\ e = args[pos + 1]
    BY <1>1, <1>2, <1>4, <2>1 DEF Backward, FoundOld
  <2>3. db' = [db EXCEPT ![e.protocol] = v] /\ db \in [Protocols -> Interfaces \union {NULL}]
    BY DEF Backward, HandleType
  <2>4. ASSUME NEW i \in pos + 2 .. pos + Index PROVE db'[args[i].protocol] = args[i].new
    <3>1. args[i].protocol # e.protocol
      BY <1>1, <2>2 DEF Unique
    <3>2. db[args[i].protocol] = args[i].new
      BY <1>1, <2>1
    <3> QED BY <2>3, <3>1, <3>2
  <2>5. ASSUME NEW p \in Protocols, \A i \in pos + 2 .. pos + Index : args[i].protocol # p
        PROVE  db'[p] = before[p]
    <3>1. CASE p = e.protocol
      BY <2>2, <2>3, <3>1
    <3>2. CASE p # e.protocol
      <4>1. \A i \in pos + 1 .. pos + Index : args[i].protocol # p
        <5>1. \A i \in pos + 1 .. pos + Index : i = pos + 1 \/ i \in pos + 2 .. pos + Index
          BY <1>1
        <5> QED BY <2>2, <2>5, <3>2, <5>1
      <4> QED BY <2>1, <2>3, <3>2, <4>1
    <3> QED BY <3>1, <3>2
  <2> QED BY <2>4, <2>5
<1>8. DoneSoFar'
  BY <1>1 DEF DoneSoFar
<1> QED BY <1>3, <1>5, <1>6, <1>7, <1>8

(* Every step of the drivers and of the firmware keeps the invariant.      *)
LEMMA HandleNext == ASSUME HandleInv, Handles!Next PROVE HandleInv'
<1> USE DEF HandleInv
<1>1. CASE Handles!Notified
  <2>1. ~ Undoable /\ ~ Undoable'
    BY <1>1, HandleFacts DEF Handles!Notified, Handles!frame, DriverOut, Undoable
  <2>2. HandleType'
    BY <1>1 DEF Handles!Notified, Handles!frame, Handles!Installed, HandleType
  <2>3. \A p \in opened' : db'[p] # NULL
    BY <1>1 DEF Handles!Notified, Handles!Installed
  <2> QED BY <2>1, <2>2, <2>3 DEF DriverOut, DoneSoFar, Once, FoundOld, UndoneSoFar, HandleGiven, Undoable
<1>2. CASE Handles!LetGo
  <2>1. ~ Undoable /\ ~ Undoable'
    BY <1>2 DEF Handles!LetGo, Handles!frame, Undoable
  <2>2. HandleType'
    BY <1>2 DEF Handles!LetGo, Handles!frame, HandleType
  <2>3. \A p \in opened' : db'[p] # NULL
    BY <1>2 DEF Handles!LetGo
  <2> QED BY <2>1, <2>2, <2>3 DEF DriverOut, DoneSoFar, Once, FoundOld, UndoneSoFar, HandleGiven, Undoable
<1>3. ASSUME NEW c \in {"install", "reinstall", "uninstall"}, NEW list \in Handles!Lists(c),
             Handles!Begin(c, list)
      PROVE  HandleInv'
  <2>1. Len(list) \in Nat /\ \A i \in 1 .. Len(list) : list[i] \in Handles!Entries(c)
    <3>1. PICK n \in 0 .. MaxList : list \in [1 .. n -> Handles!Entries(c)]
      BY DEF Handles!Lists
    <3> QED BY <3>1
  <2>2. /\ db' = db /\ before' = db /\ opened' = opened /\ ~ undoing' /\ pos' = 0 /\ Index' = 0
        /\ handleStatus' = "SUCCESS" /\ handleCall' = c /\ args' = list
        /\ OldHandle' = Handles!TheHandle /\ Handle' = Handles!TheHandle
        /\ level' = Handles!Level(c)
    BY <1>3 DEF Handles!Begin, Handles!fw
  <2>3. HandleType'
    BY <2>1, <2>2 DEF HandleType
  <2>4. DriverOut'
    BY <2>2, <2>3 DEF DriverOut, Undoable, Counting, DoneCount, HandleType, Handles!Level
  <2>5. DoneSoFar'
    BY <2>2 DEF DoneSoFar, LastDone
  <2>6. FoundOld' /\ UndoneSoFar'
    BY <2>2 DEF FoundOld, UndoneSoFar, DoneCount
  <2>7. HandleGiven'
    BY <2>2 DEF HandleGiven, Handles!TheHandle, Handles!Installed
  <2> QED BY <2>3, <2>4, <2>5, <2>6, <2>7
<1>4. CASE Handles!InstallNext
  <2> DEFINE e == Handles!Entry
  <2>1. e \in Handles!Entries("install")
    BY <1>4 DEF Handles!InstallNext, Handles!More, Handles!Entry, HandleType
  <2>2. PICK a \in Handles!Install(e.protocol, e.new) :
          /\ db' = [db EXCEPT ![e.protocol] = a[2]] /\ handleStatus' = a[1] /\ pos' = pos + 1
          /\ UNCHANGED <<opened, level, handleCall, args, OldHandle, before, undoing>>
    BY <1>4 DEF Handles!InstallNext, Handles!More, Handles!Calls, Handles!frame
  <2>3. a[2] \in Interfaces \union {NULL}
        /\ IF a[1] = "SUCCESS" THEN db[e.protocol] = NULL /\ a[2] = e.new ELSE a[2] = db[e.protocol]
    BY <2>1, InstallAnswer DEF Handles!Entries
  <2>4. e.old = NULL /\ e.new # NULL /\ e.protocol \in Protocols
    BY <2>1, HandleFacts DEF Handles!Entries
  <2>5. Forward(e, a[2])
    <3>1. handleStatus' = "SUCCESS" => db[e.protocol] = e.old /\ e.protocol \notin opened
      BY <2>2, <2>3, <2>4 DEF DriverOut
    <3>2. /\ Undoable /\ ~ undoing /\ handleStatus = "SUCCESS" /\ pos < Len(args) /\ e = args[pos + 1]
          /\ Index' = IF handleStatus' = "SUCCESS" THEN Index + 1 ELSE Index
      BY <1>4 DEF Handles!InstallNext, Handles!More, Handles!Counted, Handles!Entry, Undoable
    <3> QED BY <2>2, <2>3, <2>4, <3>1, <3>2 DEF Forward
  <2>6. HandleGiven'
    <3>1. handleCall' = "install" /\ handleCall = "install" /\ ~ undoing /\ OldHandle' = OldHandle
          /\ before' = before /\ Handle' = IF handleStatus' = "SUCCESS" THEN "handle" ELSE Handle
      BY <1>4, <2>2 DEF Handles!InstallNext, Handles!More
    <3>2. CASE handleStatus' = "SUCCESS"
      <4>1. db'[e.protocol] # NULL
        BY <2>2, <2>3, <2>4, <3>2 DEF HandleType
      <4> QED BY <2>4, <3>1, <3>2, <4>1 DEF HandleGiven, Handles!TheHandle, Handles!Installed
    <3>3. CASE handleStatus' # "SUCCESS"
      <4>1. db' = db
        BY <2>2, <2>3, <2>4, <3>3 DEF HandleType
      <4> QED BY <3>1, <3>3, <4>1 DEF HandleGiven, Handles!TheHandle, Handles!Installed
    <3> QED BY <3>2, <3>3
  <2> HIDE DEF e
  <2>7. HandleType' /\ DriverOut' /\ DoneSoFar' /\ FoundOld' /\ UndoneSoFar'
    BY <2>5, ForwardStep
  <2> QED BY <2>6, <2>7
<1>5. CASE Handles!ReinstallNext
  <2> DEFINE e == Handles!Entry
  <2>1. e \in Handles!Entries("reinstall")
    BY <1>5 DEF Handles!ReinstallNext, Handles!More, Handles!Entry, HandleType
  <2>2. PICK a \in Handles!Replace(e.protocol, e.old, e.new) :
          /\ db' = [db EXCEPT ![e.protocol] = a[2]] /\ handleStatus' = a[1] /\ pos' = pos + 1
          /\ UNCHANGED <<opened, level, handleCall, args, OldHandle, before, undoing>>
    BY <1>5 DEF Handles!ReinstallNext, Handles!More, Handles!Calls, Handles!frame
  <2>3. e.old # NULL /\ e.new # NULL /\ e.new \in Interfaces /\ e.protocol \in Protocols
    BY <2>1, HandleFacts DEF Handles!Entries
  <2>4. /\ a[2] \in Interfaces \union {NULL}
        /\ IF db[e.protocol] = e.old /\ e.protocol \notin opened THEN a[1] = "SUCCESS" /\ a[2] = e.new
           ELSE a[1] # "SUCCESS" /\ a[2] = db[e.protocol]
    BY <2>3, ReplaceAnswer
  <2>5. Forward(e, a[2])
    <3>1. /\ Undoable /\ ~ undoing /\ handleStatus = "SUCCESS" /\ pos < Len(args) /\ e = args[pos + 1]
          /\ Index' = IF handleStatus' = "SUCCESS" THEN Index + 1 ELSE Index
      BY <1>5 DEF Handles!ReinstallNext, Handles!More, Handles!Counted, Handles!Entry, Undoable
    <3> QED BY <2>2, <2>3, <2>4, <3>1 DEF Forward
  <2>6. HandleGiven'
    <3>1. handleCall' = "reinstall" /\ handleCall = "reinstall" /\ Handle' = Handle
      BY <1>5, <2>2 DEF Handles!ReinstallNext
    <3>2. \A p \in Protocols : db'[p] = NULL <=> db[p] = NULL
      BY <2>2, <2>3, <2>4 DEF HandleType
    <3> QED BY <3>1, <3>2 DEF HandleGiven, Handles!TheHandle, Handles!Installed
  <2> HIDE DEF e
  <2>7. HandleType' /\ DriverOut' /\ DoneSoFar' /\ FoundOld' /\ UndoneSoFar'
    BY <2>5, ForwardStep
  <2> QED BY <2>6, <2>7
<1>6. CASE Handles!UninstallNext
  <2> DEFINE e == Handles!Entry
  <2>1. e \in Handles!Entries("uninstall") /\ pos \in Nat /\ pos < Len(args) /\ Len(args) \in Nat
    BY <1>6 DEF Handles!UninstallNext, Handles!More, Handles!Entry, HandleType
  <2>2. PICK a \in Handles!Replace(e.protocol, e.new, NULL) :
          /\ db' = [db EXCEPT ![e.protocol] = a[2]] /\ pos' = pos + 1
          /\ UNCHANGED <<opened, handleCall, args, before, undoing>>
    BY <1>6 DEF Handles!UninstallNext, Handles!Calls, Handles!frame
  <2>3. /\ e.protocol \in Protocols /\ a[2] \in Interfaces \union {NULL}
        /\ e.protocol \in opened => a[2] = db[e.protocol]
    BY <2>1, ReplaceAnswer DEF Handles!Entries
  <2>4. HandleType'
    <3>1. handleCall = "uninstall" /\ ~ undoing
      BY <1>6 DEF Handles!UninstallNext, Handles!More
    <3> QED BY <2>1, <2>2, <2>3, <3>1 DEF HandleType
  <2>5. \A p \in opened' : db'[p] # NULL
    BY <2>2, <2>3 DEF DriverOut, HandleType
  <2>6. handleCall' = "uninstall"
    BY <1>6, <2>2 DEF Handles!UninstallNext
  <2> QED BY <2>4, <2>5, <2>6 DEF DriverOut, DoneSoFar, Once, FoundOld, UndoneSoFar, HandleGiven, Undoable
<1>7. CASE Handles!Failed
  <2>1. /\ Undoable /\ Undoable' /\ undoing' /\ ~ undoing /\ pos' = 0 /\ handleStatus # "SUCCESS"
        /\ UNCHANGED <<db, opened, level, handleCall, handleStatus, args, OldHandle, before, Handle, Index>>
    BY <1>7 DEF Handles!Failed, Handles!fw, Handles!frame, Undoable, HandleType
  <2>2. Index = pos - 1 /\ Index \in Nat /\ pos \in 0 .. Len(args) /\ Len(args) \in Nat
    BY <2>1 DEF DriverOut, Counting, HandleType, Undoable
  <2>3. DoneCount' = Index /\ DoneCount = Index
    BY <2>1, <2>2 DEF DoneCount
  <2>4. HandleType'
    BY <2>1, <2>2 DEF HandleType, Undoable
  <2>5. DriverOut'
    BY <2>1, <2>2, <2>3 DEF DriverOut, Counting
  <2>6. FoundOld'
    BY <2>1, <2>3 DEF FoundOld, Unique, Once, Handles!Repeats
  <2>7. UndoneSoFar'
    <3> SUFFICES ASSUME Once
                 PROVE  /\ \A i \in 1 .. Index : db[args[i].protocol] = args[i].new
                        /\ \A p \in Protocols : (\A i \in 1 .. Index : args[i].protocol # p) => db[p] = before[p]
      BY <2>1, <2>2 DEF UndoneSoFar, Once, Undoable, Handles!Repeats
    <3>1. \A p \in Protocols : LastDone(p)
      BY <2>1 DEF DoneSoFar
    <3>2. \A i \in 1 .. Index : args[i].protocol \in Protocols
      BY <2>1, <2>2 DEF HandleType, Undoable, Handles!Entries
    <3>3. \A i \in 1 .. Index : Unique(i)
      BY <2>3 DEF FoundOld
    <3> QED BY <2>3, <3>1, <3>2, <3>3 DEF LastDone, Unique
  <2>8. DoneSoFar' /\ HandleGiven'
    BY <2>1 DEF DoneSoFar, HandleGiven, Handles!TheHandle, Handles!Installed
  <2> QED BY <2>4, <2>5, <2>6, <2>7, <2>8
<1>8. CASE Handles!Undo
  <2> DEFINE e == Handles!Entry
             old == IF handleCall = "install" THEN NULL ELSE e.old
  <2>1. Undoable /\ undoing /\ pos \in Nat /\ Index \in Nat \ {0} /\ pos + Index < Len(args) /\ Len(args) \in Nat
    BY <1>8 DEF Handles!Undo, DriverOut, Counting, HandleType, Undoable
  <2>2. e \in Handles!Entries(handleCall)
    BY <2>1 DEF Handles!Entry, HandleType, Undoable
  <2>3. /\ e.protocol \in Protocols /\ old = e.old /\ old \in Interfaces \union {NULL}
        /\ e.new \in Interfaces
        /\ handleCall = "reinstall" => e.old # NULL
    BY <2>1, <2>2, HandleFacts DEF Handles!Entries, Undoable
  <2>4. PICK a \in Handles!Replace(e.protocol, e.new, old) :
          /\ db' = [db EXCEPT ![e.protocol] = a[2]] /\ handleStatus' = handleStatus /\ pos' = pos + 1
          /\ UNCHANGED <<opened, level, handleCall, args, OldHandle, before, undoing>>
    BY <1>8 DEF Handles!Undo, Handles!Calls, Handles!frame
  <2>5. /\ a[2] \in Interfaces \union {NULL}
        /\ IF db[e.protocol] = e.new /\ e.protocol \notin opened THEN a[2] = old ELSE a[2] = db[e.protocol]
    <3> HIDE DEF e, old
    <3> QED BY <2>3, ReplaceAnswer
  <2>6. Backward(e, a[2])
    <3>1. Index' = Index - 1 /\ e = args[pos + 1]
      BY <1>8 DEF Handles!Undo, Handles!Entry
    <3> HIDE DEF e, old
    <3> QED BY <2>1, <2>3, <2>4, <2>5, <3>1 DEF Backward
  <2>7. HandleGiven'
    <3>1. UNCHANGED Handle /\ undoing'
      BY <1>8, <2>1, <2>4 DEF Handles!Undo
    <3>2. ASSUME handleCall = "reinstall" PROVE \A p \in Protocols : db'[p] = NULL <=> db[p] = NULL
      <4> HIDE DEF e, old
      <4> QED BY <2>3, <2>4, <2>5, <3>2, HandleFacts DEF HandleType
    <3> QED BY <2>4, <3>1, <3>2 DEF HandleGiven, Handles!TheHandle, Handles!Installed
  <2> HIDE DEF e, old
  <2>8. HandleType' /\ DriverOut' /\ DoneSoFar' /\ FoundOld' /\ UndoneSoFar'
    BY <2>6, BackwardStep
  <2> QED BY <2>7, <2>8
<1>9. CASE Handles!Return
  <2>1. /\ handleCall' = "none" /\ handleStatus' = "SUCCESS" /\ ~ undoing'
        /\ before' = db /\ UNCHANGED <<db, opened>>
    BY <1>9 DEF Handles!Return, Handles!fw
  <2>2. HandleType'
    BY <2>1 DEF HandleType
  <2> QED BY <2>1, <2>2 DEF DriverOut, DoneSoFar, Once, FoundOld, UndoneSoFar, HandleGiven, Undoable
<1> QED
  BY <1>1, <1>2, <1>3, <1>4, <1>5, <1>6, <1>7, <1>8, <1>9 DEF Handles!Next

(* Steps of the other parts leave all of it alone.                         *)
LEMMA HandleRest == ASSUME HandleInv, UNCHANGED handleVars PROVE HandleInv'
<1> USE DEF HandleInv, handleVars
<1>1. HandleType' /\ DriverOut'
  BY DEF HandleType, DriverOut, Undoable, DoneCount, Counting
<1>2. DoneSoFar'
  BY DEF DoneSoFar, Undoable, LastDone
<1>3. FoundOld' /\ UndoneSoFar'
  BY DEF FoundOld, UndoneSoFar, Once, Undoable, Handles!Repeats, Unique, DoneCount
<1>4. HandleGiven'
  BY DEF HandleGiven, Handles!TheHandle, Handles!Installed
<1> QED BY <1>1, <1>2, <1>3, <1>4

(* What a call that returns leaves behind it.                              *)
AllOrNone ==
  handleCall # "none" /\ handleCall' = "none" /\ handleCall # "uninstall" =>
    \/ handleStatus # "SUCCESS" /\ db = before /\ Handle' = Handles!TheHandle
    \/ handleStatus # "SUCCESS" /\ handleCall = "reinstall" /\ Handles!Repeats
    \/ /\ handleStatus = "SUCCESS" /\ Handle' = Handles!TheHandle
       /\ \A p \in Protocols :
            LET mine == {i \in 1 .. Len(args) : args[i].protocol = p}
            IN  IF mine = {} THEN db[p] = before[p]
                ELSE \E i \in mine : db[p] = args[i].new /\ \A j \in mine : j <= i

(* A call that returns has done all of its list or none of it.             *)
LEMMA ReturnsWhole == ASSUME HandleInv, Handles!Next PROVE AllOrNone
<1> SUFFICES ASSUME handleCall # "none", handleCall' = "none", handleCall # "uninstall"
             PROVE  AllOrNone
  BY DEF AllOrNone
<1> USE DEF HandleInv
<1>1. Handles!Return
  BY DEF Handles!Next, Handles!Notified, Handles!LetGo, Handles!Begin, Handles!InstallNext,
     Handles!ReinstallNext, Handles!UninstallNext, Handles!Calls, Handles!Failed, Handles!Undo,
     Handles!frame
<1>2. Undoable /\ HandleType /\ Len(args) \in Nat
  BY DEF HandleType, Undoable
<1>3. CASE undoing
  <2>1. Index = 0 /\ handleStatus # "SUCCESS"
    BY <1>1, <1>2, <1>3 DEF Handles!Return, Handles!Finished, DriverOut, Counting
  <2>2. CASE ~ Once
    BY <1>2, <2>1, <2>2 DEF Once, Undoable, AllOrNone
  <2>3. CASE Once
    <3>1. \A p \in Protocols : db[p] = before[p]
      BY <1>2, <1>3, <2>1, <2>3 DEF UndoneSoFar, HandleType
    <3>2. db = before
      BY <3>1 DEF HandleType
    <3>3. Handle' = Handles!TheHandle
      BY <1>1, <1>2, <1>3, <3>2 DEF Handles!Return, HandleGiven, Handles!TheHandle, Handles!Installed,
         Undoable
    <3> QED BY <2>1, <3>2, <3>3 DEF AllOrNone
  <2> QED BY <2>2, <2>3
<1>4. CASE ~ undoing
  <2>1. handleStatus = "SUCCESS" /\ Index = Len(args) /\ Handle' = Handle
    BY <1>1, <1>2, <1>4 DEF Handles!Return, Handles!Finished, DriverOut, Counting
  <2>2. Handle' = Handles!TheHandle
    BY <1>2, <1>4, <2>1 DEF HandleGiven, Undoable
  <2>3. \A p \in Protocols : LastDone(p)
    BY <1>2, <1>4 DEF DoneSoFar
  <2> QED BY <2>1, <2>2, <2>3 DEF AllOrNone, LastDone
<1> QED BY <1>3, <1>4

(* A list of protocols is installed or replaced whole, or it is undone and *)
(* the handle, its interfaces and its caller's variable are as before.     *)
THEOREM WholeOrNone == ServicesSpec => AllOrNothing
<1>1. HandleInv /\ [ServicesNext]_servicesVars => HandleInv'
  BY HandleNext, HandleRest DEF ServicesNext, servicesVars
<1>2. HandleInv /\ [ServicesNext]_servicesVars => [AllOrNone]_Handles!vars
  BY ReturnsWhole DEF ServicesNext, servicesVars, handleVars, Handles!vars, Handles!fw, Handles!frame
<1> QED BY HandleInit, <1>1, <1>2, PTL DEF ServicesSpec, AllOrNothing, Handles!AllOrNothing, AllOrNone

-----------------------------------------------------------------------------
(* The lock: the inductive invariant                                       *)

(* The level that a task has when it is the one that runs.                 *)
Level(t) == IF Inside(t) THEN Tpl ELSE TplOf[t]

(* The tasks are stacked: each preempted the ones below it at a level      *)
(* above theirs, so no two have one level.                                 *)
Stacked ==
  \A t, u \in active : t # u =>
     TplOf[t] # TplOf[u] /\ (TplOf[t] < TplOf[u] => Level(t) < TplOf[u])

(* The firmware's level is that of the task on top.                        *)
LevelOfTop ==
  /\ \A t \in active : Level(t) <= tpl
  /\ \A t \in active : Runs(t) => tpl = Level(t)

(* A task returns to the level of the one right below it.                  *)
Below(u, t) == u \in active /\ TplOf[u] < TplOf[t]
ResumesBelow ==
  \A t \in active, u \in active : Below(u, t) =>
     /\ Level(u) <= resume[t]
     /\ (\A w \in active : Below(w, t) => TplOf[w] <= TplOf[u]) => resume[t] = Level(u)

(* Only an active user is inside the lock, and it has its own level in     *)
(* hand or in the lock.                                                    *)
OwnLevel ==
  \A t \in Tasks : Inside(t) =>
     /\ t \in Users /\ t \in active
     /\ at[t] \in {"raised", "releasing", "released"} => saved[t] = TplOf[t]
     /\ at[t] \in {"owned", "held"} => OwnerTpl = TplOf[t]

LockInv == TypeOK /\ Stacked /\ LevelOfTop /\ ResumesBelow /\ OwnLevel /\ Exclusive

-----------------------------------------------------------------------------
(* What the stack says of the task on top                                  *)

(* A level is a natural number, and no lower than the task's own.          *)
LEMMA LevelType ==
  ASSUME TypeOK, OwnLevel, NEW t \in Tasks
  PROVE  Level(t) \in Nat /\ TplOf[t] \in Nat /\ TplOf[t] <= Level(t)
  BY EfiLocksAssumption DEF TypeOK, OwnLevel, Level

(* Nobody below the one that runs is at its level or above it.             *)
LEMMA TopIsAbove ==
  ASSUME TypeOK, OwnLevel, Stacked, NEW t \in Tasks, Runs(t), NEW u \in active, u # t
  PROVE  TplOf[u] < TplOf[t] /\ Level(u) < TplOf[t]
<1>1. t \in active /\ u \in Tasks /\ TplOf[u] <= TplOf[t]
  BY DEF Runs, TypeOK
<1>2. TplOf[u] # TplOf[t] /\ (TplOf[u] < TplOf[t] => Level(u) < TplOf[t])
  BY <1>1 DEF Stacked
<1>. QED  BY <1>1, <1>2, LevelType

(* While a user runs, nobody else is inside the lock.                      *)
LEMMA UserAlone ==
  ASSUME TypeOK, OwnLevel, Stacked, NEW t \in Users, Runs(t), NEW u \in Tasks, Inside(u)
  PROVE  u = t
<1>1. SUFFICES ASSUME u # t PROVE FALSE
  OBVIOUS
<1>2. t \in Tasks /\ u \in active /\ Level(u) = Tpl
  BY EfiLocksAssumption DEF OwnLevel, Level
<1>3. Level(u) < TplOf[t]
  BY <1>1, <1>2, TopIsAbove
<1>4. TplOf[t] \in Nat /\ Tpl \in Nat /\ TplOf[t] <= Tpl
  BY <1>2, EfiLocksAssumption
<1>. QED  BY <1>2, <1>3, <1>4

-----------------------------------------------------------------------------
(* The lock: the invariant is inductive                                    *)

(* Every task starts with its lock free.                                   *)
LEMMA LockInit == Init => LockInv
<1>. SUFFICES ASSUME Init PROVE LockInv
  OBVIOUS
<1>. USE EfiLocksAssumption DEF Init, InitializeLock
<1>1. TypeOK
  BY DEF TypeOK, Places
<1>2. \A t \in Tasks : ~ Inside(t)
  BY DEF Inside
<1>3. Stacked /\ ResumesBelow
  BY DEF Stacked, ResumesBelow, Below
<1>4. LevelOfTop
  BY <1>2 DEF LevelOfTop, Level
<1>5. OwnLevel /\ Exclusive
  BY <1>2 DEF OwnLevel, Exclusive
<1>. QED  BY <1>1, <1>3, <1>4, <1>5 DEF LockInv

(* A notification function goes on top of every active task.               *)
LEMMA NotifyLockInv ==
  ASSUME LockInv, NEW t \in Tasks, Notify(t)
  PROVE  LockInv'
<1>. USE DEF LockInv
<1>1. /\ t \notin active /\ active' = active \union {t}
      /\ TplOf[t] > tpl /\ tpl' = TplOf[t] /\ tpl \in Nat
      /\ resume' = [resume EXCEPT ![t] = tpl] /\ resume'[t] = tpl
      /\ UNCHANGED <<at, saved, OwnerTpl, Lock>>
  BY DEF Notify, TypeOK
<1>2. active \subseteq Tasks /\ \A u \in active : resume'[u] = resume[u]
  BY <1>1 DEF TypeOK
<1>3. \A u : Inside(u)' = Inside(u) /\ Level(u)' = Level(u)
  BY <1>1 DEF Inside, Level
<1>4. ~ Inside(t) /\ Level(t) = TplOf[t] /\ TplOf[t] \in Nat
  BY <1>1, EfiLocksAssumption DEF OwnLevel, Level
<1>5. \A u \in active : /\ Level(u) \in Nat /\ TplOf[u] \in Nat
                        /\ TplOf[u] <= Level(u) /\ Level(u) <= tpl
                        /\ TplOf[u] < TplOf[t] /\ Level(u) < TplOf[t]
  BY <1>1, <1>2, <1>4, LevelType DEF LevelOfTop
<1>6. TypeOK'
  BY <1>1, EfiLocksAssumption DEF TypeOK
<1>7. Stacked'
  BY <1>1, <1>3, <1>4, <1>5 DEF Stacked
<1>8. LevelOfTop'
  <2>1. \A u \in active' : Level(u)' <= tpl'
    BY <1>1, <1>3, <1>4, <1>5
  <2>2. \A u \in active' : Runs(u)' => u = t
    BY <1>1, <1>4, <1>5 DEF Runs
  <2>. QED  BY <1>1, <1>3, <1>4, <2>1, <2>2 DEF LevelOfTop
<1>9. ResumesBelow'
  <2>. SUFFICES ASSUME NEW v \in active', NEW u \in active', Below(u, v)'
                PROVE  /\ Level(u)' <= resume'[v]
                       /\ (\A w \in active' : Below(w, v)' => TplOf[w] <= TplOf[u])
                            => resume'[v] = Level(u)'
    BY DEF ResumesBelow
  <2>1. u \in active
    BY <1>1, <1>4, <1>5 DEF Below
  <2>2. CASE v = t
    <3>1. Level(u)' <= resume'[v]
      BY <1>1, <1>3, <1>5, <2>1, <2>2
    <3>2. (\A w \in active' : Below(w, v)' => TplOf[w] <= TplOf[u]) => Runs(u)
      BY <1>1, <1>5, <2>1, <2>2 DEF Below, Runs
    <3>. QED  BY <1>1, <1>3, <2>1, <2>2, <3>1, <3>2 DEF LevelOfTop
  <2>3. CASE v \in active
    BY <1>1, <1>2, <1>3, <2>1, <2>3 DEF ResumesBelow, Below
  <2>. QED  BY <1>1, <2>2, <2>3
<1>10. OwnLevel'
  BY <1>1, <1>3 DEF OwnLevel
<1>11. Exclusive'
  BY <1>1, <1>3 DEF Exclusive
<1>. QED  BY <1>6, <1>7, <1>8, <1>9, <1>10, <1>11

(* The one on top returns to the level of the one right below it.          *)
LEMMA ReturnLockInv ==
  ASSUME LockInv, NEW t \in Tasks, Return(t)
  PROVE  LockInv'
<1>. USE DEF LockInv
<1>1. /\ Runs(t) /\ t \in active /\ active' = active \ {t}
      /\ ~ Inside(t) /\ tpl' = resume[t]
      /\ UNCHANGED <<resume, at, saved, OwnerTpl, Lock>>
  BY DEF Return, Runs, Inside
<1>2. \A u : Inside(u)' = Inside(u) /\ Level(u)' = Level(u)
  BY <1>1 DEF Inside, Level
<1>3. \A u \in active' : u \in active /\ u # t /\ TplOf[u] < TplOf[t]
  BY <1>1, TopIsAbove
<1>4. TypeOK'
  BY <1>1 DEF TypeOK
<1>5. Stacked'
  BY <1>1, <1>2, <1>3 DEF Stacked
<1>6. LevelOfTop'
  <2>1. \A u \in active' : Level(u)' <= tpl'
    BY <1>1, <1>2, <1>3 DEF ResumesBelow, Below
  <2>2. ASSUME NEW u \in active', Runs(u)'
        PROVE  tpl' = Level(u)'
    <3>1. \A w \in active : Below(w, t) => TplOf[w] <= TplOf[u]
      BY <1>1, <2>2, EfiLocksAssumption DEF Below, Runs, TypeOK
    <3>. QED  BY <1>1, <1>2, <1>3, <3>1 DEF ResumesBelow, Below
  <2>. QED  BY <2>1, <2>2 DEF LevelOfTop
<1>7. ResumesBelow'
  <2>. SUFFICES ASSUME NEW v \in active', NEW u \in active', Below(u, v)'
                PROVE  /\ Level(u)' <= resume'[v]
                       /\ (\A w \in active' : Below(w, v)' => TplOf[w] <= TplOf[u])
                            => resume'[v] = Level(u)'
    BY DEF ResumesBelow
  <2>1. Below(u, v) /\ ~ Below(t, v)
    BY <1>1, <1>3, EfiLocksAssumption DEF Below, Runs, TypeOK
  <2>2. (\A w \in active' : Below(w, v)' => TplOf[w] <= TplOf[u])
          => (\A w \in active : Below(w, v) => TplOf[w] <= TplOf[u])
    BY <1>1, <2>1 DEF Below
  <2>. QED  BY <1>1, <1>2, <1>3, <2>1, <2>2 DEF ResumesBelow
<1>8. OwnLevel'
  BY <1>1, <1>2 DEF OwnLevel
<1>9. Exclusive'
  BY <1>1, <1>2 DEF Exclusive
<1>. QED  BY <1>4, <1>5, <1>6, <1>7, <1>8, <1>9

(* A step of the task on top disturbs nobody's place in the stack, as long *)
(* as the firmware's level is the task's afterwards, and not below its own.*)
LEMMA TopSteps ==
  ASSUME LockInv, NEW t \in Tasks, Runs(t), TypeOK', OwnLevel',
         UNCHANGED <<active, resume>>, tpl' = Level(t)',
         \A u \in Tasks : u # t => at'[u] = at[u]
  PROVE  Stacked' /\ LevelOfTop' /\ ResumesBelow'
<1>. USE DEF LockInv
<1>1. t \in active /\ active \subseteq Tasks
  BY DEF Runs, TypeOK
<1>2. \A u \in active : u # t => /\ Level(u)' = Level(u)
                                 /\ TplOf[u] < TplOf[t] /\ Level(u) < TplOf[t]
  BY <1>1, TopIsAbove DEF Level, Inside
<1>3. \A u \in active : Level(u)' \in Nat /\ TplOf[u] \in Nat /\ TplOf[u] <= Level(u)'
  BY <1>1, EfiLocksAssumption DEF TypeOK, OwnLevel, Level
<1>4. Stacked'
  BY <1>1, <1>2, <1>3 DEF Stacked
<1>5. LevelOfTop'
  <2>1. \A u \in active : Level(u)' <= tpl'
    BY <1>1, <1>2, <1>3, LevelType
  <2>2. \A u \in active : Runs(u)' => u = t
    BY <1>1, <1>2, <1>3 DEF Runs
  <2>. QED  BY <2>1, <2>2 DEF LevelOfTop
<1>6. ResumesBelow'
  <2>. SUFFICES ASSUME NEW v \in active, NEW u \in active, Below(u, v)
                PROVE  /\ Level(u)' <= resume[v]
                       /\ (\A w \in active : Below(w, v) => TplOf[w] <= TplOf[u])
                            => resume[v] = Level(u)'
    BY DEF ResumesBelow, Below
  <2>1. u # t
    BY <1>1, <1>2, <1>3 DEF Below
  <2>. QED  BY <1>2, <2>1 DEF ResumesBelow
<1>. QED  BY <1>4, <1>5, <1>6

(* The two fields of the lock and the level in hand, step by step.         *)
LEMMA StepLockInv ==
  ASSUME LockInv, NEW t \in Tasks,
         \/ RaiseTPL(t) \/ StoreOwner(t) \/ CountUp(t)
         \/ LoadOwner(t) \/ CountDown(t) \/ RestoreTPL(t)
  PROVE  LockInv'
<1>. USE DEF LockInv
<1>1. /\ Runs(t) /\ t \in active /\ UNCHANGED <<active, resume>>
      /\ \A u \in Tasks : u # t => at'[u] = at[u] /\ saved'[u] = saved[u]
  BY DEF Runs, RaiseTPL, StoreOwner, CountUp, LoadOwner, CountDown, RestoreTPL, Go, TypeOK
<1>2. t \in Users
  BY DEF RaiseTPL, StoreOwner, CountUp, LoadOwner, CountDown, RestoreTPL, Go, OwnLevel, Inside
<1>3. \A u \in Tasks : u # t => at[u] = "out"
  BY <1>1, <1>2, UserAlone DEF Inside
<1>4. /\ tpl = Level(t) /\ TplOf[t] \in Nat /\ Tpl \in Nat
      /\ at \in [Tasks -> Places] /\ saved \in [Tasks -> Nat] /\ Lock \in Int /\ OwnerTpl \in Nat
  BY <1>1, EfiLocksAssumption DEF LevelOfTop, TypeOK
<1>5. /\ TypeOK' /\ tpl' = Level(t)' /\ OwnLevel'
      /\ Lock' = (IF at'[t] \in {"held", "releasing"} THEN 1 ELSE 0)
  <2>0. Lock = (IF at[t] \in {"held", "releasing"} THEN 1 ELSE 0)
    BY <1>3, <1>4 DEF Exclusive
  <2>. SUFFICES /\ TypeOK' /\ tpl' = Level(t)'
                /\ at'[t] \in {"raised", "releasing", "released"} => saved'[t] = TplOf[t]
                /\ at'[t] \in {"owned", "held"} => OwnerTpl' = TplOf[t]
                /\ Lock' = (IF at'[t] \in {"held", "releasing"} THEN 1 ELSE 0)
    BY <1>1, <1>2, <1>3 DEF OwnLevel, Inside
  <2>1. CASE RaiseTPL(t)
    BY <1>4, <2>0, <2>1 DEF RaiseTPL, Go, Raised, Level, Inside, TypeOK, Places
  <2>2. CASE StoreOwner(t)
    BY <1>4, <2>0, <2>2 DEF StoreOwner, Go, Level, Inside, TypeOK, Places, OwnLevel
  <2>3. CASE CountUp(t)
    BY <1>4, <2>0, <2>3 DEF CountUp, Go, Level, Inside, TypeOK, Places, OwnLevel
  <2>4. CASE LoadOwner(t)
    BY <1>4, <2>0, <2>4 DEF LoadOwner, Go, Level, Inside, TypeOK, Places, OwnLevel
  <2>5. CASE CountDown(t)
    BY <1>4, <2>0, <2>5 DEF CountDown, Go, Level, Inside, TypeOK, Places, OwnLevel
  <2>6. CASE RestoreTPL(t)
    BY <1>4, <2>0, <2>6 DEF RestoreTPL, Go, Level, Inside, TypeOK, Places, OwnLevel
  <2>. QED  BY <2>1, <2>2, <2>3, <2>4, <2>5, <2>6
<1>6. Stacked' /\ LevelOfTop' /\ ResumesBelow'
  BY <1>1, <1>5, TopSteps
<1>7. Exclusive'
  BY <1>1, <1>3, <1>5 DEF Exclusive, Inside
<1>. QED  BY <1>5, <1>6, <1>7

(* Every step of every task keeps the invariant.                           *)
LEMMA LockNext == LockInv /\ [Next]_vars => LockInv'
<1>. SUFFICES ASSUME LockInv, [Next]_vars PROVE LockInv'
  OBVIOUS
<1>1. CASE UNCHANGED vars
  BY <1>1 DEF vars, LockInv, TypeOK, Stacked, LevelOfTop, ResumesBelow, OwnLevel, Exclusive,
              Level, Inside, Runs, Below
<1>2. CASE Next
  BY <1>2, NotifyLockInv, ReturnLockInv, StepLockInv DEF Next
<1>. QED  BY <1>1, <1>2

(* The invariant always holds.                                             *)
LEMMA LockInvariant == Spec => []LockInv
  BY LockInit, LockNext, PTL DEF Spec

-----------------------------------------------------------------------------
(* The fields of the lock keep their types, whichever tasks preempt.       *)
THEOREM LockTypes == Spec => []TypeOK
<1>1. LockInv => TypeOK
  BY DEF LockInv
<1>. QED  BY <1>1, LockInvariant, PTL

(* RtAcquireLock excludes: one task between it and RtReleaseLock, and a    *)
(* counter that is 1 just while a task holds the lock.                     *)
THEOREM LockExcludes == Spec => []Exclusive
<1>1. LockInv => Exclusive
  BY DEF LockInv
<1>. QED  BY <1>1, LockInvariant, PTL

(* RtReleaseLock gives each task the level that RtAcquireLock found, and   *)
(* the firmware gives each preempted task its level back.                  *)
THEOREM LockRestores == Spec => []LevelRestored
<1>1. LockInv => LevelRestored
  BY DEF LockInv, LevelOfTop, LevelRestored, Level, Runs
<1>. QED  BY <1>1, LockInvariant, PTL

-----------------------------------------------------------------------------
(* Printing: the instance that EfiDataProofs tells of                      *)

Data == INSTANCE EfiDataProofs WITH Index <- fmtIndex, Buffer <- Pending

(* The two instances of EfiPrint lay out the same text,                    *)
LEMMA SameText ==
  /\ \A ss : Printing!AllTokens(ss) = Data!AllTokens(ss)
  /\ \A text : Printing!WithReturns(text) = Data!WithReturns(text)
  /\ \A item, text : Printing!PITEM(item, text) = Data!PITEM(item, text)
  /\ Printing!Meant = Data!Meant /\ Printing!Glyphs = Data!Glyphs
  /\ \A i : Printing!AttrBefore(i) = Data!AttrBefore(i)
<1>1. \A q : Printing!FlattenSeq(q) = Data!FlattenSeq(q)
  BY DEF Printing!FlattenSeq, Data!FlattenSeq
<1>2. \A s : Printing!Tokens(s) = Data!Tokens(s)
  BY Zenon DEF Printing!Tokens, Data!Tokens, Printing!Tok, Data!Tok, Printing!When,
     Data!When
<1>3. \A ss : Printing!AllTokens(ss) = Data!AllTokens(ss)
  BY <1>1, <1>2 DEF Printing!AllTokens, Data!AllTokens
<1>4. \A text : Printing!WithReturns(text) = Data!WithReturns(text)
  BY <1>1 DEF Printing!WithReturns, Data!WithReturns
<1>5. \A item, text : Printing!PITEM(item, text) = Data!PITEM(item, text)
  BY DEF Printing!PITEM, Data!PITEM, Printing!Fill, Data!Fill, Printing!Before,
     Data!Before, Printing!None, Data!None
<1>6. \A i : Printing!AttrBefore(i) = Data!AttrBefore(i)
  BY Zenon DEF Printing!AttrBefore, Data!AttrBefore, Printing!AttrOf, Data!AttrOf
<1>7. \A i : Printing!AttrIn(i) = Data!AttrIn(i)
  BY <1>6, Zenon DEF Printing!AttrIn, Data!AttrIn, Printing!AttrOf, Data!AttrOf
<1>8. \A s : Printing!Laid(s) = Data!Laid(s)
  BY Zenon DEF Printing!Laid, Data!Laid, Printing!Wide, Data!Wide, Printing!Fill, Data!Fill
<1>9. \A s : Printing!Plain(s) = Data!Plain(s)
  BY <1>4, <1>8 DEF Printing!Plain, Data!Plain
<1>10. Printing!Meant = Data!Meant
  <2>1. ASSUME NEW i
        PROVE  [k \in DOMAIN Printing!Plain(segs[i]) |->
                  <<Printing!Plain(segs[i])[k], Printing!AttrIn(i)>>]
               = [k \in DOMAIN Data!Plain(segs[i]) |->
                  <<Data!Plain(segs[i])[k], Data!AttrIn(i)>>]
    BY <1>7, <1>9
  <2> QED
    BY <1>1, <2>1 DEF Printing!Meant, Data!Meant
<1>11. Printing!Glyphs = Data!Glyphs
  BY <1>10 DEF Printing!Glyphs, Data!Glyphs
<1> QED BY <1>3, <1>4, <1>5, <1>6, <1>10, <1>11

(* and take the same steps.                                                *)
LEMMA SamePrinting ==
  /\ Data!EfiPrintAssumption /\ (Printing!Init <=> Data!Init)
  /\ (Printing!Next <=> Data!Next) /\ Printing!vars = Data!vars
  /\ (PrintExact <=> Data!PrintExact)
<1>1. Data!EfiPrintAssumption
  BY EfiServicesAssumption, Zenon
     DEF EfiServicesAssumption, Printing!EfiPrintAssumption, Data!EfiPrintAssumption
<1>2. Printing!Init <=> Data!Init
  BY DEF Printing!Init, Data!Init, Printing!NewItem, Data!NewItem, Printing!None, Data!None
<1>3. Printing!vars = Data!vars
  BY DEF Printing!vars, Data!vars, Printing!ps, Data!ps, Printing!attr, Data!attr,
     Printing!dest, Data!dest
<1>4. Printing!ConsolePrint <=> Data!ConsolePrint
  BY SameText DEF Printing!ConsolePrint, Data!ConsolePrint, Printing!Format, Data!Format,
     Printing!Formats, Data!Formats
<1>5. Printing!StringPrint <=> Data!StringPrint
  BY SameText DEF Printing!StringPrint, Data!StringPrint, Printing!Format, Data!Format,
     Printing!Formats, Data!Formats
<1>6. Printing!CatPrint <=> Data!CatPrint
  BY SameText DEF Printing!CatPrint, Data!CatPrint, Printing!Format, Data!Format,
     Printing!Formats, Data!Formats
<1>7. Printing!PPUTC <=> Data!PPUTC
  BY DEF Printing!PPUTC, Data!PPUTC, Printing!AtEnd, Data!AtEnd, Printing!dest, Data!dest,
     Printing!attr, Data!attr, Printing!PFLUSH, Data!PFLUSH, Printing!Output, Data!Output,
     Printing!Grown, Data!Grown, Printing!Moved, Data!Moved, Printing!Appended,
     Data!Appended
<1>8. Printing!Text <=> Data!Text
  BY SameText DEF Printing!Text, Data!Text, Printing!Read, Data!Read, Printing!Fixed,
     Data!Fixed, Printing!NewItem, Data!NewItem, Printing!None, Data!None, Printing!Quiet,
     Data!Quiet, Printing!dest, Data!dest
<1>9. Printing!Flag <=> Data!Flag
  BY DEF Printing!Flag, Data!Flag, Printing!Read, Data!Read, Printing!Fixed, Data!Fixed,
     Printing!Quiet, Data!Quiet, Printing!dest, Data!dest
<1>10. Printing!ItemAttr <=> Data!ItemAttr
  BY DEF Printing!ItemAttr, Data!ItemAttr, Printing!Read, Data!Read, Printing!Fixed,
     Data!Fixed, Printing!PSETATTR, Data!PSETATTR, Printing!AttrOf, Data!AttrOf,
     Printing!PFLUSH, Data!PFLUSH, Printing!Output, Data!Output, Printing!Grown,
     Data!Grown, Printing!Moved, Data!Moved, Printing!Appended, Data!Appended
<1>11. Printing!SetAttr <=> Data!SetAttr
  BY DEF Printing!SetAttr, Data!SetAttr, Printing!Read, Data!Read, Printing!Fixed,
     Data!Fixed, Printing!AttrOf, Data!AttrOf, Printing!PFLUSH, Data!PFLUSH,
     Printing!Output, Data!Output, Printing!Grown, Data!Grown, Printing!Moved, Data!Moved,
     Printing!Appended, Data!Appended, Printing!Quiet, Data!Quiet, Printing!dest, Data!dest
<1>12. Printing!Convert <=> Data!Convert
  BY SameText DEF Printing!Convert, Data!Convert, Printing!Read, Data!Read, Printing!Fixed,
     Data!Fixed, Printing!Quiet, Data!Quiet, Printing!dest, Data!dest
<1>13. Printing!ItemDone <=> Data!ItemDone
  BY DEF Printing!ItemDone, Data!ItemDone, Printing!Restored, Data!Restored, Printing!Fixed,
     Data!Fixed, Printing!PSETATTR, Data!PSETATTR, Printing!attr, Data!attr, Printing!dest,
     Data!dest, Printing!PFLUSH, Data!PFLUSH, Printing!Output, Data!Output, Printing!Grown,
     Data!Grown, Printing!Moved, Data!Moved, Printing!Appended, Data!Appended
<1>14. Printing!Stop <=> Data!Stop
  BY DEF Printing!Stop, Data!Stop, Printing!vars, Data!vars, Printing!ps, Data!ps,
     Printing!attr, Data!attr, Printing!dest, Data!dest
<1>15. Printing!Finish <=> Data!Finish
  BY DEF Printing!Finish, Data!Finish, Printing!Fixed, Data!Fixed, Printing!attr,
     Data!attr, Printing!dest, Data!dest, Printing!PFLUSH, Data!PFLUSH, Printing!Output,
     Data!Output, Printing!Grown, Data!Grown, Printing!Moved, Data!Moved,
     Printing!Appended, Data!Appended
<1>16. Printing!Next <=> Data!Next
  BY <1>3, <1>4, <1>5, <1>6, <1>7, <1>8, <1>9, <1>10, <1>11, <1>12, <1>13, <1>14, <1>15
     DEF Printing!Next, Data!Next
<1>17. Printing!Whole = Data!Whole /\ Printing!Colours = Data!Colours
  BY SameText DEF Printing!Whole, Data!Whole, Printing!Colours, Data!Colours
<1>18. PrintExact <=> Data!PrintExact
  BY SameText, <1>17 DEF PrintExact, Printing!PrintExact, Data!PrintExact
<1> QED BY <1>1, <1>2, <1>3, <1>16, <1>18

(* Whatever the format, its author gets what was meant, character by       *)
(* character, with its attributes, widths and padding, though the buffer   *)
(* may be handed over at any place and the pool run out.                   *)
THEOREM PrintsAsMeant == ServicesSpec => []PrintExact
<1>1. ServicesInit => Data!PrintInv
  BY SamePrinting, Data!PrintInit DEF ServicesInit
<1>2. Data!PrintInv /\ [ServicesNext]_servicesVars => Data!PrintInv'
  <2>1. UNCHANGED printVars => UNCHANGED Data!vars
    BY DEF printVars, Data!vars, Data!ps, Data!attr, Data!dest
  <2>2. [ServicesNext]_servicesVars => Data!Next \/ UNCHANGED printVars
    BY SamePrinting DEF ServicesNext, servicesVars
  <2> QED BY <2>1, <2>2, SamePrinting, Data!PrintNext, Data!PrintRest
<1>3. Data!PrintInv => PrintExact
  BY SamePrinting, Data!PrintMeant
<1> QED BY <1>1, <1>2, <1>3, PTL DEF ServicesSpec

-----------------------------------------------------------------------------
(* The applications of gnu-efi                                             *)

(* The first match in a sequence is the least of the matches.              *)
LEMMA LeastMatch ==
  ASSUME NEW n \in Nat, NEW I, I \subseteq 1 .. n, I # {}
  PROVE  /\ Apps!Min(I) \in I /\ \A k \in I : Apps!Min(I) <= k
<1>1. I \subseteq Nat
  OBVIOUS
<1>2. \E m \in I : \A k \in I : m <= k
  BY <1>1, Data!LeastOf
<1> QED BY <1>2, Zenon DEF Apps!Min

(* A part before and a part after: the sequence without one element.       *)
LEMMA OneOut ==
  ASSUME NEW S, NEW s \in Seq(S), NEW n \in Nat, Len(s) = n, NEW i \in 1 .. n
  PROVE  LET r == SubSeq(s, 1, i - 1) \o SubSeq(s, i + 1, n)
         IN  /\ r \in Seq(S) /\ Len(r) = n - 1
             /\ \A k \in 1 .. n - 1 : r[k] = IF k < i THEN s[k] ELSE s[k + 1]
<1> DEFINE a == SubSeq(s, 1, i - 1)
           b == SubSeq(s, i + 1, n)
           r == a \o b
<1>1. /\ i \in Nat /\ 1 <= i /\ i <= n /\ 1 \in Nat \ {0} /\ i + 1 \in Nat \ {0}
      /\ i - 1 \in Nat /\ n - i \in Nat /\ i - 1 <= n /\ 1 <= i - 1 + 1 /\ i + 1 <= n + 1
      /\ i - 1 - 1 + 1 = i - 1 /\ n - (i + 1) + 1 = n - i /\ n <= n
  OBVIOUS
<1>2. a \in Seq(S) /\ Len(a) = i - 1 /\ \A k \in 1 .. i - 1 : a[k] = s[1 + k - 1]
  BY <1>1, Data!PieceOf
<1>3. b \in Seq(S) /\ Len(b) = n - i /\ \A k \in 1 .. n - i : b[k] = s[i + 1 + k - 1]
  BY <1>1, Data!PieceOf
<1> HIDE DEF a, b
<1>4. /\ a \o b \in Seq(S) /\ Len(a \o b) = (i - 1) + (n - i)
      /\ \A k \in 1 .. i - 1 : (a \o b)[k] = a[k]
      /\ \A k \in 1 .. n - i : (a \o b)[(i - 1) + k] = b[k]
  <2>1. /\ a \o b \in Seq(S) /\ Len(a \o b) = Len(a) + Len(b)
        /\ \A k \in 1 .. Len(a) : (a \o b)[k] = a[k]
        /\ \A k \in 1 .. Len(b) : (a \o b)[Len(a) + k] = b[k]
    <3>1. a \in Seq(S) /\ b \in Seq(S)
      BY <1>2, <1>3, Zenon
    <3> QED BY <3>1, Data!TwoParts
  <2> QED BY <1>2, <1>3, <2>1, Zenon
<1>6. ASSUME NEW k \in 1 .. n - 1, k < i PROVE r[k] = s[k]
  <2>1. k \in 1 .. i - 1 /\ 1 + k - 1 = k
    BY <1>1, <1>6
  <2> QED BY <1>2, <1>4, <2>1, Zenon
<1>7. ASSUME NEW k \in 1 .. n - 1, ~ (k < i) PROVE r[k] = s[k + 1]
  <2>1. k - (i - 1) \in 1 .. n - i /\ (i - 1) + (k - (i - 1)) = k /\ i + 1 + (k - (i - 1)) - 1 = k + 1
    BY <1>1, <1>7
  <2>2. (a \o b)[(i - 1) + (k - (i - 1))] = b[k - (i - 1)]
    BY <1>4, <2>1, Zenon
  <2>3. b[k - (i - 1)] = s[i + 1 + (k - (i - 1)) - 1]
    BY <1>3, <2>1, Zenon
  <2> QED BY <2>1, <2>2, <2>3, Zenon
<1>8. (i - 1) + (n - i) = n - 1
  BY <1>1
<1>9. r \in Seq(S) /\ Len(r) = n - 1
  BY <1>4, <1>8, Zenon
<1> HIDE DEF r
<1>5. \A k \in 1 .. n - 1 : r[k] = IF k < i THEN s[k] ELSE s[k + 1]
  BY <1>6, <1>7, Zenon
<1> QED BY <1>5, <1>9, Zenon DEF r, a, b

(* How long a sequence is.                                                 *)
LEMMA LengthOf ==
  ASSUME NEW S, NEW s \in Seq(S)
  PROVE  \E n \in Nat : Len(s) = n /\ DOMAIN s = 1 .. n
OBVIOUS

(* What is in a sequence once is not in it once it is removed.             *)
LEMMA RemovedOnce ==
  ASSUME NEW S, NEW s \in Seq(S), NEW c, Apps!IsInjective(s), c \in Apps!ToSet(s),
         NEW r, r = Apps!RemoveFirst(s, c)
  PROVE  r \in Seq(S) /\ Apps!IsInjective(r) /\ Apps!ToSet(r) = Apps!ToSet(s) \ {c}
<1> DEFINE I == {k \in 1 .. Len(s) : s[k] = c}
<1>1. PICK n \in Nat : Len(s) = n /\ DOMAIN s = 1 .. n
  BY LengthOf
<1>2. PICK i \in 1 .. n : s[i] = c
  BY <1>1 DEF Apps!ToSet
<1>3. \A j, k \in 1 .. n : s[j] = s[k] => j = k
  BY <1>1 DEF Apps!IsInjective
<1>4. I = {i}
  BY <1>1, <1>2, <1>3
<1>5. r = SubSeq(s, 1, i - 1) \o SubSeq(s, i + 1, Len(s))
  <2>1. Apps!Min(I) = i
    <3>1. {i} \subseteq 1 .. n /\ {i} # {}
      OBVIOUS
    <3>2. Apps!Min({i}) \in {i}
      BY <3>1, LeastMatch, Zenon
    <3> QED BY <1>4, <3>2, Zenon
  <2>2. Apps!SelectInSeq(s, LAMBDA v : v = c) = IF I # {} THEN Apps!Min(I) ELSE 0
    BY DEF Apps!SelectInSeq
  <2>3. \E k \in 1 .. Len(s) : s[k] = c
    BY <1>1, <1>2
  <2>4. r = Apps!RemoveAt(s, Apps!SelectInSeq(s, LAMBDA v : v = c))
    BY <2>3 DEF Apps!RemoveFirst
  <2>5. Apps!SelectInSeq(s, LAMBDA v : v = c) = i
    BY <1>4, <2>1, <2>2, Zenon
  <2> QED BY <2>4, <2>5, Zenon DEF Apps!RemoveAt
<1>6. /\ r \in Seq(S) /\ Len(r) = n - 1
      /\ \A k \in 1 .. n - 1 : r[k] = IF k < i THEN s[k] ELSE s[k + 1]
  <2>1. LET q == SubSeq(s, 1, i - 1) \o SubSeq(s, i + 1, n)
        IN  /\ q \in Seq(S) /\ Len(q) = n - 1
            /\ \A k \in 1 .. n - 1 : q[k] = IF k < i THEN s[k] ELSE s[k + 1]
    BY <1>1, <1>1, OneOut
  <2> QED BY <1>1, <1>5, <2>1, Zenon
<1>7. DOMAIN r = 1 .. n - 1
  BY <1>1, <1>6
<1>8. n \in Nat /\ i \in Nat /\ 1 <= i /\ i <= n
  BY <1>1, <1>2
<1>9. ASSUME NEW j \in 1 .. n - 1, NEW k \in 1 .. n - 1, r[j] = r[k] PROVE j = k
  <2>1. /\ j \in 1 .. n /\ j + 1 \in 1 .. n /\ k \in 1 .. n /\ k + 1 \in 1 .. n
    BY <1>8
  <2>2. r[j] = IF j < i THEN s[j] ELSE s[j + 1]
    BY <1>6, Zenon
  <2>3. r[k] = IF k < i THEN s[k] ELSE s[k + 1]
    BY <1>6, Zenon
  <2>4. CASE j < i /\ k < i
    BY <1>3, <1>9, <2>1, <2>2, <2>3, <2>4, Zenon
  <2>5. CASE j < i /\ ~ (k < i)
    <3>1. j = k + 1
      BY <1>3, <1>9, <2>1, <2>2, <2>3, <2>5, Zenon
    <3> QED BY <1>8, <2>5, <3>1
  <2>6. CASE ~ (j < i) /\ k < i
    <3>1. j + 1 = k
      BY <1>3, <1>9, <2>1, <2>2, <2>3, <2>6, Zenon
    <3> QED BY <1>8, <2>6, <3>1
  <2>7. CASE ~ (j < i) /\ ~ (k < i)
    <3>1. j + 1 = k + 1
      BY <1>3, <1>9, <2>1, <2>2, <2>3, <2>7, Zenon
    <3> QED BY <1>8, <3>1
  <2> QED BY <2>4, <2>5, <2>6, <2>7, Zenon
<1>10. ASSUME NEW k \in 1 .. n - 1 PROVE \E x \in 1 .. n : r[k] = s[x] /\ x # i
  <2>1. k \in 1 .. n /\ k + 1 \in 1 .. n /\ (~ (k < i) => k + 1 # i) /\ (k < i => k # i)
    BY <1>8
  <2>2. r[k] = IF k < i THEN s[k] ELSE s[k + 1]
    BY <1>6, Zenon
  <2> QED BY <2>1, <2>2, Zenon
<1>11. ASSUME NEW k \in 1 .. n, s[k] # c PROVE \E j \in 1 .. n - 1 : r[j] = s[k]
  <2>1. k # i
    BY <1>2, <1>11
  <2>2. CASE k < i
    <3>1. k \in 1 .. n - 1
      BY <1>8, <2>2
    <3> QED BY <1>6, <2>2, <3>1, Zenon
  <2>3. CASE k > i
    <3>1. k - 1 \in 1 .. n - 1 /\ ~ (k - 1 < i) /\ (k - 1) + 1 = k
      BY <1>8, <2>3
    <3>2. r[k - 1] = s[(k - 1) + 1]
      BY <1>6, <3>1, Zenon
    <3> QED BY <3>1, <3>2, Zenon
  <2> QED BY <1>8, <2>1, <2>2, <2>3
<1>12. Apps!ToSet(r) = {r[k] : k \in 1 .. n - 1} /\ Apps!ToSet(s) = {s[k] : k \in 1 .. n}
  BY <1>1, <1>7, Zenon DEF Apps!ToSet
<1>13. Apps!ToSet(r) = Apps!ToSet(s) \ {c}
  <2>1. ASSUME NEW x \in Apps!ToSet(r) PROVE x \in Apps!ToSet(s) /\ x # c
    <3>1. PICK k \in 1 .. n - 1 : x = r[k]
      BY <1>12, <2>1, Zenon
    <3>2. PICK y \in 1 .. n : x = s[y] /\ y # i
      BY <1>10, <3>1, Zenon
    <3> QED BY <1>2, <1>3, <1>12, <3>2, Zenon
  <2>2. ASSUME NEW x \in Apps!ToSet(s), x # c PROVE x \in Apps!ToSet(r)
    BY <1>11, <1>12, <2>2, Zenon
  <2> QED BY <2>1, <2>2, Zenon
<1>14. Apps!IsInjective(r)
  BY <1>7, <1>9, Zenon DEF Apps!IsInjective
<1> QED BY <1>6, <1>13, <1>14

(* The driver: what DriverExact says is all that its steps rely on.        *)
DriverInv == handles \in Seq(Copies) /\ Apps!DriverExact

(* Nothing is loaded at first.                                             *)
LEMMA DriverStart == ASSUME Apps!DriverInit PROVE DriverInv
<1>1. handles = <<>> /\ resident = {} /\ stuck = {} /\ told = <<>>
  BY DEF Apps!DriverInit
<1>2. handles \in Seq(Copies) /\ DOMAIN handles = {} /\ DOMAIN told = {}
  BY <1>1
<1>3. Apps!IsInjective(handles) /\ Apps!ToSet(handles) = {}
  BY <1>2 DEF Apps!IsInjective, Apps!ToSet
<1>4. ~ Apps!Lost
  BY <1>2 DEF Apps!Lost
<1> QED BY <1>1, <1>2, <1>3, <1>4, Zenon DEF DriverInv, Apps!DriverExact

(* One more at the end.                                                    *)
LEMMA OneMore ==
  ASSUME NEW S, NEW s \in Seq(S), NEW c \in S, Apps!IsInjective(s), c \notin Apps!ToSet(s)
  PROVE  LET r == Append(s, c)
         IN  r \in Seq(S) /\ Apps!IsInjective(r) /\ Apps!ToSet(r) = Apps!ToSet(s) \union {c}
<1> DEFINE r == Append(s, c)
<1>1. PICK n \in Nat : Len(s) = n /\ DOMAIN s = 1 .. n
  OBVIOUS
<1>2. /\ r \in Seq(S) /\ DOMAIN r = 1 .. n + 1
      /\ r[n + 1] = c /\ \A k \in 1 .. n : r[k] = s[k]
  BY <1>1, AppendProperties
<1> HIDE DEF r
<1>3. \A k \in 1 .. n + 1 : k \in 1 .. n \/ k = n + 1
  OBVIOUS
<1>4. Apps!ToSet(s) = {s[k] : k \in 1 .. n} /\ Apps!ToSet(r) = {r[k] : k \in 1 .. n + 1}
  BY <1>1, <1>2, Zenon DEF Apps!ToSet
<1>5. \A k \in 1 .. n : s[k] # c
  BY <1>4, Zenon
<1>6. \A j, k \in 1 .. n : s[j] = s[k] => j = k
  BY <1>1, Zenon DEF Apps!IsInjective
<1>7. ASSUME NEW j \in 1 .. n + 1, NEW k \in 1 .. n + 1, r[j] = r[k] PROVE j = k
  BY <1>2, <1>3, <1>5, <1>6, <1>7, Zenon
<1>8. Apps!IsInjective(r)
  BY <1>2, <1>7, Zenon DEF Apps!IsInjective
<1>9. n + 1 \in 1 .. n + 1 /\ \A k \in 1 .. n : k \in 1 .. n + 1
  OBVIOUS
<1>10. Apps!ToSet(r) = Apps!ToSet(s) \union {c}
  BY <1>2, <1>3, <1>4, <1>9, Zenon
<1> QED BY <1>2, <1>8, <1>10, Zenon DEF r

(* Every step keeps it.                                                    *)
LEMMA DriverNext == ASSUME DriverInv, Apps!DriverNext PROVE DriverInv'
<1> USE DEF DriverInv, Apps!DriverExact
<1>1. ASSUME NEW c \in Copies, Apps!Load(c) PROVE DriverInv'
  <2>1. /\ c \notin resident /\ c \notin Apps!ToSet(handles)
        /\ told' = told /\ stuck' = stuck
        /\ \/ handles' = Append(handles, c) /\ resident' = resident \union {c}
           \/ handles' = handles /\ resident' = resident
    BY <1>1, Zenon DEF Apps!Load
  <2>2. Apps!Lost' => Apps!Lost
    BY <2>1 DEF Apps!Lost
  <2>3. CASE handles' = Append(handles, c) /\ resident' = resident \union {c}
    <3>1. /\ handles' \in Seq(Copies) /\ Apps!IsInjective(handles')
          /\ Apps!ToSet(handles') = Apps!ToSet(handles) \union {c}
      BY <2>1, <2>3, OneMore
    <3> QED BY <2>1, <2>2, <2>3, <3>1
  <2>4. CASE handles' = handles /\ resident' = resident
    BY <2>1, <2>2, <2>4
  <2> QED BY <2>1, <2>3, <2>4
<1>2. ASSUME NEW c \in Copies, Apps!Drv0Unload(c) PROVE DriverInv'
  <2>1. /\ c \in resident /\ resident' = resident \ {c} /\ told' = told
        /\ \/ stuck' = stuck \union {c} /\ handles' = handles
           \/ stuck' = stuck /\ handles' = Apps!RemoveFirst(handles, c)
    BY <1>2 DEF Apps!Drv0Unload, Apps!Uninstalled
  <2>2. Apps!Lost' => Apps!Lost
    BY <2>1 DEF Apps!Lost
  <2>3. CASE stuck' = stuck \union {c} /\ handles' = handles
    BY <2>1, <2>2, <2>3
  <2>4. CASE stuck' = stuck /\ handles' = Apps!RemoveFirst(handles, c)
    <3>1. c \in Apps!ToSet(handles)
      BY <2>1
    <3>2. /\ handles' \in Seq(Copies) /\ Apps!IsInjective(handles')
          /\ Apps!ToSet(handles') = Apps!ToSet(handles) \ {c}
      BY <2>4, <3>1, RemovedOnce
    <3> QED BY <2>1, <2>2, <2>4, <3>2
  <2> QED BY <2>1, <2>3, <2>4
<1>3. ASSUME Apps!Use PROVE DriverInv'
  <2>1. resident' = resident /\ handles' = handles /\ stuck' = stuck
    BY <1>3 DEF Apps!Use
  <2>2. ASSUME Apps!Lost' PROVE stuck # {}
    <3>1. PICK opens \in SUBSET Apps!ToSet(handles) :
            told' = IF handles = <<>> THEN <<<<"NOT_FOUND", 0>>>>
                    ELSE [k \in DOMAIN handles |-> Apps!Play(opens, handles[k])]
      BY <1>3 DEF Apps!Use
    <3>2. PICK k \in DOMAIN told' : told'[k][1] = "undefined"
      BY <2>2 DEF Apps!Lost, Apps!Undefined
    <3>3. handles # <<>>
      <4> SUFFICES ASSUME handles = <<>> PROVE FALSE
        OBVIOUS
      <4>1. told' = <<<<"NOT_FOUND", 0>>>>
        BY <3>1
      <4> QED BY <3>2, <4>1
    <3>4. k \in DOMAIN handles /\ told'[k] = Apps!Play(opens, handles[k])
      BY <3>1, <3>2, <3>3
    <3>5. handles[k] \notin resident
      BY <3>2, <3>4 DEF Apps!Play
    <3>6. handles[k] \in Apps!ToSet(handles)
      BY <3>4, Zenon DEF Apps!ToSet
    <3> QED BY <3>5, <3>6
  <2> QED BY <2>1, <2>2
<1>4. ASSUME NEW c \in Copies, Apps!HoldOrLetGo(c) PROVE DriverInv'
  <2>1. UNCHANGED <<resident, handles, told, stuck>>
    BY <1>4, Zenon DEF Apps!HoldOrLetGo
  <2> QED BY <2>1 DEF Apps!Lost
<1>5. ASSUME UNCHANGED Apps!driverVars PROVE DriverInv'
  BY <1>5 DEF Apps!driverVars, Apps!Lost
<1> QED BY <1>1, <1>2, <1>3, <1>4, <1>5, Zenon DEF Apps!DriverNext

(* What is asked, and answered.                                            *)
LEMMA Answered ==
  ASSUME NEW q, NEW s, NEW a, Apps!Ask(q, s, a)
  PROVE  Apps!question' = q /\ Apps!subject' = s /\ Apps!answer' = a
BY DEF Apps!Ask, Apps!question, Apps!subject, Apps!answer

(* A few of a set are a sequence.                                          *)
LEMMA FewOf ==
  ASSUME NEW n \in Nat, NEW S, NEW s \in Apps!Few(n, S)
  PROVE  s \in Seq(S) /\ Len(s) <= n
<1>1. PICK k \in 0 .. n : s \in [1 .. k -> S]
  BY DEF Apps!Few
<1> QED BY <1>1

(* A number that fits in a word is read as typed, and is not taken for     *)
(* signed if it is within a limit.                                         *)
LEMMA ReadAsTyped ==
  ASSUME Apps!EfiAppsAssumption, NEW t \in Nat, t < VALUE_MOD
  PROVE  /\ Apps!xtoi(t) = t
         /\ \A most \in 0 .. VALUE_MOD \div 2 - 1 :
              IF t <= most THEN Apps!INTN(t) = t /\ ~ Apps!Invalid(t, most)
              ELSE Apps!Invalid(Apps!INTN(t), most)
<1>1. PICK v \in Nat : v = VALUE_MOD /\ v > 2
  BY DEF Apps!EfiAppsAssumption
<1>2. t % v = t
  BY <1>1
<1>3. \A most \in 0 .. v \div 2 - 1 :
        IF t <= most THEN ~ (t >= v \div 2) /\ ~ (t < 0 \/ t > most)
        ELSE t >= v \div 2 \/ t > most
  BY <1>1
<1>4. t - v < 0
  BY <1>1
<1>5. Apps!xtoi(t) = t
  BY <1>1, <1>2, Zenon DEF Apps!xtoi
<1>6. ASSUME NEW most \in 0 .. v \div 2 - 1
      PROVE  IF t <= most THEN Apps!INTN(t) = t /\ ~ Apps!Invalid(t, most)
             ELSE Apps!Invalid(Apps!INTN(t), most)
  <2>1. CASE t <= most
    BY <1>1, <1>3, <2>1, Zenon DEF Apps!INTN, Apps!Invalid
  <2>2. CASE ~ (t <= most)
    <3>1. Apps!INTN(t) = IF t >= v \div 2 THEN t - v ELSE t
      BY <1>1, Zenon DEF Apps!INTN
    <3>2. t >= v \div 2 \/ t > most
      BY <1>3, <2>2, Zenon
    <3>3. Apps!INTN(t) < 0 \/ Apps!INTN(t) > most
      BY <1>4, <3>1, <3>2, Zenon
    <3> QED BY <2>2, <3>3, Zenon DEF Apps!Invalid
  <2> QED BY <2>1, <2>2
<1> QED BY <1>1, <1>5, <1>6, Zenon

(* The limits are below half a word.                                       *)
LEMMA LimitsFit ==
  ASSUME Apps!EfiAppsAssumption
  PROVE  /\ MAX_NUM_PAGES \in 0 .. VALUE_MOD \div 2 - 1 /\ MAX_ADDR \in Nat
         /\ 2 \in 0 .. VALUE_MOD \div 2 - 1 /\ 13 \in 0 .. VALUE_MOD \div 2 - 1
<1>1. 13 \in 0 .. VALUE_MOD \div 2 - 1 /\ MAX_NUM_PAGES \in 0 .. VALUE_MOD \div 2 - 1 /\ VALUE_MOD \in Nat
      /\ MAX_ADDR \in Nat
  BY DEF Apps!EfiAppsAssumption
<1>2. VALUE_MOD \div 2 \in Int
  BY <1>1
<1> QED BY <1>1, <1>2

(* Pages are given back exactly if allowed.                                *)
LEMMA FreedRight ==
  ASSUME Apps!EfiAppsAssumption, NEW argv \in Seq(Nat),
         \A k \in DOMAIN argv : argv[k] < VALUE_MOD
  PROVE  LET a == Apps!FreePages(argv)
         IN  IF Len(argv) = 2 /\ Apps!Allowed(argv, <<MAX_ADDR, MAX_NUM_PAGES>>)
             THEN a[1] = "FreePages" /\ \A k \in DOMAIN argv : a[k + 1] = argv[k]
             ELSE a[1] # "FreePages"
<1>1. CASE Len(argv) # 2
  BY <1>1 DEF Apps!FreePages
<1>2. CASE Len(argv) = 2
  <2>1. /\ argv[1] \in Nat /\ argv[2] \in Nat /\ argv[1] < VALUE_MOD /\ argv[2] < VALUE_MOD
        /\ DOMAIN argv = {1, 2}
    <3>1. DOMAIN argv = 1 .. 2
      BY <1>2
    <3>2. DOMAIN argv = {1, 2}
      BY <3>1
    <3>3. \A k \in DOMAIN argv : argv[k] \in Nat
      OBVIOUS
    <3> QED BY <3>2, <3>3, Zenon
  <2>2. /\ Apps!xtoi(argv[1]) = argv[1] /\ Apps!xtoi(argv[2]) = argv[2]
        /\ IF argv[2] <= MAX_NUM_PAGES
           THEN Apps!INTN(argv[2]) = argv[2] /\ ~ Apps!Invalid(argv[2], MAX_NUM_PAGES)
           ELSE Apps!Invalid(Apps!INTN(argv[2]), MAX_NUM_PAGES)
    BY <2>1, LimitsFit, ReadAsTyped
  <2>3. Apps!Allowed(argv, <<MAX_ADDR, MAX_NUM_PAGES>>)
        <=> argv[1] <= MAX_ADDR /\ argv[2] <= MAX_NUM_PAGES
    BY <2>1 DEF Apps!Allowed
  <2>4. argv[1] > MAX_ADDR <=> ~ (argv[1] <= MAX_ADDR)
    BY <2>1, LimitsFit
  <2>5. CASE argv[1] <= MAX_ADDR /\ argv[2] <= MAX_NUM_PAGES
    <3>1. Apps!FreePages(argv) = <<"FreePages", argv[1], argv[2]>>
      BY <1>2, <2>2, <2>4, <2>5, Zenon DEF Apps!FreePages
    <3> QED BY <1>2, <2>1, <2>3, <2>5, <3>1
  <2>6. CASE ~ (argv[1] <= MAX_ADDR /\ argv[2] <= MAX_NUM_PAGES)
    <3>1. Apps!FreePages(argv) = <<"SUCCESS">>
      BY <1>2, <2>2, <2>4, <2>6, Zenon DEF Apps!FreePages
    <3> QED BY <2>3, <2>6, <3>1
  <2> QED BY <2>5, <2>6
<1> QED BY <1>1, <1>2

(* Pages are asked for exactly if allowed.                                 *)
LEMMA AllocatedRight ==
  ASSUME Apps!EfiAppsAssumption, NEW argv \in Seq(Nat),
         \A k \in DOMAIN argv : argv[k] < VALUE_MOD, Len(argv) >= 3
  PROVE  LET a == Apps!AllocPages(argv)
         IN  IF Len(argv) \in {3, 4} /\ Apps!Allowed(argv, <<2, 13, MAX_NUM_PAGES, MAX_ADDR>>)
             THEN a[1] = "AllocatePages" /\ \A k \in DOMAIN argv : a[k + 1] = argv[k]
             ELSE a[1] # "AllocatePages"
<1> DEFINE Addr == IF Len(argv) = 4 THEN Apps!xtoi(argv[4]) ELSE 0
           ok == argv[1] <= 2 /\ argv[2] <= 13 /\ argv[3] <= MAX_NUM_PAGES /\ Addr <= MAX_ADDR
<1>1. CASE Len(argv) \notin 3 .. 4
  BY <1>1 DEF Apps!AllocPages
<1>2. CASE Len(argv) \in 3 .. 4
  <2>1. \A k \in 1 .. 3 : k \in DOMAIN argv /\ argv[k] \in Nat /\ argv[k] < VALUE_MOD
    BY <1>2
  <2>2. /\ \A k \in 1 .. 3 : Apps!xtoi(argv[k]) = argv[k]
        /\ IF argv[1] <= 2 THEN Apps!INTN(argv[1]) = argv[1] /\ ~ Apps!Invalid(argv[1], 2)
           ELSE Apps!Invalid(Apps!INTN(argv[1]), 2)
        /\ IF argv[2] <= 13 THEN Apps!INTN(argv[2]) = argv[2] /\ ~ Apps!Invalid(argv[2], 13)
           ELSE Apps!Invalid(Apps!INTN(argv[2]), 13)
        /\ IF argv[3] <= MAX_NUM_PAGES
           THEN Apps!INTN(argv[3]) = argv[3] /\ ~ Apps!Invalid(argv[3], MAX_NUM_PAGES)
           ELSE Apps!Invalid(Apps!INTN(argv[3]), MAX_NUM_PAGES)
    <3>1. 1 \in 1 .. 3 /\ 2 \in 1 .. 3 /\ 3 \in 1 .. 3
      OBVIOUS
    <3>2. ASSUME NEW k \in 1 .. 3, NEW most \in 0 .. VALUE_MOD \div 2 - 1
          PROVE  /\ Apps!xtoi(argv[k]) = argv[k]
                 /\ IF argv[k] <= most
                    THEN Apps!INTN(argv[k]) = argv[k] /\ ~ Apps!Invalid(argv[k], most)
                    ELSE Apps!Invalid(Apps!INTN(argv[k]), most)
      BY <2>1, ReadAsTyped, Zenon
    <3> QED BY <3>1, <3>2, LimitsFit, Zenon
  <2>3. Addr \in Nat /\ (Len(argv) = 4 => Addr = argv[4] /\ 4 \in DOMAIN argv)
    <3>1. CASE Len(argv) = 4
      <4>1. 4 \in DOMAIN argv
        BY <3>1
      <4>2. argv[4] \in Nat
        BY <4>1
      <4>3. argv[4] < VALUE_MOD
        BY <4>1, Zenon
      <4> QED BY <3>1, <4>1, <4>2, <4>3, ReadAsTyped
    <3>2. CASE Len(argv) # 4
      BY <3>2
    <3> QED BY <3>1, <3>2
  <2>4. Addr > MAX_ADDR <=> ~ (Addr <= MAX_ADDR)
    BY <2>3, LimitsFit
  <2>5. Apps!Allowed(argv, <<2, 13, MAX_NUM_PAGES, MAX_ADDR>>) <=> ok
    <3>1. CASE Len(argv) = 4
      <4>1. DOMAIN argv = {1, 2, 3, 4}
        BY <3>1
      <4> QED BY <2>3, <3>1, <4>1 DEF Apps!Allowed
    <3>2. CASE Len(argv) = 3
      <4>1. DOMAIN argv = {1, 2, 3} /\ Addr = 0 /\ 0 <= MAX_ADDR
        BY <3>2, LimitsFit
      <4> QED BY <3>2, <4>1 DEF Apps!Allowed
    <3> QED BY <1>2, <3>1, <3>2
  <2>6. Apps!AllocPages(argv)
        = IF \/ Apps!Invalid(Apps!INTN(argv[1]), 2) \/ Apps!Invalid(Apps!INTN(argv[2]), 13)
             \/ Apps!Invalid(Apps!INTN(argv[3]), MAX_NUM_PAGES) \/ Addr > MAX_ADDR
          THEN <<"INVALID_PARAMETER">>
          ELSE <<"AllocatePages", Apps!INTN(argv[1]), Apps!INTN(argv[2]), Apps!INTN(argv[3]), Addr>>
    <3>1. 1 \in 1 .. 3 /\ 2 \in 1 .. 3 /\ 3 \in 1 .. 3
      OBVIOUS
    <3> QED BY <1>2, <2>2, <3>1, Zenon DEF Apps!AllocPages
  <2> HIDE DEF Addr
  <2>7. CASE ok
    <3>1. Apps!AllocPages(argv) = <<"AllocatePages", argv[1], argv[2], argv[3], Addr>>
      BY <2>2, <2>4, <2>6, <2>7, Zenon
    <3>2. \A k \in DOMAIN argv : k \in {1, 2, 3} \/ (k = 4 /\ Len(argv) = 4)
      BY <1>2
    <3>3. /\ Apps!AllocPages(argv)[1] = "AllocatePages" /\ Apps!AllocPages(argv)[1 + 1] = argv[1]
          /\ Apps!AllocPages(argv)[2 + 1] = argv[2] /\ Apps!AllocPages(argv)[3 + 1] = argv[3]
          /\ Apps!AllocPages(argv)[4 + 1] = Addr
      BY <3>1
    <3>4. Len(argv) \in {3, 4}
      BY <1>2
    <3> QED BY <2>3, <2>5, <2>7, <3>2, <3>3, <3>4, Zenon
  <2>8. CASE ~ ok
    <3>1. Apps!AllocPages(argv) = <<"INVALID_PARAMETER">>
      BY <2>2, <2>4, <2>6, <2>8, Zenon
    <3> QED BY <2>5, <2>8, <3>1
  <2> QED BY <2>7, <2>8
<1> QED BY <1>1, <1>2

(* The first of what is looked for is found, if there is one.              *)
LEMMA FoundRight ==
  ASSUME NEW S, NEW functions \in Seq(S), NEW device, NEW pciio
  PROVE  LET r == Apps!find_pci_device(functions, device, pciio)
             I == {i \in DOMAIN functions : Apps!is_device(functions[i], device)}
         IN  IF I = {} THEN r.rc = "NOT_FOUND" ELSE r.rc = "SUCCESS" /\ r.pciio \in I
<1> DEFINE r == Apps!find_pci_device(functions, device, pciio)
           I == {i \in DOMAIN functions : Apps!is_device(functions[i], device)}
           J == {i \in 1 .. Len(functions) : Apps!is_device(functions[i], device)}
           none == IF \E f \in Apps!ToSet(functions) : f.opens THEN NULL ELSE pciio
<1>1. PICK n \in Nat : Len(functions) = n /\ DOMAIN functions = 1 .. n
  OBVIOUS
<1>2. I = J
  BY <1>1, Zenon
<1>3. Apps!SelectInSeq(functions, LAMBDA f : Apps!is_device(f, device))
      = IF J # {} THEN Apps!Min(J) ELSE 0
  BY DEF Apps!SelectInSeq
<1>4. r = LET i == IF J # {} THEN Apps!Min(J) ELSE 0
          IN  IF i # 0 THEN [rc |-> "SUCCESS", pciio |-> i] ELSE [rc |-> "NOT_FOUND", pciio |-> none]
  BY <1>3, Zenon DEF Apps!find_pci_device
<1>5. J # {} => Apps!Min(J) \in J /\ Apps!Min(J) # 0
  <2>1. J \subseteq 1 .. n
    BY <1>1
  <2>2. J # {} => Apps!Min(J) \in J
    <3> HIDE DEF J
    <3> QED BY <2>1, LeastMatch
  <2>3. \A i \in 1 .. n : i # 0
    BY <1>1
  <2> QED BY <2>1, <2>2, <2>3, Zenon
<1> HIDE DEF r, I, J, none
<1>6. CASE J = {}
  BY <1>2, <1>4, <1>6 DEF r, I
<1>7. CASE J # {}
  <2>1. r = [rc |-> "SUCCESS", pciio |-> Apps!Min(J)]
    BY <1>4, <1>5, <1>7, Zenon
  <2> QED BY <1>2, <1>5, <1>7, <2>1 DEF r, I
<1> QED BY <1>6, <1>7

(* The last device looked for decides.                                     *)
LEMMA SearchedLast ==
  ASSUME NEW functions
  PROVE  \E pciio : Apps!Search(functions)
                    = Apps!find_pci_device(functions, Apps!Devices[Len(Apps!Devices)], pciio)
<1> DEFINE find(n, pciio) == Apps!find_pci_device(functions, Apps!Devices[n], pciio)
           none == [rc |-> "SUCCESS", pciio |-> NULL]
           N == Len(Apps!Devices)
           F(f) == [n \in 0 .. N |-> IF n = 0 THEN none ELSE find(n, f[n - 1].pciio)]
           one == find(1, none.pciio)
           g == [n \in 0 .. N |-> IF n = 0 THEN none ELSE IF n = 1 THEN one ELSE find(n, one.pciio)]
           st == CHOOSE f : f = F(f)
<1>1. N = 2
  BY DEF Apps!Devices
<1>2. Apps!Search(functions) = st[N]
  BY DEF Apps!Search
<1> HIDE DEF find, N, none, one
<1>3. g = F(g)
  <2>1. ASSUME NEW n \in 0 .. N PROVE g[n] = IF n = 0 THEN none ELSE find(n, g[n - 1].pciio)
    <3>1. n = 0 \/ n = 1 \/ n = 2
      BY <1>1
    <3>2. g[0] = none /\ g[1] = one /\ g[2] = find(2, one.pciio)
      BY <1>1
    <3> QED BY <3>1, <3>2 DEF one
  <2> QED BY <2>1
<1>4. st = F(st)
  <2> HIDE DEF g, F
  <2> QED BY <1>3
<1>5. st[N] = find(N, st[N - 1].pciio)
  <2>1. N \in 0 .. N /\ N # 0
    BY <1>1
  <2> HIDE DEF st
  <2>2. [n \in 0 .. N |-> IF n = 0 THEN none ELSE find(n, st[n - 1].pciio)][N]
        = find(N, st[N - 1].pciio)
    BY <2>1
  <2> QED BY <1>4, <2>2, Zenon
<1> HIDE DEF st
<1> QED BY <1>2, <1>5, Zenon DEF find, N

(* What route80h answers, of the last device looked for.                   *)
LEMMA RoutedRight ==
  ASSUME NEW functions \in Seq(Apps!PciFunctions)
  PROVE  LET last == {i \in DOMAIN functions :
                        Apps!is_device(functions[i], Apps!Devices[Len(Apps!Devices)])}
             a == Apps!Route80h(functions)
         IN  /\ a[1] = "routed" => a[2] \in last /\ functions[a[2]].rcba = "on"
             /\ a[1] = "NOT_FOUND" <=> last = {}
<1> DEFINE last == {i \in DOMAIN functions :
                      Apps!is_device(functions[i], Apps!Devices[Len(Apps!Devices)])}
           a == Apps!Route80h(functions)
           found == Apps!Search(functions)
           rcba == functions[found.pciio].rcba
<1>1. IF last = {} THEN found.rc = "NOT_FOUND" ELSE found.rc = "SUCCESS" /\ found.pciio \in last
  BY SearchedLast, FoundRight
<1>2. a = IF found.rc # "SUCCESS" THEN <<found.rc>>
          ELSE CASE rcba = "on" -> <<"routed", found.pciio>>
                 [] rcba = "off" -> <<"UNSUPPORTED">>
                 [] rcba = "unreadable" -> <<"DEVICE_ERROR">>
  BY Zenon DEF Apps!Route80h
<1>3. found.pciio \in last => rcba \in {"on", "off", "unreadable"}
  <2>1. \A i \in DOMAIN functions : functions[i] \in Apps!PciFunctions
    OBVIOUS
  <2> QED BY <2>1 DEF Apps!PciFunctions
<1> HIDE DEF a, found, last
<1>4. CASE last = {}
  BY <1>1, <1>2, <1>4 DEF a, last
<1>5. CASE last # {}
  <2>1. found.rc = "SUCCESS" /\ found.pciio \in last
    BY <1>1, <1>5
  <2>2. CASE rcba = "on"
    <3>1. a = <<"routed", found.pciio>>
      BY <1>2, <2>1, <2>2
    <3> QED BY <1>5, <2>1, <2>2, <3>1 DEF a, last
  <2>3. CASE rcba = "off"
    <3>1. a = <<"UNSUPPORTED">>
      BY <1>2, <2>1, <2>3
    <3> QED BY <1>5, <3>1 DEF a, last
  <2>4. CASE rcba = "unreadable"
    <3>1. a = <<"DEVICE_ERROR">>
      BY <1>2, <2>1, <2>4
    <3> QED BY <1>5, <3>1 DEF a, last
  <2> QED BY <1>3, <2>1, <2>2, <2>3, <2>4, Zenon
<1> QED BY <1>4, <1>5

(* One more at the end of what is given place by place.                    *)
LEMMA AppendedTo ==
  ASSUME NEW n \in Nat, NEW L
  PROVE  Append([i \in 1 .. n |-> L[i]], L[n + 1]) = [i \in 1 .. n + 1 |-> L[i]]
<1> DEFINE s == [i \in 1 .. n |-> L[i]]
           S == {L[i] : i \in 1 .. n + 1}
<1>1. s \in Seq(S) /\ Len(s) = n /\ L[n + 1] \in S
  OBVIOUS
<1>2. /\ Append(s, L[n + 1]) \in Seq(S) /\ Len(Append(s, L[n + 1])) = n + 1
      /\ \A i \in 1 .. n : Append(s, L[n + 1])[i] = s[i]
      /\ Append(s, L[n + 1])[n + 1] = L[n + 1]
  BY <1>1, AppendProperties
<1>3. \A i \in 1 .. n + 1 : i \in 1 .. n \/ i = n + 1
  OBVIOUS
<1>4. \A i \in 1 .. n + 1 : Append(s, L[n + 1])[i] = L[i]
  BY <1>2, <1>3
<1>5. DOMAIN Append(s, L[n + 1]) = 1 .. n + 1
  BY <1>2
<1> QED BY <1>2, <1>4, <1>5

(* The lines of the list of modes, each for its mode: from the first on    *)
(* the card is started, if it can be.                                      *)
LEMMA Listed ==
  ASSUME NEW card, NEW S, card.modes \in Seq(S), card.started \in BOOLEAN, card.starts \in BOOLEAN
  PROVE  Apps!print_modes(card) =
           [i \in 1 .. Len(card.modes) |->
              LET info == Apps!QueryMode(card, card.started \/ card.starts, i)
              IN  IF info = NULL THEN <<i, "bad">>
                  ELSE <<i, IF info = card.modes[card.current] THEN "*" ELSE "none">>]
<1> DEFINE on == card.started \/ card.starts
           line(i) == LET info == Apps!QueryMode(card, on, i)
                      IN  IF info = NULL THEN <<i, "bad">>
                          ELSE <<i, IF info = card.modes[card.current] THEN "*" ELSE "none">>
           N == Len(card.modes)
           L == [i \in 1 .. N |-> line(i)]
           none == [started |-> card.started, out |-> <<>>]
           F(f) == [n \in 0 .. N |-> IF n = 0 THEN none ELSE Apps!PrintMode(card, f[n - 1], n)]
           g == [n \in 0 .. N |-> [started |-> IF n = 0 THEN card.started ELSE on,
                                   out |-> [i \in 1 .. n |-> L[i]]]]
           st == CHOOSE f : f = F(f)
<1>1. N \in Nat
  OBVIOUS
<1>2. Apps!print_modes(card) = st[N].out
  BY DEF Apps!print_modes
<1>3. ASSUME NEW o, NEW n \in 1 .. N, NEW b, b \/ card.starts <=> on, b \in BOOLEAN
      PROVE  Apps!PrintMode(card, [started |-> b, out |-> o], n)
             = [started |-> on, out |-> Append(o, L[n])]
  <2>1. (b \/ card.starts) = on
    BY <1>3
  <2>2. Apps!PrintMode(card, [started |-> b, out |-> o], n)
        = [started |-> b \/ card.starts,
           out |-> Append(o, LET info == Apps!QueryMode(card, b \/ card.starts, n)
                             IN  IF info = NULL THEN <<n, "bad">>
                                 ELSE <<n, IF info = card.modes[card.current] THEN "*" ELSE "none">>)]
    BY DEF Apps!PrintMode
  <2>3. L[n] = line(n)
    OBVIOUS
  <2> HIDE DEF L, on
  <2> QED BY <2>1, <2>2, <2>3
<1> HIDE DEF L, N
<1>4. g[0] = none
  <2>1. [i \in 1 .. 0 |-> L[i]] = <<>>
    OBVIOUS
  <2> QED BY <1>1, <2>1
<1>5. ASSUME NEW n \in 1 .. N PROVE g[n] = Apps!PrintMode(card, g[n - 1], n)
  <2>1. n - 1 \in Nat /\ n - 1 \in 0 .. N /\ (n - 1) + 1 = n /\ n # 0 /\ n \in 0 .. N
    BY <1>1
  <2>2. Append([i \in 1 .. n - 1 |-> L[i]], L[n]) = [i \in 1 .. n |-> L[i]]
    <3>1. Append([i \in 1 .. n - 1 |-> L[i]], L[(n - 1) + 1]) = [i \in 1 .. (n - 1) + 1 |-> L[i]]
      BY <2>1, AppendedTo, Zenon
    <3> QED BY <2>1, <3>1, Zenon
  <2>3. PICK b \in BOOLEAN : b = IF n - 1 = 0 THEN card.started ELSE on
    OBVIOUS
  <2>4. g[n - 1] = [started |-> b, out |-> [i \in 1 .. n - 1 |-> L[i]]]
    BY <2>1, <2>3
  <2>5. b \/ card.starts <=> on
    BY <2>3
  <2>6. g[n] = [started |-> on, out |-> [i \in 1 .. n |-> L[i]]]
    BY <2>1
  <2> DEFINE o == [i \in 1 .. n - 1 |-> L[i]]
  <2> HIDE DEF g, on, o
  <2>7. Apps!PrintMode(card, [started |-> b, out |-> o], n)
        = [started |-> on, out |-> Append(o, L[n])]
    BY <1>3, <2>5
  <2> QED BY <2>2, <2>4, <2>6, <2>7, Zenon DEF o
<1>6. g = F(g)
  <2>1. \A n \in 0 .. N : n = 0 \/ n \in 1 .. N
    BY <1>1
  <2>2. \A n \in 0 .. N : g[n] = IF n = 0 THEN none ELSE Apps!PrintMode(card, g[n - 1], n)
    <3> HIDE DEF g, none
    <3> QED BY <1>1, <1>4, <1>5, <2>1, Zenon
  <2>3. g = [n \in 0 .. N |-> g[n]]
    OBVIOUS
  <2> HIDE DEF g, none
  <2> QED BY <2>2, <2>3
<1>7. st = F(st)
  <2> HIDE DEF g, F
  <2> QED BY <1>6
<1> HIDE DEF st
<1>8. \A n \in 0 .. N : st[n] = IF n = 0 THEN none ELSE Apps!PrintMode(card, st[n - 1], n)
  <2> HIDE DEF none
  <2> QED BY <1>7, Zenon
<1>9. \A n \in 0 .. N : st[n] = g[n]
  <2> DEFINE T == {n \in Nat : n \in 0 .. N => st[n] = g[n]}
  <2>1. 0 \in T
    <3>1. 0 \in 0 .. N
      BY <1>1
    <3> HIDE DEF g, none
    <3> QED BY <1>4, <1>8, <3>1
  <2>2. ASSUME NEW n \in Nat, n \in T PROVE n + 1 \in T
    <3>1. n + 1 \in 0 .. N => n \in 0 .. N /\ n + 1 \in 1 .. N /\ n + 1 # 0
      BY <1>1
    <3>2. (n + 1) - 1 = n /\ n + 1 \in Nat
      OBVIOUS
    <3>3. n \in 0 .. N => st[n] = g[n]
      BY <2>2
    <3> HIDE DEF g, none
    <3>4. ASSUME n + 1 \in 0 .. N PROVE st[n + 1] = g[n + 1]
      <4>1. st[n + 1] = Apps!PrintMode(card, st[(n + 1) - 1], n + 1)
        BY <1>8, <3>1, <3>4, Zenon
      <4>2. g[n + 1] = Apps!PrintMode(card, g[(n + 1) - 1], n + 1)
        BY <1>5, <3>1, <3>4, Zenon
      <4> QED BY <3>1, <3>2, <3>3, <3>4, <4>1, <4>2, Zenon
    <3> QED BY <3>2, <3>4
  <2> HIDE DEF T
  <2>3. Nat \subseteq T
    BY <2>1, <2>2, Data!AllOf, Zenon
  <2>4. \A n \in 0 .. N : n \in Nat
    BY <1>1
  <2> HIDE DEF g
  <2> QED BY <2>3, <2>4, Zenon DEF T
<1>10. st[N].out = L
  <2>1. N \in 0 .. N
    BY <1>1
  <2>2. g[N].out = [i \in 1 .. N |-> L[i]]
    BY <2>1
  <2>3. L = [i \in 1 .. N |-> L[i]]
    BY DEF L
  <2> HIDE DEF g
  <2> QED BY <1>9, <2>1, <2>2, <2>3, Zenon
<1> QED BY <1>2, <1>10, Zenon DEF L, N

(* The list of modes is what ModesExact asks for.                          *)
LEMMA ListedRight ==
  ASSUME NEW card \in Apps!Cards
  PROVE  LET a == Apps!ModeList(card)
             on == card.started \/ card.starts
         IN  /\ card.gop <=> a.watchdog = 0
             /\ DOMAIN a.out = (IF card.gop THEN DOMAIN card.modes ELSE {})
             /\ \A i \in DOMAIN a.out :
                  /\ a.out[i][1] = i
                  /\ a.out[i][2] = "bad" <=> ~ on \/ card.modes[i] = NULL
                  /\ a.out[i][2] = "*" => card.modes[i] = card.modes[card.current]
                  /\ i = card.current => a.out[i][2] \in {"bad", "*"}
<1> DEFINE a == Apps!ModeList(card)
           on == card.started \/ card.starts
<1>1. /\ card.gop \in BOOLEAN /\ card.started \in BOOLEAN /\ card.starts \in BOOLEAN
      /\ card.modes \in Seq({NULL, "large", "small"})
  <2>1. PICK n \in 1 .. 3 : card \in [gop : BOOLEAN, started : BOOLEAN, starts : BOOLEAN,
                                      modes : [1 .. n -> {NULL, "large", "small"}], current : 1 .. n]
    BY Zenon DEF Apps!Cards
  <2> QED BY <2>1
<1>2. CASE ~ card.gop
  <2>1. a = [out |-> <<>>, watchdog |-> 10]
    BY <1>2 DEF Apps!ModeList, Apps!SetWatchdog
  <2>2. a.watchdog # 0 /\ DOMAIN a.out = {}
    BY <2>1
  <2> HIDE DEF a
  <2> QED BY <1>2, <2>2, Zenon DEF a
<1>3. CASE card.gop
  <2> DEFINE line(i) == LET info == Apps!QueryMode(card, on, i)
                        IN  IF info = NULL THEN <<i, "bad">>
                            ELSE <<i, IF info = card.modes[card.current] THEN "*" ELSE "none">>
             L == [i \in 1 .. Len(card.modes) |-> line(i)]
  <2>1. Apps!print_modes(card) = L
    BY <1>1, Listed
  <2>2. a = [out |-> L, watchdog |-> 0]
    <3> HIDE DEF L
    <3> QED BY <1>3, <2>1, Zenon DEF Apps!ModeList, Apps!SetWatchdog
  <2>3. a.out = L /\ a.watchdog = 0
    <3> HIDE DEF L, a
    <3> QED BY <2>2
  <2>4. DOMAIN L = DOMAIN card.modes
    BY <1>1
  <2>5. ASSUME NEW i \in DOMAIN L
        PROVE  /\ L[i][1] = i
               /\ L[i][2] = "bad" <=> ~ on \/ card.modes[i] = NULL
               /\ L[i][2] = "*" => card.modes[i] = card.modes[card.current]
               /\ i = card.current => L[i][2] \in {"bad", "*"}
    <3>1. L[i] = line(i)
      OBVIOUS
    <3>2. Apps!QueryMode(card, on, i) = IF on THEN card.modes[i] ELSE NULL
      BY Zenon DEF Apps!QueryMode
    <3> HIDE DEF L, on
    <3>3. CASE Apps!QueryMode(card, on, i) = NULL
      <4>1. L[i] = <<i, "bad">>
        BY <3>1, <3>3
      <4> QED BY <3>2, <3>3, <4>1
    <3>4. CASE Apps!QueryMode(card, on, i) # NULL
      <4>1. on /\ Apps!QueryMode(card, on, i) = card.modes[i] /\ card.modes[i] # NULL
        BY <3>2, <3>4
      <4>2. CASE card.modes[i] = card.modes[card.current]
        <5>1. L[i] = <<i, "*">>
          BY <3>1, <3>4, <4>1, <4>2, Zenon
        <5> QED BY <4>1, <4>2, <5>1
      <4>3. CASE card.modes[i] # card.modes[card.current]
        <5>1. i # card.current
          BY <4>3
        <5>2. L[i] = <<i, "none">>
          BY <3>1, <3>4, <4>1, <4>3
        <5> QED BY <4>1, <5>1, <5>2
      <4> QED BY <4>2, <4>3
    <3> QED BY <3>3, <3>4
  <2> HIDE DEF a, L, on
  <2> QED BY <1>3, <2>3, <2>4, <2>5, Zenon DEF a, on
<1> QED BY <1>2, <1>3

-----------------------------------------------------------------------------
(* debughook.c: what the variable held.                                    *)
Kept(first, memory, second) ==
  first # NULL /\ second # NULL /\ Len(second) <= Len(first) /\ memory

(* A value, if there is one, is a sequence that is not empty.              *)
LEMMA ValueOf ==
  ASSUME NEW v \in Apps!Values, v # NULL
  PROVE  v \in Seq(0 .. 2) /\ Len(v) > 0
<1>1. v \in Apps!Few(2, {1, 2}) /\ v # <<>>
  BY DEF Apps!Values
<1>2. v \in Seq({1, 2})
  BY <1>1, FewOf
<1> QED BY <1>1, <1>2

(* What is read of a variable that may change meanwhile.                   *)
LEMMA VariableRead ==
  ASSUME Apps!EfiAppsAssumption, NEW first \in Apps!Values, NEW second \in Apps!Values,
         NEW memory \in BOOLEAN
  PROVE  LET a == Apps!GetVariableAttr(first, memory, second)
         IN  /\ a.rc = "SUCCESS" <=> Kept(first, memory, second)
             /\ a.data # NULL <=> Kept(first, memory, second)
             /\ Kept(first, memory, second) =>
                  Len(a.data) = Len(first) /\ Apps!IsPrefix(second, a.data)
<1> DEFINE a == Apps!GetVariableAttr(first, memory, second)
           zeros == [i \in 1 .. Len(first) - Len(second) |-> 0]
           status == Apps!GetVariable(second, Len(first))
<1>1. CASE first = NULL
  <2>1. a = [rc |-> "NOT_FOUND", data |-> NULL]
    BY <1>1 DEF Apps!GetVariableAttr, Apps!GetVariable
  <2> QED BY <1>1, <2>1 DEF Kept
<1>2. CASE first # NULL
  <2>1. first \in Seq(0 .. 2) /\ Len(first) > 0
    BY <1>2, ValueOf
  <2>2. Apps!GetVariable(first, 0) = "BUFFER_TOO_SMALL"
    BY <1>2, <2>1 DEF Apps!GetVariable
  <2>3. a = IF ~ memory THEN [rc |-> "OUT_OF_RESOURCES", data |-> NULL]
            ELSE IF status # "SUCCESS" THEN [rc |-> status, data |-> NULL]
            ELSE [rc |-> status, data |-> second \o zeros]
    BY <2>2 DEF Apps!GetVariableAttr
  <2> HIDE DEF a, zeros
  <2>4. CASE ~ memory
    <3>1. a = [rc |-> "OUT_OF_RESOURCES", data |-> NULL]
      BY <2>3, <2>4
    <3> QED BY <2>4, <3>1 DEF Kept, a
  <2>5. CASE memory /\ second = NULL
    <3>1. status = "NOT_FOUND"
      BY <2>5 DEF Apps!GetVariable
    <3>2. a = [rc |-> "NOT_FOUND", data |-> NULL]
      BY <2>3, <2>5, <3>1
    <3>3. a.rc = "NOT_FOUND" /\ a.data = NULL
      BY <3>2
    <3>4. ~ Kept(first, memory, second)
      BY <2>5 DEF Kept
    <3> QED BY <3>3, <3>4 DEF a
  <2>6. CASE memory /\ second # NULL
    <3>1. second \in Seq(0 .. 2)
      BY <2>6, ValueOf
    <3>2. PICK m \in Nat, n \in Nat : Len(first) = m /\ Len(second) = n
      BY <2>1, <3>1
    <3>3. CASE n > m
      <4>1. a = [rc |-> "BUFFER_TOO_SMALL", data |-> NULL]
        BY <2>3, <2>6, <3>2, <3>3 DEF Apps!GetVariable
      <4> QED BY <3>2, <3>3, <4>1 DEF Kept, a
    <3>4. CASE n <= m
      <4>1. status = "SUCCESS"
        BY <2>6, <3>2, <3>4 DEF Apps!GetVariable
      <4>2. a = [rc |-> "SUCCESS", data |-> second \o zeros]
        BY <2>3, <2>6, <4>1
      <4>3. zeros \in Seq(0 .. 2) /\ Len(zeros) = m - n
        BY <3>2, <3>4 DEF zeros
      <4>4. /\ second \o zeros \in Seq(0 .. 2) /\ Len(second \o zeros) = Len(second) + Len(zeros)
            /\ \A k \in 1 .. Len(second) : (second \o zeros)[k] = second[k]
        BY <3>1, <4>3, Data!TwoParts
      <4>5. Len(second \o zeros) = m
        BY <3>2, <4>3, <4>4
      <4>6. second \o zeros # NULL
        BY <4>4 DEF Apps!EfiAppsAssumption
      <4>7. Apps!IsPrefix(second, second \o zeros)
        <5>1. SubSeq(second, 1, n) = SubSeq(second \o zeros, 1, n)
          <6> DEFINE d == second \o zeros
          <6>1. \A k \in 1 .. n : d[k] = second[k]
            BY <3>2, <4>4, Zenon
          <6> HIDE DEF d
          <6>2. [k \in 1 .. n |-> d[k]] = [k \in 1 .. n |-> second[k]]
            BY <6>1, Zenon
          <6>3. \A q : SubSeq(q, 1, n) = [k \in 1 .. n |-> q[k]]
            <7> SUFFICES ASSUME NEW q PROVE SubSeq(q, 1, n) = [k \in 1 .. n |-> q[k]]
              OBVIOUS
            <7>1. SubSeq(q, 1, n) = [k \in 1 .. (1 + n) - 1 |-> q[k + 1 - 1]]
              OBVIOUS
            <7> QED BY <7>1
          <6> QED BY <6>2, <6>3, Zenon DEF d
        <5> QED BY <3>2, <3>4, <4>5, <5>1, Zenon DEF Apps!IsPrefix
      <4>8. Kept(first, memory, second)
        BY <1>2, <2>6, <3>2, <3>4 DEF Kept
      <4>9. a.rc = "SUCCESS" /\ a.data = second \o zeros
        BY <4>2
      <4> QED BY <3>2, <4>5, <4>6, <4>7, <4>8, <4>9, Zenon DEF a
    <3> QED BY <3>2, <3>3, <3>4
  <2> QED BY <2>4, <2>5, <2>6
<1> QED BY <1>1, <1>2

(* The pause ends, and has taken as many steps as there are to the limit,  *)
(* whether or not the counter can pass it.                                 *)
LEMMA PausesEnd ==
  ASSUME NEW R \in Nat, R > 2, NEW mod \in Nat, mod >= R
  PROVE  Apps!Pauses(R - 2, mod) = R - 3
<1> DEFINE limit == R - 2
           F(f) == [x \in Nat |-> IF x = 0 \/ (x + 1) % mod > limit THEN 0 ELSE 1 + f[(x + 1) % mod]]
           after(y) == IF y = 0 THEN 0 ELSE limit - y
           g == [x \in Nat |-> IF x = 0 \/ (x + 1) % mod > limit THEN 0
                               ELSE 1 + after((x + 1) % mod)]
           from == CHOOSE f : f = F(f)
<1>1. limit \in Nat /\ limit >= 1 /\ limit + 1 < mod /\ limit + 2 = R
  OBVIOUS
<1>2. Apps!Pauses(R - 2, mod) = from[1]
  BY DEF Apps!Pauses
<1> HIDE DEF limit
<1>3. \A x \in Nat : (x + 1) % mod \in Nat
  BY <1>1
<1>4. \A x \in 0 .. limit : (x + 1) % mod = x + 1
  BY <1>1
<1>5. ASSUME NEW y \in 0 .. limit PROVE g[y] = after(y)
  <2>1. y \in Nat /\ (y + 1) % mod = y + 1
    BY <1>1, <1>4
  <2>2. g[y] = IF y = 0 \/ y + 1 > limit THEN 0 ELSE 1 + after(y + 1)
    BY <2>1
  <2> HIDE DEF g
  <2> QED BY <1>1, <2>1, <2>2
<1>6. g = F(g)
  <2>1. ASSUME NEW x \in Nat
        PROVE  g[x] = IF x = 0 \/ (x + 1) % mod > limit THEN 0 ELSE 1 + g[(x + 1) % mod]
    <3>1. PICK y \in Nat : y = (x + 1) % mod
      BY <1>3
    <3>2. g[x] = IF x = 0 \/ y > limit THEN 0 ELSE 1 + after(y)
      BY <3>1
    <3>3. y > limit \/ g[y] = after(y)
      <4>1. y > limit \/ y \in 0 .. limit
        BY <1>1
      <4> HIDE DEF g, after
      <4> QED BY <1>5, <4>1
    <3> HIDE DEF g, after
    <3> QED BY <3>1, <3>2, <3>3, Zenon
  <2>2. g = [x \in Nat |-> g[x]]
    OBVIOUS
  <2> HIDE DEF g
  <2> QED BY <2>1, <2>2
<1>7. from = F(from)
  <2> HIDE DEF g, F
  <2> QED BY <1>6
<1> HIDE DEF from, g
<1>8. \A x \in Nat : from[x] = IF x = 0 \/ (x + 1) % mod > limit THEN 0 ELSE 1 + from[(x + 1) % mod]
  BY <1>7, Zenon
<1>9. \A n \in Nat : n \in 0 .. limit - 1 => from[limit - n] = n
  <2> DEFINE T == {n \in Nat : n \in 0 .. limit - 1 => from[limit - n] = n}
  <2>1. 0 \in T
    <3>1. limit - 0 = limit /\ limit # 0 /\ limit \in 0 .. limit /\ limit + 1 > limit
      BY <1>1
    <3>2. from[limit] = 0
      BY <1>1, <1>4, <1>8, <3>1, Zenon
    <3> QED BY <3>1, <3>2
  <2>2. ASSUME NEW n \in Nat, n \in T PROVE n + 1 \in T
    <3>1. CASE n + 1 \in 0 .. limit - 1
      <4>1. /\ n \in 0 .. limit - 1 /\ limit - (n + 1) \in Nat /\ limit - (n + 1) \in 0 .. limit
            /\ limit - (n + 1) # 0 /\ (limit - (n + 1)) + 1 = limit - n /\ ~ (limit - n > limit)
        BY <1>1, <3>1
      <4>2. from[limit - (n + 1)] = 1 + from[limit - n]
        BY <1>4, <1>8, <4>1, Zenon
      <4>3. from[limit - n] = n
        BY <2>2, <4>1
      <4> QED BY <4>2, <4>3
    <3>2. CASE n + 1 \notin 0 .. limit - 1
      BY <3>2
    <3> QED BY <3>1, <3>2
  <2> HIDE DEF T
  <2>3. Nat \subseteq T
    BY <2>1, <2>2, Data!AllOf, Zenon
  <2> QED BY <2>3, Zenon DEF T
<1>10. limit - 1 \in Nat /\ limit - 1 \in 0 .. limit - 1 /\ limit - (limit - 1) = 1 /\ limit - 1 = R - 3
  BY <1>1
<1>11. from[limit - (limit - 1)] = limit - 1
  BY <1>9, <1>10, Zenon
<1> QED BY <1>2, <1>10, <1>11, Zenon

-----------------------------------------------------------------------------
(* printenv.c                                                              *)
LEMMA PrintedRight ==
  ASSUME NAME \in Nat, NEW V, \A v \in V : v.size \in Nat, NEW variables \in Seq(V)
  PROVE  LET a == Apps!PrintEnv(variables)
         IN  /\ \A k \in DOMAIN a : a[k] = variables[k].value /\ variables[k].size <= NAME
             /\ Len(a) = Len(variables) \/ variables[Len(a) + 1].size > NAME
<1> DEFINE a == Apps!PrintEnv(variables)
           J == {i \in 1 .. Len(variables) : variables[i].size > NAME}
           m == IF J = {} THEN Len(variables) ELSE Apps!Min(J) - 1
<1>1. PICK n \in Nat : Len(variables) = n /\ DOMAIN variables = 1 .. n
  OBVIOUS
<1>2. Apps!SelectInSeq(variables, LAMBDA v : v.size > NAME) = IF J # {} THEN Apps!Min(J) ELSE 0
  BY DEF Apps!SelectInSeq
<1>3. J # {} => Apps!Min(J) \in J /\ \A k \in J : Apps!Min(J) <= k
  <2>1. J \subseteq 1 .. n
    BY <1>1
  <2> HIDE DEF J
  <2> QED BY <2>1, LeastMatch
<1>4. J # {} => Apps!Min(J) # 0
  <2>1. 0 \notin J
    BY <1>1
  <2> HIDE DEF J
  <2> QED BY <1>3, <2>1, Zenon
<1>5. a = [k \in 1 .. m |-> variables[k].value]
  BY <1>2, <1>4, Zenon DEF Apps!PrintEnv
<1>6. \A k \in 1 .. n : variables[k].size \in Nat
  <2>1. \A k \in 1 .. n : variables[k] \in V
    BY <1>1
  <2> QED BY <2>1, Zenon
<1>7. CASE J = {}
  <2>1. m = n
    BY <1>1, <1>7
  <2>2. Len(a) = n /\ DOMAIN a = 1 .. n /\ \A k \in 1 .. n : a[k] = variables[k].value
    <3> HIDE DEF J, m
    <3> QED BY <1>5, <2>1
  <2>3. \A k \in 1 .. n : ~ (variables[k].size > NAME)
    BY <1>1, <1>7, Zenon
  <2>4. \A k \in 1 .. n : variables[k].size <= NAME
    <3> HIDE DEF a, J, m
    <3> QED BY <1>6, <2>3
  <2> HIDE DEF a, J, m
  <2> QED BY <1>1, <2>2, <2>4, Zenon DEF a
<1>8. CASE J # {}
  <2>1. PICK f \in 1 .. n : f = Apps!Min(J) /\ variables[f].size > NAME /\ m = f - 1
    BY <1>1, <1>3, <1>8, Zenon
  <2>2. \A k \in 1 .. f - 1 : k \in 1 .. n /\ ~ (f <= k)
    BY <1>1
  <2>3. ASSUME NEW k \in 1 .. f - 1 PROVE variables[k].size <= NAME
    <3>1. k \notin J
      <4> HIDE DEF J
      <4> QED BY <1>3, <1>8, <2>1, <2>2, Zenon
    <3>2. ~ (variables[k].size > NAME)
      BY <1>1, <2>2, <3>1, Zenon
    <3> HIDE DEF a, J, m
    <3> QED BY <1>6, <2>2, <3>2
  <2> HIDE DEF J, m
  <2>4. f - 1 \in Nat /\ f - 1 + 1 = f
    OBVIOUS
  <2>5. Len(a) = f - 1 /\ DOMAIN a = 1 .. f - 1 /\ \A k \in 1 .. f - 1 : a[k] = variables[k].value
    BY <1>5, <2>1, <2>4
  <2> HIDE DEF a
  <2> QED BY <2>1, <2>3, <2>4, <2>5, Zenon DEF a
<1> QED BY <1>7, <1>8

-----------------------------------------------------------------------------
(* What each of them is asked, and that what it answers is exact; of the   *)
(* others nothing is said then.                                            *)
AnswersExact ==
  /\ Apps!PagesExact /\ Apps!Route80hExact /\ Apps!ModesExact /\ Apps!VariableExact
  /\ Apps!PrintEnvExact /\ Apps!ImageTold

(* FreePages and AllocPages.                                               *)
LEMMA AskedPages ==
  ASSUME Apps!EfiAppsAssumption, NEW argv \in Seq(Typed),
         \/ Apps!Ask("FreePages", argv, Apps!FreePages(argv))
         \/ Apps!Ask("AllocPages", argv, Apps!AllocPages(argv)) /\ Len(argv) >= 3
  PROVE  AnswersExact'
<1>1. argv \in Seq(Nat)
  <2>1. Typed \subseteq Nat
    BY DEF Apps!EfiAppsAssumption
  <2> QED BY <2>1, Data!OfLarger
<1>2. /\ Apps!subject' = argv
      /\ \/ Apps!question' = "FreePages" /\ Apps!answer' = Apps!FreePages(argv)
         \/ Apps!question' = "AllocPages" /\ Apps!answer' = Apps!AllocPages(argv) /\ Len(argv) >= 3
  BY Answered, Zenon
<1>3. Apps!PagesExact'
  <2>1. ASSUME \A k \in DOMAIN argv : argv[k] < VALUE_MOD, Apps!question' = "FreePages",
               Apps!answer' = Apps!FreePages(argv)
        PROVE  Apps!Served("FreePages", Len(argv) = 2 /\ Apps!Allowed(argv, <<MAX_ADDR, MAX_NUM_PAGES>>))'
    BY <1>1, <1>2, <2>1, FreedRight, Zenon DEF Apps!Served
  <2>2. ASSUME \A k \in DOMAIN argv : argv[k] < VALUE_MOD, Apps!question' = "AllocPages",
               Apps!answer' = Apps!AllocPages(argv), Len(argv) >= 3
        PROVE  Apps!Served("AllocatePages", /\ Len(argv) \in {3, 4}
                                            /\ Apps!Allowed(argv, <<2, 13, MAX_NUM_PAGES, MAX_ADDR>>))'
    BY <1>1, <1>2, <2>2, AllocatedRight, Zenon DEF Apps!Served
  <2>3. "FreePages" # "AllocPages"
    OBVIOUS
  <2> QED BY <1>2, <2>1, <2>2, <2>3, Zenon DEF Apps!PagesExact
<1> QED
  BY <1>2, <1>3 DEF AnswersExact, Apps!Route80hExact, Apps!ModesExact, Apps!VariableExact,
     Apps!PrintEnvExact, Apps!ImageTold

(* route80h.                                                               *)
LEMMA AskedRoute ==
  ASSUME NEW functions \in Seq(Apps!PciFunctions),
         Apps!Ask("route80h", functions, Apps!Route80h(functions))
  PROVE  AnswersExact'
<1>1. /\ Apps!question' = "route80h" /\ Apps!subject' = functions
      /\ Apps!answer' = Apps!Route80h(functions)
  BY Answered, Zenon
<1>2. Apps!Route80hExact'
  BY <1>1, RoutedRight, Zenon DEF Apps!Route80hExact
<1> QED
  BY <1>1, <1>2 DEF AnswersExact, Apps!PagesExact, Apps!ModesExact, Apps!VariableExact,
     Apps!PrintEnvExact, Apps!ImageTold

(* modelist.                                                               *)
LEMMA AskedModes ==
  ASSUME NEW card \in Apps!Cards, Apps!Ask("modelist", card, Apps!ModeList(card))
  PROVE  AnswersExact'
<1>1. /\ Apps!question' = "modelist" /\ Apps!subject' = card
      /\ Apps!answer' = Apps!ModeList(card)
  BY Answered, Zenon
<1>2. Apps!ModesExact'
  BY <1>1, ListedRight DEF Apps!ModesExact
<1> QED
  BY <1>1, <1>2 DEF AnswersExact, Apps!PagesExact, Apps!Route80hExact, Apps!VariableExact,
     Apps!PrintEnvExact, Apps!ImageTold

(* debughook's variable.                                                   *)
LEMMA AskedVariable ==
  ASSUME Apps!EfiAppsAssumption, NEW first \in Apps!Values, NEW second \in Apps!Values,
         NEW memory \in BOOLEAN,
         Apps!Ask("variable", <<first, memory, second>>, Apps!GetVariableAttr(first, memory, second))
  PROVE  AnswersExact'
<1>1. /\ Apps!question' = "variable" /\ Apps!subject' = <<first, memory, second>>
      /\ Apps!answer' = Apps!GetVariableAttr(first, memory, second)
  BY Answered, Zenon
<1>2. Apps!subject'[1] = first /\ Apps!subject'[2] = memory /\ Apps!subject'[3] = second
  BY <1>1
<1>3. Apps!VariableExact'
  <2>1. "variable" # "pause"
    OBVIOUS
  <2>2. LET a == Apps!GetVariableAttr(first, memory, second)
        IN  /\ a.rc = "SUCCESS" <=> Kept(first, memory, second)
            /\ a.data # NULL <=> Kept(first, memory, second)
            /\ Kept(first, memory, second) =>
                 Len(a.data) = Len(first) /\ Apps!IsPrefix(second, a.data)
    BY VariableRead
  <2> QED BY <1>1, <1>2, <2>1, <2>2, Zenon DEF Apps!VariableExact, Kept
<1> QED
  BY <1>1, <1>3 DEF AnswersExact, Apps!PagesExact, Apps!Route80hExact, Apps!ModesExact,
     Apps!PrintEnvExact, Apps!ImageTold

(* debughook's pause.                                                      *)
LEMMA AskedPause ==
  ASSUME Apps!EfiAppsAssumption, NEW first \in Apps!Values, NEW second \in Apps!Values,
         NEW memory \in BOOLEAN, NEW mod \in {UINT32_MOD, UINT32_MOD * UINT32_MOD},
         Apps!Ask("pause", <<first, memory, second, mod>>,
                  <<Apps!DebugHook(first, memory, second, mod)>>)
  PROVE  AnswersExact'
<1>1. /\ Apps!question' = "pause" /\ Apps!subject' = <<first, memory, second, mod>>
      /\ Apps!answer' = <<Apps!DebugHook(first, memory, second, mod)>>
  BY Answered, Zenon
<1>2. /\ Apps!subject'[1] = first /\ Apps!subject'[2] = memory /\ Apps!subject'[3] = second
      /\ Apps!answer'[1] = Apps!DebugHook(first, memory, second, mod)
  BY <1>1
<1>3. UINT32_MOD \in Nat /\ UINT32_MOD > 2 /\ mod \in Nat /\ mod >= UINT32_MOD
  <2>1. UINT32_MOD \in Nat /\ UINT32_MOD > 2
    BY DEF Apps!EfiAppsAssumption
  <2>2. \A n \in Nat : n > 2 => n * n \in Nat /\ n * n >= n
    OBVIOUS
  <2> QED BY <2>1, <2>2
<1>4. Apps!Pauses(UINT32_MOD - 2, mod) = UINT32_MOD - 3
  BY <1>3, PausesEnd
<1>5. Apps!DebugHook(first, memory, second, mod)
      = IF Kept(first, memory, second) THEN UINT32_MOD - 3 ELSE 0
  BY <1>4, VariableRead, Zenon DEF Apps!DebugHook
<1>6. Apps!VariableExact'
  <2>1. "pause" # "variable"
    OBVIOUS
  <2> QED BY <1>1, <1>2, <1>5, <2>1, Zenon DEF Apps!VariableExact, Kept
<1> QED
  BY <1>1, <1>6 DEF AnswersExact, Apps!PagesExact, Apps!Route80hExact, Apps!ModesExact,
     Apps!PrintEnvExact, Apps!ImageTold

(* printenv.                                                               *)
LEMMA AskedPrintEnv ==
  ASSUME NAME \in Nat, NEW V, \A v \in V : v.size \in Nat, NEW variables \in Seq(V),
         Apps!Ask("printenv", variables, Apps!PrintEnv(variables))
  PROVE  AnswersExact'
<1>1. /\ Apps!question' = "printenv" /\ Apps!subject' = variables
      /\ Apps!answer' = Apps!PrintEnv(variables)
  BY Answered, Zenon
<1>2. Apps!PrintEnvExact'
  BY <1>1, PrintedRight, Zenon DEF Apps!PrintEnvExact
<1> QED
  BY <1>1, <1>2 DEF AnswersExact, Apps!PagesExact, Apps!Route80hExact, Apps!ModesExact,
     Apps!VariableExact, Apps!ImageTold

(* t3 and t6.                                                              *)
LEMMA AskedImage ==
  ASSUME NEW app \in {"t3", "t6"}, NEW rc \in {"SUCCESS", "UNSUPPORTED"}, NEW li,
         Apps!Ask("image", <<app, rc, li>>, Apps!ImageInfo(app, rc, li))
  PROVE  AnswersExact'
<1>1. /\ Apps!question' = "image" /\ Apps!subject' = <<app, rc, li>>
      /\ Apps!answer' = Apps!ImageInfo(app, rc, li)
  BY Answered, Zenon
<1>2. Apps!subject'[1] = app
  BY <1>1
<1>3. Apps!ImageTold'
  BY <1>1, <1>2 DEF Apps!ImageTold, Apps!ImageInfo, Apps!Undefined
<1> QED
  BY <1>1, <1>3 DEF AnswersExact, Apps!PagesExact, Apps!Route80hExact, Apps!ModesExact,
     Apps!VariableExact, Apps!PrintEnvExact

(* All of them.                                                            *)
LEMMA AskedRight ==
  ASSUME Apps!EfiAppsAssumption, Apps!Asked
  PROVE  AnswersExact'
<1>1. ASSUME NEW argv \in Apps!Few(2, Typed), Apps!Ask("FreePages", argv, Apps!FreePages(argv))
      PROVE  AnswersExact'
  BY <1>1, FewOf, AskedPages
<1>2. ASSUME NEW a \in Typed, NEW b \in Typed, NEW c \in Typed, NEW rest \in Apps!Few(2, Typed),
             Apps!Ask("AllocPages", <<a, b, c>> \o rest, Apps!AllocPages(<<a, b, c>> \o rest))
      PROVE  AnswersExact'
  <2>1. <<a, b, c>> \in Seq(Typed) /\ Len(<<a, b, c>>) = 3 /\ rest \in Seq(Typed)
    BY FewOf
  <2>2. <<a, b, c>> \o rest \in Seq(Typed) /\ Len(<<a, b, c>> \o rest) = 3 + Len(rest)
    BY <2>1, ConcatProperties, Zenon
  <2>3. Len(<<a, b, c>> \o rest) >= 3
    <3>1. PICK n \in Nat : Len(rest) = n
      BY <2>1
    <3> QED BY <2>2, <3>1
  <2> QED BY <1>2, <2>2, <2>3, AskedPages, Zenon
<1>3. ASSUME NEW functions \in Apps!Few(2, Apps!PciFunctions),
             Apps!Ask("route80h", functions, Apps!Route80h(functions))
      PROVE  AnswersExact'
  BY <1>3, FewOf, AskedRoute
<1>4. ASSUME NEW variables \in Apps!Few(3, [size : {1, NAME, NAME + 1}, value : {NULL, "v"}]),
             Apps!Ask("printenv", variables, Apps!PrintEnv(variables))
      PROVE  AnswersExact'
  <2> DEFINE V == [size : {1, NAME, NAME + 1}, value : {NULL, "v"}]
  <2>1. NAME \in Nat
    BY DEF Apps!EfiAppsAssumption
  <2>2. \A v \in V : v.size \in Nat
    BY <2>1
  <2>3. variables \in Seq(V)
    BY FewOf
  <2> HIDE DEF V
  <2> QED BY <1>4, <2>1, <2>2, <2>3, AskedPrintEnv
<1> QED
  BY <1>1, <1>2, <1>3, <1>4, AskedModes, AskedVariable, AskedPause, AskedImage, Zenon
     DEF Apps!Asked

(* Whatever is typed, loaded, held or let go, and whatever the firmware    *)
(* answers, the applications do what they say, on machines whose words are *)
(* longer than the largest number of pages.                                *)
THEOREM AppsDoAsTheySay == Apps!Spec => []AppsExact
<1> DEFINE Inv == DriverInv /\ AnswersExact
<1>1. Apps!Init /\ Apps!DriverInit => Inv
  <2>1. Apps!Init => AnswersExact
    <3>1. Apps!Init => Apps!question = "none"
      BY DEF Apps!Init, Apps!question
    <3> QED
      BY <3>1 DEF AnswersExact, Apps!PagesExact, Apps!Route80hExact, Apps!ModesExact,
         Apps!VariableExact, Apps!PrintEnvExact, Apps!ImageTold
  <2> QED BY <2>1, DriverStart
<1>2. Inv
      /\ [(Apps!Next /\ UNCHANGED Apps!driverVars)
           \/ (Apps!DriverNext /\ UNCHANGED asked)]_<<asked, Apps!driverVars>> => Inv'
  <2>1. ASSUME DriverInv, UNCHANGED Apps!driverVars PROVE DriverInv'
    BY <2>1 DEF DriverInv, Apps!DriverExact, Apps!driverVars, Apps!Lost
  <2>2. ASSUME AnswersExact, UNCHANGED asked PROVE AnswersExact'
    BY <2>2 DEF AnswersExact, Apps!PagesExact, Apps!Served, Apps!Route80hExact, Apps!ModesExact,
       Apps!VariableExact, Apps!PrintEnvExact, Apps!ImageTold, Apps!question, Apps!subject,
       Apps!answer
  <2>3. ASSUME AnswersExact, Apps!Next PROVE AnswersExact'
    BY <2>2, <2>3, EfiPartsAssumption, AskedRight, Zenon DEF Apps!Next, Apps!Again
  <2> QED BY <2>1, <2>2, <2>3, DriverNext
<1>3. Inv => AppsExact
  BY Zenon DEF DriverInv, AnswersExact, AppsExact, Apps!AppsExact
<1> HIDE DEF Inv
<1> QED BY <1>1, <1>2, <1>3, PTL DEF Apps!Spec

-----------------------------------------------------------------------------
(* Device paths: the instance that EfiDataProofs tells of                  *)

(* The two instances of EfiPaths compute the same,                         *)
LEMMA SameData ==
  /\ Data!dpath!EfiPathsAssumption /\ (DevicePaths!Init <=> Data!dpath!Init)
  /\ (DevicePaths!Next <=> Data!dpath!Next) /\ DevicePaths!vars = Data!dpath!vars
  /\ (PathsExact <=> Data!dpath!PathsExact)
<1>1. \A m : DevicePaths!Bytes(m) = Data!dpath!Bytes(m)
  BY
  DEF DevicePaths!Bytes, Data!dpath!Bytes
<1>2. \A m : DevicePaths!Path(m) = Data!dpath!Path(m)
  BY
  DEF DevicePaths!Path, Data!dpath!Path, DevicePaths!SelectInSeq,
      Data!dpath!SelectInSeq, DevicePaths!IsEnd, Data!dpath!IsEnd, DevicePaths!End,
      Data!dpath!End, DevicePaths!Min, Data!dpath!Min
<1>3. \A m : DevicePaths!Walk(m) = Data!dpath!Walk(m)
  BY Zenon
  DEF DevicePaths!Walk, Data!dpath!Walk, DevicePaths!Walked, Data!dpath!Walked,
      DevicePaths!IsDevicePathEndType, Data!dpath!IsDevicePathEndType, DevicePaths!End,
      Data!dpath!End, DevicePaths!EndInstance, Data!dpath!EndInstance
<1>4. \A m : DevicePaths!DevicePathInstances(m) = Data!dpath!DevicePathInstances(m)
  BY <1>2, <1>3
  DEF DevicePaths!DevicePathInstances, Data!dpath!DevicePathInstances
<1>5. \A m : DevicePaths!DevicePathSize(m) = Data!dpath!DevicePathSize(m)
  BY <1>1, <1>2
  DEF DevicePaths!DevicePathSize, Data!dpath!DevicePathSize
<1>6. \A m : DevicePaths!DuplicateDevicePath(m) = Data!dpath!DuplicateDevicePath(m)
  BY <1>2, <1>5
  DEF DevicePaths!DuplicateDevicePath, Data!dpath!DuplicateDevicePath,
      DevicePaths!Result, Data!dpath!Result
<1>7. \A i, m : DevicePaths!EachFollowed(i, m) = Data!dpath!EachFollowed(i, m)
  BY <1>2, Zenon
  DEF DevicePaths!EachFollowed, Data!dpath!EachFollowed, DevicePaths!End,
      Data!dpath!End, DevicePaths!EndInstance, Data!dpath!EndInstance
<1>8. \A m, r : DevicePaths!AppendDevicePath(m, r) = Data!dpath!AppendDevicePath(m, r)
  BY <1>4, <1>5, <1>6, <1>7, Zenon
  DEF DevicePaths!AppendDevicePath, Data!dpath!AppendDevicePath, DevicePaths!Given,
      Data!dpath!Given, DevicePaths!NoPath, Data!dpath!NoPath, DevicePaths!Result,
      Data!dpath!Result
<1>9. \A m, r : DevicePaths!AppendDevicePathInstance(m, r) = Data!dpath!AppendDevicePathInstance(m, r)
  BY <1>2, <1>5, <1>6, Zenon
  DEF DevicePaths!AppendDevicePathInstance, Data!dpath!AppendDevicePathInstance,
      DevicePaths!Given, Data!dpath!Given, DevicePaths!NoPath, Data!dpath!NoPath,
      DevicePaths!Result, Data!dpath!Result, DevicePaths!EndInstance,
      Data!dpath!EndInstance
<1>10. \A m : DevicePaths!LibDuplicateDevicePathInstance(m) = Data!dpath!LibDuplicateDevicePathInstance(m)
  BY <1>1, <1>4, Zenon
  DEF DevicePaths!LibDuplicateDevicePathInstance,
      Data!dpath!LibDuplicateDevicePathInstance, DevicePaths!NoPath, Data!dpath!NoPath,
      DevicePaths!Result, Data!dpath!Result, DevicePaths!End, Data!dpath!End
<1>11. \A m : DevicePaths!Total(m) = Data!dpath!Total(m)
  BY Zenon
  DEF DevicePaths!Total, Data!dpath!Total, DevicePaths!AlignSize, Data!dpath!AlignSize
<1>12. \A m : DevicePaths!UnpackDevicePath(m) = Data!dpath!UnpackDevicePath(m)
  BY <1>2, <1>11
  DEF DevicePaths!UnpackDevicePath, Data!dpath!UnpackDevicePath, DevicePaths!Grow,
      Data!dpath!Grow, DevicePaths!AlignSize, Data!dpath!AlignSize, DevicePaths!Result,
      Data!dpath!Result
<1>13. \A m, r : DevicePaths!LibMatchDevicePaths(m, r) <=> Data!dpath!LibMatchDevicePaths(m, r)
  BY <1>4, Zenon
  DEF DevicePaths!LibMatchDevicePaths, Data!dpath!LibMatchDevicePaths,
      DevicePaths!Given, Data!dpath!Given, DevicePaths!NoPath, Data!dpath!NoPath,
      DevicePaths!IsPrefix, Data!dpath!IsPrefix
<1>14. DevicePaths!Optional = Data!dpath!Optional
  BY Zenon
  DEF DevicePaths!Optional, Data!dpath!Optional, DevicePaths!NoPath, Data!dpath!NoPath
<1>15. \A o, m, r, x : DevicePaths!Call(o, m, r, x) <=> Data!dpath!Call(o, m, r, x)
  BY Zenon
  DEF DevicePaths!Call, Data!dpath!Call, DevicePaths!NoPath, Data!dpath!NoPath
<1>16. DevicePaths!Combine <=> Data!dpath!Combine
  BY <1>8, <1>9, <1>14, <1>15, Zenon
  DEF DevicePaths!Combine, Data!dpath!Combine, DevicePaths!Given, Data!dpath!Given,
      DevicePaths!NoPath, Data!dpath!NoPath, DevicePaths!End, Data!dpath!End,
      DevicePaths!AppendDevicePathNode, Data!dpath!AppendDevicePathNode
<1>17. DevicePaths!Copy <=> Data!dpath!Copy
  BY <1>6, <1>10, <1>12, <1>15, Zenon
  DEF DevicePaths!Copy, Data!dpath!Copy, DevicePaths!NoPath, Data!dpath!NoPath
<1>18. DevicePaths!Match <=> Data!dpath!Match
  BY <1>13, <1>14, Zenon
  DEF DevicePaths!Match, Data!dpath!Match, DevicePaths!NoPath, Data!dpath!NoPath
<1>19. DevicePaths!vars = Data!dpath!vars
  BY Zenon
  DEF DevicePaths!vars, Data!dpath!vars
<1>20. DevicePaths!Next <=> Data!dpath!Next
  <2>1. DevicePaths!Returned <=> Data!dpath!Returned
    BY DEF DevicePaths!Returned, Data!dpath!Returned, DevicePaths!vars, Data!dpath!vars
  <2> QED BY <1>16, <1>17, <1>18, <2>1, Zenon DEF DevicePaths!Next, Data!dpath!Next
<1>21. DevicePaths!Init <=> Data!dpath!Init
  BY Zenon
  DEF DevicePaths!Init, Data!dpath!Init, DevicePaths!NoPath, Data!dpath!NoPath
<1>22. DevicePaths!EfiPathsAssumption => Data!dpath!EfiPathsAssumption
  <2>1. DevicePaths!End = Data!dpath!End /\ DevicePaths!EndInstance = Data!dpath!EndInstance
    BY Zenon DEF DevicePaths!End, Data!dpath!End, DevicePaths!EndInstance, Data!dpath!EndInstance
  <2>2. DevicePaths!Memory = Data!dpath!Memory
    BY <2>1, Zenon DEF DevicePaths!Memory, Data!dpath!Memory
  <2>3. \A q : DevicePaths!ToSet(q) = Data!dpath!ToSet(q)
    BY Zenon DEF DevicePaths!ToSet, Data!dpath!ToSet
  <2>4. /\ DevicePaths!LENGTH_MOD = Data!dpath!LENGTH_MOD
        /\ DevicePaths!LongestInstance = Data!dpath!LongestInstance
    BY DEF DevicePaths!LENGTH_MOD, Data!dpath!LENGTH_MOD,
       DevicePaths!LongestInstance, Data!dpath!LongestInstance
  <2>5. \A q : DevicePaths!ToSet(DevicePaths!DevicePathInstances(q))
               = Data!dpath!ToSet(Data!dpath!DevicePathInstances(q))
    BY <1>4, <2>3, Zenon
  <2> QED BY <2>1, <2>2, <2>4, <2>5 DEF DevicePaths!EfiPathsAssumption, Data!dpath!EfiPathsAssumption
<1>23. DevicePaths!PathsExact <=> Data!dpath!PathsExact
  <2>1. /\ DevicePaths!In1 = Data!dpath!In1 /\ DevicePaths!In2 = Data!dpath!In2
        /\ DevicePaths!Out = Data!dpath!Out
    BY <1>4, Zenon DEF DevicePaths!In1, Data!dpath!In1, DevicePaths!In2, Data!dpath!In2,
       DevicePaths!Out, Data!dpath!Out
  <2>2. DevicePaths!Fits <=> Data!dpath!Fits
    BY <1>1, Zenon DEF DevicePaths!Fits, Data!dpath!Fits
  <2>3. \A q : DevicePaths!Given(q) <=> Data!dpath!Given(q)
    BY Zenon DEF DevicePaths!Given, Data!dpath!Given, DevicePaths!NoPath, Data!dpath!NoPath
  <2>4. \A name : DevicePaths!Done(name) <=> Data!dpath!Done(name)
    BY <2>3, Zenon DEF DevicePaths!Done, Data!dpath!Done
  <2>5. \A inst : DevicePaths!Followed(inst) = Data!dpath!Followed(inst)
    BY <2>1, Zenon DEF DevicePaths!Followed, Data!dpath!Followed
  <2>6. \A q : DevicePaths!FlattenSeq(q) = Data!dpath!FlattenSeq(q)
    BY Zenon DEF DevicePaths!FlattenSeq, Data!dpath!FlattenSeq
  <2>7. \A q, r : DevicePaths!IsStrictPrefix(q, r) <=> Data!dpath!IsStrictPrefix(q, r)
    BY Zenon DEF DevicePaths!IsStrictPrefix, Data!dpath!IsStrictPrefix,
       DevicePaths!IsPrefix, Data!dpath!IsPrefix
  <2>8. DevicePaths!FlattenSeq([k \in 1 .. Len(DevicePaths!In1) |-> DevicePaths!Followed(DevicePaths!In1[k])])
        = Data!dpath!FlattenSeq([k \in 1 .. Len(Data!dpath!In1) |-> Data!dpath!Followed(Data!dpath!In1[k])])
    BY <2>1, <2>5, <2>6, Zenon
  <2> QED BY <1>1, <1>2, <1>5, <2>1, <2>2, <2>3, <2>4, <2>7, <2>8, Zenon
          DEF DevicePaths!PathsExact, Data!dpath!PathsExact
<1> QED
  BY EfiPartsAssumption, <1>19, <1>20, <1>21, <1>22, <1>23, Zenon DEF PathsExact

(* Whatever paths are put together, taken apart or compared, and whether   *)
(* or not there is memory for it, they come out as they should: whole, and *)
(* within what was allocated for them, but for the cases that PathsExact   *)
(* names.                                                                  *)
THEOREM PathsComeOut == DevicePaths!Spec => []PathsExact
<1>1. DevicePaths!Init => Data!PathsPromised
  BY SameData, Data!PathsStart, Zenon
<1>2. Data!PathsPromised /\ [DevicePaths!Next]_DevicePaths!vars => Data!PathsPromised'
  <2> SUFFICES ASSUME Data!PathsPromised, [DevicePaths!Next]_DevicePaths!vars
               PROVE  Data!PathsPromised'
    OBVIOUS
  <2>1. (UNCHANGED DevicePaths!vars) <=> (UNCHANGED Data!dpath!vars)
    BY DEF DevicePaths!vars, Data!dpath!vars
  <2>2. [Data!dpath!Next]_Data!dpath!vars
    BY SameData, <2>1, Zenon
  <2>3. Data!dpath!EfiPathsAssumption
    BY SameData, Zenon
  <2> QED BY <2>2, <2>3, Data!PathsKept
<1>3. Data!PathsPromised => PathsExact
  BY SameData, Data!PromisedExact, Zenon
<1> QED BY <1>1, <1>2, <1>3, PTL DEF DevicePaths!Spec
=============================================================================
