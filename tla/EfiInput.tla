------------------------------ MODULE EfiInput ------------------------------
(***************************************************************************)
(* Waiting for a key and reading a line in gnu-efi (event.c, console.c):   *)
(* WaitForSingleEvent, alone and as WaitForEventWithTimeout and IInput     *)
(* call it.  The firmware's events, its timer and its keyboard are         *)
(* external.  The event waited for is signalled while a key waits; another *)
(* reader may take the key between the wait and the read.                  *)
(***************************************************************************)
EXTENDS Integers, Sequences, SequencesExt

CONSTANTS
  Characters,          \* the characters that a line may hold
  MaxKeys,             \* bound: the keys waiting at a time
  MaxTaken,            \* bound: the keys that a line is read from
  StrLens              \* the sizes of the buffers that IInput is given

EfiInputAssumption ==
  /\ MaxKeys \in Nat /\ MaxTaken \in Nat /\ StrLens \subseteq Nat \ {0}
  /\ Characters \cap {"back", "return", "function", "nul", " "} = {}

Blank == " "
Nul   == "nul"
Keys == Characters \union {"back", "return", "function"}

VARIABLES
  keys, timer,         \* the keys that wait; "none", "set" or "expired"
  call, Timeout,       \* the call under way; Timeout: it has one above 0
  at, Status, Key,
  StrLen, InStr, length,
  screen, column,      \* the console's line, and the place of its cursor
  typed, taken         \* ghost: the text that the keys typed and erased, as
                       \* much as the buffer takes, and how many keys it took

line == <<StrLen, InStr, length, screen, column, typed, taken>>
vars == <<keys, timer, call, Timeout, at, Status, Key, line>>

Init ==
  /\ keys = <<>> /\ timer = "none" /\ call = "none" /\ Timeout = FALSE
  /\ at = "idle" /\ Status = "SUCCESS" /\ Key = "none"
  /\ StrLen = 0 /\ InStr = <<>> /\ length = 0
  /\ screen = <<>> /\ column = 0 /\ typed = <<>> /\ taken = 0

-----------------------------------------------------------------------------
(* The keyboard, another reader of it, and the timer.                      *)
Type == /\ Len(keys) < MaxKeys /\ \E k \in Keys : keys' = Append(keys, k)
        /\ UNCHANGED <<timer, call, Timeout, at, Status, Key, line>>
Steal == /\ keys # <<>> /\ keys' = Tail(keys)
         /\ UNCHANGED <<timer, call, Timeout, at, Status, Key, line>>
Expire == /\ timer = "set" /\ timer' = "expired"
          /\ UNCHANGED <<keys, call, Timeout, at, Status, Key, line>>

-----------------------------------------------------------------------------
Begin(c) ==
  /\ call = "none" /\ call' = c /\ Key' = "none" /\ Status' = "SUCCESS"
  /\ \/ /\ c = "IInput" /\ StrLen' \in StrLens /\ InStr' = [i \in 0 .. StrLen' - 1 |-> "?"]
        /\ length' = 0 /\ screen' = <<>> /\ column' = 0 /\ typed' = <<>> /\ taken' = 0
        /\ at' = "wait" /\ UNCHANGED Timeout
     \/ /\ c # "IInput" /\ Timeout' \in BOOLEAN /\ UNCHANGED line
        /\ at' = IF c = "WaitForSingleEvent" /\ ~ Timeout' THEN "wait" ELSE "create"
  /\ UNCHANGED <<keys, timer>>

(* WaitForSingleEvent, and where its callers go on.                        *)
After(status) == CASE call = "WaitForSingleEvent" -> "return"
                   [] call = "IInput" -> "read"
                   [] OTHER -> IF status = "SUCCESS" THEN "read" ELSE "retry"
CreateTimer ==
  /\ at = "create"
  /\ \/ timer' = "set" /\ at' = "wait" /\ UNCHANGED Status
     \/ Status' = "OUT_OF_RESOURCES" /\ at' = After(Status') /\ UNCHANGED timer
  /\ UNCHANGED <<keys, call, Timeout, Key, line>>

TimedOut_first == timer = "expired"                   \* mutant of TimedOut
TimedOut       == keys = <<>>
WaitForEvent ==
  /\ at = "wait" /\ (keys # <<>> \/ timer = "expired")
  /\ Status' = IF TimedOut THEN "TIMEOUT" ELSE "SUCCESS"
  /\ timer' = "none" /\ at' = After(Status')
  /\ UNCHANGED <<keys, call, Timeout, Key, line>>

(* WaitForEventWithTimeout: nothing counts Timeout down.                   *)
ReadKeyStroke ==
  /\ at = "read" /\ call = "WaitForEventWithTimeout"
  /\ IF keys = <<>> THEN at' = "retry" /\ UNCHANGED <<keys, Key>>
     ELSE keys' = Tail(keys) /\ Key' = Head(keys) /\ at' = "return"
  /\ UNCHANGED <<timer, call, Timeout, Status, line>>
Again_always == TRUE                                  \* mutant of Again
Again        == Timeout
Retry ==
  /\ at = "retry"
  /\ IF Again THEN at' = "create" /\ UNCHANGED Key ELSE at' = "return" /\ Key' = "TimeoutKey"
  /\ UNCHANGED <<keys, timer, call, Timeout, Status, line>>

-----------------------------------------------------------------------------
(* IInput                                                                  *)
Put(text, place, c) == [i \in 1 .. IF place > Len(text) THEN place ELSE Len(text) |->
                          IF i = place THEN c ELSE text[i]]
Edit(text, k) == IF k = "back" THEN (IF text = <<>> THEN text ELSE Front(text))
                 ELSE IF k \in Characters /\ Len(text) + 1 < StrLen THEN Append(text, k) ELSE text
Full_late == length >= StrLen                         \* mutant of Full
Full      == length >= StrLen - 1

EndLine ==                                    \* no key after all, or the last
  /\ at = "read" /\ call = "IInput"
  /\ \/ keys = <<>> /\ UNCHANGED <<keys, taken>>
     \/ /\ keys # <<>> /\ Head(keys) = "return" /\ keys' = Tail(keys)
        /\ taken' = taken + 1
  /\ InStr' = [InStr EXCEPT ![length] = Nul] /\ at' = "return"
  /\ UNCHANGED <<timer, call, Timeout, Status, Key, StrLen, length, screen, column, typed>>
EditLine ==
  /\ at = "read" /\ call = "IInput" /\ keys # <<>> /\ Head(keys) # "return"
  /\ taken < MaxTaken
  /\ LET k == Head(keys)
     IN  \/ /\ k = "back" /\ length > 0 /\ length' = length - 1 /\ column' = column - 1
            /\ screen' = Put(screen, column, Blank) /\ UNCHANGED InStr
         \/ /\ k \in Characters /\ ~ Full /\ length' = length + 1 /\ column' = column + 1
            /\ InStr' = [InStr EXCEPT ![length] = k, ![length + 1] = Nul]
            /\ screen' = Put(screen, column + 1, k)
         \/ /\ (k = "back" /\ length = 0) \/ (k \in Characters /\ Full) \/ k = "function"
            /\ UNCHANGED <<InStr, length, screen, column>>
  /\ typed' = Edit(typed, Head(keys)) /\ taken' = taken + 1 /\ keys' = Tail(keys) /\ at' = "wait"
  /\ UNCHANGED <<timer, call, Timeout, Status, Key, StrLen>>

Return ==
  /\ at = "return" /\ at' = "idle" /\ call' = "none" /\ Status' = "SUCCESS"
  /\ Key' = "none" /\ Timeout' = FALSE /\ StrLen' = 0 /\ InStr' = <<>> /\ length' = 0
  /\ screen' = <<>> /\ column' = 0 /\ typed' = <<>> /\ taken' = 0 /\ UNCHANGED <<keys, timer>>

Step == CreateTimer \/ WaitForEvent \/ ReadKeyStroke \/ Retry \/ EndLine \/ EditLine \/ Return
Next == Type \/ Steal \/ Expire \/ Step
        \/ \E c \in {"WaitForSingleEvent", "WaitForEventWithTimeout", "IInput"} : Begin(c)
Spec == Init /\ [][Next]_vars

-----------------------------------------------------------------------------
(* When IInput returns, its buffer holds a string that ends within it, the *)
(* one that the keys typed and erased, as much of it as the buffer takes,  *)
(* and that is what the screen shows.                                      *)
Shown == [i \in DOMAIN screen |-> IF i <= Len(typed) THEN typed[i] ELSE Blank]
LineEdited ==
  at = "return" /\ call = "IInput" =>
    /\ \A i \in 1 .. Len(typed) : InStr[i - 1] = typed[i]
    /\ Len(typed) < StrLen /\ InStr[Len(typed)] = Nul
    /\ screen = Shown /\ column = Len(typed) /\ Len(screen) >= column

(* A key that is there when the wait ends is never reported as a timeout,  *)
(* and the timer of a wait is closed when the call returns.                *)
KeyBeatsTimeout ==
  [][/\ at = "wait" /\ at' # "wait" /\ keys # <<>> => Status' = "SUCCESS"
     /\ at' = "idle" => timer' = "none"]_vars

(* A wait with a timeout of 0 ends: with a key, or when its timer expires. *)
(* With any other timeout it waits for a key however long that takes.      *)
TimedWaitEnds == (call = "WaitForEventWithTimeout" /\ ~ Timeout) ~> (call = "none")
=============================================================================
