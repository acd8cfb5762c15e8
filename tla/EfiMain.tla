------------------------------- MODULE EfiMain -------------------------------
(***************************************************************************)
(* The UEFI application, hello.c of PacificOS2/source: it looks for its    *)
(* video mode, draws, discards the keys typed so far and waits for one.    *)
(* Every call to the firmware may fail; the user types at any time.        *)
(***************************************************************************)
EXTENDS Graphics, Sequences, SequencesExt

CONSTANTS
  Modes,             (* the video modes a card may offer: their resolution, *)
                     (* format and pixels per scan line                     *)
  MaxModes,          (* bound: the modes of one card                        *)
  MaxKeys            (* bound: the keys in the input buffer                 *)

ASSUME EfiMainAssumption ==
  /\ \A m \in Modes : /\ {"h", "v", "format", "line"} = DOMAIN m
                      /\ m.h \in Nat /\ m.v \in Nat /\ m.line \in Nat /\ m.line >= m.h
  /\ MaxModes \in Nat /\ MaxKeys \in Nat

VARIABLES
  card,              (* the modes QueryMode reports                         *)
  current,           (* the mode set last; none of the card's at first      *)
  keys,              (* the input buffer: for each key when it was typed    *)
  at,                (* the next call; or how it all ended                  *)
  mode_num,
  info,              (* gop_mode_info as the comparison will find it        *)
  drawing,           (* what has been drawn                                 *)
  message,           (* what PreBootHalt printed                            *)
  failed,            (* ghost: the call that failed, or ""                  *)
  wild,              (* ghost: has the string of digits hit gop_mode_info?  *)
  Key                (* when the key that was read had been typed           *)

firmware == <<card, current, keys>>
result   == <<message, failed, wild, Key>>
appVars  == <<firmware, at, mode_num, info, drawing, result>>

NoMode  == [h |-> 0, v |-> 0, format |-> "none", line |-> 0]
Garbage == [h |-> 48, v |-> 48, format |-> "none", line |-> 0]

Ends == {"returned", "halted", "crashed"}

AppInit ==
  /\ card \in SeqOf(Modes, MaxModes)
  /\ current = NoMode /\ keys = <<>>
  /\ at = "OutputString" /\ mode_num = 0 /\ info = NoMode
  /\ drawing = {} /\ message = "" /\ failed = "" /\ wild = FALSE /\ Key = ""

-----------------------------------------------------------------------------
(* PreBootHalt prints its message and loops; other failures are returned.  *)
Halts(text) == at' = "halted" /\ message' = text
Succeeds(next) == at' = next /\ UNCHANGED <<message, failed>>
Fails(call) == failed' = call

FailedText(call) == call \o "() failed"
Call(here, next) ==
  /\ at = here
  /\ Succeeds(next) \/ (Fails(here) /\ Halts(FailedText(here)))
  /\ UNCHANGED <<card, keys, mode_num, info, drawing, wild, Key>>

(* The greeting; without boot services there is not even that.             *)
OutputString ==
  /\ at = "OutputString"
  /\ \/ Succeeds("LocateHandleBuffer")
     \/ Fails(at) /\ at' = "returned" /\ UNCHANGED message
  /\ UNCHANGED <<firmware, mode_num, info, drawing, wild, Key>>

LocateHandleBuffer ==
  /\ Call("LocateHandleBuffer", "HandleProtocol") /\ UNCHANGED current
HandleProtocol ==
  /\ Call("HandleProtocol", "QueryMode") /\ UNCHANGED current

(* The search ends at the first mode QueryMode does not report, be it past *)
(* the last or one it fails on.                                            *)
QueryMode ==
  /\ at = "QueryMode"
  /\ \/ /\ mode_num < Len(card) /\ Succeeds("itoa")
        /\ info' = card[mode_num + 1]
     \/ /\ Halts("Failed to find desired mode") /\ UNCHANGED info
        /\ IF mode_num < Len(card) THEN Fails(at) ELSE UNCHANGED failed
  /\ UNCHANGED <<firmware, mode_num, drawing, wild, Key>>

(* The digits of the mode are written to wherever intToString, which is    *)
(* not initialised, points.  Of all it may hit, these are modelled: memory *)
(* nothing here reads, the mode's own numbers (no digit is one of the      *)
(* values looked for), and no memory at all; a hit on mode_num, gop or the *)
(* code itself is not.                                                     *)
itoa ==
  /\ at = "itoa"
  /\ \/ at' = "compare" /\ UNCHANGED <<info, wild>>
     \/ at' = "compare" /\ info' = Garbage /\ wild' = TRUE
     \/ at' = "crashed" /\ UNCHANGED <<info, wild>>
  /\ UNCHANGED <<firmware, mode_num, drawing, message, failed, Key>>

Desired_anyFormat(m) ==                               \* mutant of Desired
  m.h = horizontalResolution /\ m.v = verticalResolution
Desired(m) ==
  m.h = horizontalResolution /\ m.v = verticalResolution /\ m.format = "BGR"
NextMode_skip(n) == n + 2                             \* mutant of NextMode
NextMode(n)      == n + 1
compare ==
  /\ at = "compare"
  /\ IF Desired(info) THEN at' = "SetMode" /\ UNCHANGED mode_num
                      ELSE at' = "QueryMode" /\ mode_num' = NextMode(mode_num)
  /\ UNCHANGED <<firmware, info, drawing, result>>

SetMode ==
  /\ Call("SetMode", "draw")
  /\ current' = IF at' = "draw" THEN card[mode_num + 1] ELSE current

Picture ==
  drawTriangle(horizontalResolution \div 2, verticalResolution \div 2 - 25, 100)
    \union drawRectangle(100, 100, 300, 300)
    \union drawRectangle(500, 100, 100, 700)
    \union drawString(130, 500, 44)
draw ==
  /\ at = "draw" /\ at' = "Reset" /\ drawing' = Picture
  /\ UNCHANGED <<firmware, mode_num, info, result>>

Flushed_last(s) == IF s = <<>> THEN s ELSE Tail(s)    \* mutant of Flushed
Flushed(s)      == <<>>
Reset ==
  /\ at = "Reset"
  /\ \/ Succeeds("ReadKeyStroke") /\ keys' = Flushed(keys)
     \/ Fails(at) /\ at' = "returned" /\ UNCHANGED <<keys, message>>
  /\ UNCHANGED <<card, current, mode_num, info, drawing, wild, Key>>

(* The loop polls until the buffer has a key, or the keyboard fails.       *)
HasKey(s) == Len(s) > 0
ReadKeyStroke ==
  /\ at = "ReadKeyStroke" /\ HasKey(keys)
  /\ Succeeds("returned") /\ Key' = Head(keys) /\ keys' = Tail(keys)
  /\ UNCHANGED <<card, current, mode_num, info, drawing, wild>>
ReadFails ==
  /\ at = "ReadKeyStroke" /\ Fails(at) /\ at' = "returned"
  /\ UNCHANGED <<firmware, mode_num, info, drawing, message, wild, Key>>

TypeKey ==
  /\ at \notin Ends /\ Len(keys) < MaxKeys
  /\ keys' = Append(keys, IF at = "ReadKeyStroke" THEN "after" ELSE "before")
  /\ UNCHANGED <<card, current, at, mode_num, info, drawing, result>>

Ended == at \in Ends /\ UNCHANGED appVars

AppNext == \/ OutputString \/ LocateHandleBuffer \/ HandleProtocol \/ QueryMode
        \/ itoa \/ compare \/ SetMode \/ draw \/ Reset \/ ReadKeyStroke \/ ReadFails
        \/ TypeKey \/ Ended
AppSpec == AppInit /\ [][AppNext]_appVars

-----------------------------------------------------------------------------
(* Properties                                                              *)

(* Nothing is drawn but in a mode with the resolution and format the code  *)
(* draws for, and every pixel lies in that mode's frame buffer: also if    *)
(* the uninitialised pointer has hit the mode's numbers (see itoa).        *)
DrawsOnScreen ==
  drawing # {} =>
    /\ current.h = horizontalResolution /\ current.v = verticalResolution
    /\ current.format = "BGR"
    /\ \A r \in drawing : 0 <= r[1] /\ r[2] < current.line * current.v

(* A halt has its cause: a call that failed, which the message names, a    *)
(* card without the mode, or digits written over the mode's numbers.       *)
HaltExplained ==
  at = "halted" =>
    \/ failed \in {"LocateHandleBuffer", "HandleProtocol", "SetMode"}
       /\ message = FailedText(failed)
    \/ message = "Failed to find desired mode"
       /\ \/ failed = "QueryMode" \/ wild
          \/ \A i \in DOMAIN card : ~ Desired(card[i])

(* "we need to empty the console input buffer to flush out any keystrokes  *)
(* entered before this point": the key that ends the application was typed *)
(* after the drawing was done.                                             *)
KeyIsFresh == Key # "before"
=============================================================================
