---------------------------- MODULE EfiMainProofs ----------------------------
(***************************************************************************)
(* What EfiMain guarantees on every card, for any number of modes and keys *)
(* and on any screen the picture fits.                                     *)
(***************************************************************************)
EXTENDS EfiMain, GraphicsProofs, SequenceTheorems

(* The inductive invariant, a conjunct for each thing the code relies on   *)
(* without checking it again.                                              *)
TypeOK ==
  /\ card \in Seq(Modes) /\ keys \in Seq({"before", "after"})
  /\ mode_num \in Nat /\ wild \in BOOLEAN

(* The mode looked at is the card's, or has been written over.             *)
InfoIsMode ==
  at \in {"itoa", "compare", "SetMode"} =>
    /\ mode_num < Len(card)
    /\ info = card[mode_num + 1] \/ (wild /\ info = Garbage)

(* The modes passed over were not the one looked for.                      *)
Passed ==
  ~ wild => \A i \in 1 .. mode_num : i <= Len(card) => ~ Desired(card[i])

FoundDesired == at = "SetMode" => Desired(info)

Drawn == at \in {"draw", "Reset", "ReadKeyStroke"} \/ drawing # {}
SetToDesired == Drawn => current \in Modes /\ Desired(current)
DrewPicture == drawing \in {{}, Picture}

(* Before the mode is set there is nothing to draw in.                     *)
NotYetDrawn ==
  at \in {"OutputString", "LocateHandleBuffer", "HandleProtocol", "QueryMode",
          "itoa", "compare", "SetMode", "draw"} => drawing = {}

KeysSinceReset ==
  /\ Key \in {"", "after"}
  /\ at = "ReadKeyStroke" => keys \in Seq({"after"})

IInv == /\ TypeOK /\ InfoIsMode /\ Passed /\ FoundDesired
        /\ SetToDesired /\ DrewPicture /\ NotYetDrawn
        /\ KeysSinceReset /\ HaltExplained

-----------------------------------------------------------------------------
(* The mode written over is not the one looked for.                        *)
LEMMA GarbageNotDesired == ~ Desired(Garbage)
BY DEF Desired, Garbage

(* The application starts with nothing found and nothing drawn.            *)
LEMMA InitIInv == AppInit => IInv
<1> SUFFICES ASSUME AppInit PROVE IInv
  OBVIOUS
<1>1. card \in Seq(Modes)
  <2>1. card \in UNION {[1 .. m -> Modes] : m \in 0 .. MaxModes}
    BY DEF AppInit, SeqOf
  <2>. PICK m \in 0 .. MaxModes : card \in [1 .. m -> Modes]
    BY <2>1
  <2>2. m \in Nat
    BY EfiMainAssumption
  <2>3. [1 .. m -> Modes] \subseteq Seq(Modes)
    BY <2>2, SeqDef, Zenon
  <2> QED BY <2>3
<1>2. TypeOK
  BY <1>1, EmptySeq DEF AppInit, TypeOK
<1>3. at = "OutputString" /\ drawing = {} /\ Key = "" /\ mode_num = 0
  BY DEF AppInit
<1>4. Passed
  <2>1. 1 .. 0 = {}
    OBVIOUS
  <2>2. mode_num = 0
    BY <1>3
  <2> QED BY <2>1, <2>2 DEF Passed
<1>5. InfoIsMode /\ FoundDesired /\ KeysSinceReset /\ HaltExplained
  BY <1>3 DEF InfoIsMode, FoundDesired, KeysSinceReset, HaltExplained
<1>6. SetToDesired /\ DrewPicture /\ NotYetDrawn
  BY <1>3 DEF SetToDesired, Drawn, DrewPicture, NotYetDrawn
<1> QED
  BY <1>2, <1>4, <1>5, <1>6 DEF IInv

(* The search: a mode is passed over, or set, for what info says, which is *)
(* the card's word for it unless the digits were written there, and then   *)
(* it is not set.                                                          *)
LEMMA QueryModeSearches ==
  ASSUME IInv, QueryMode
  PROVE  InfoIsMode' /\ Passed' /\ FoundDesired' /\ HaltExplained'
<1>1. Passed' /\ FoundDesired'
  BY DEF IInv, QueryMode, Succeeds, Halts, Passed, FoundDesired, firmware
<1>2. CASE mode_num < Len(card) /\ Succeeds("itoa") /\ info' = card[mode_num + 1]
  BY <1>1, <1>2 DEF QueryMode, Succeeds, firmware, InfoIsMode, HaltExplained
<1>3. CASE /\ Halts("Failed to find desired mode") /\ UNCHANGED info
           /\ IF mode_num < Len(card) THEN Fails(at) ELSE UNCHANGED failed
  <2>1. UNCHANGED <<card, wild>> /\ at' = "halted" /\ message' = "Failed to find desired mode"
    BY <1>3 DEF QueryMode, firmware, Halts
  <2>2. CASE mode_num < Len(card)
    <3>1. failed' = "QueryMode"
      BY <1>3, <2>2 DEF QueryMode, Fails
    <3> QED BY <1>1, <2>1, <3>1 DEF InfoIsMode, HaltExplained
  <2>3. CASE ~ mode_num < Len(card)
    <3>1. ~ wild => \A i \in DOMAIN card : ~ Desired(card[i])
      <4>1. Len(card) \in Nat /\ DOMAIN card = 1 .. Len(card) /\ mode_num \in Nat
        BY LenProperties DEF IInv, TypeOK
      <4> QED BY <2>3, <4>1 DEF IInv, Passed
    <3> QED BY <1>1, <2>1, <3>1 DEF InfoIsMode, HaltExplained
  <2> QED BY <2>2, <2>3
<1> QED BY <1>2, <1>3 DEF QueryMode

(* The comparison of a mode leaves the loop only with the mode it looks for.*)
LEMMA compareSearches ==
  ASSUME IInv, compare
  PROVE  InfoIsMode' /\ Passed' /\ FoundDesired' /\ HaltExplained' /\ mode_num' \in Nat
<1>1. UNCHANGED <<card, info, wild>> /\ at = "compare" /\ mode_num < Len(card)
  BY DEF IInv, compare, firmware, result, InfoIsMode
<1>2. info = card[mode_num + 1] \/ (wild /\ info = Garbage)
  BY DEF IInv, compare, InfoIsMode
<1>3. CASE Desired(info)
  <2>1. at' = "SetMode" /\ mode_num' = mode_num /\ mode_num \in Nat
    BY <1>3 DEF compare, IInv, TypeOK
  <2> QED BY <1>1, <1>2, <1>3, <2>1 DEF IInv, InfoIsMode, Passed, FoundDesired, HaltExplained
<1>4. CASE ~ Desired(info)
  <2>1. at' = "QueryMode" /\ mode_num' = mode_num + 1 /\ mode_num \in Nat
    BY <1>4 DEF compare, NextMode, IInv, TypeOK
  <2>2. ASSUME ~ wild, NEW i \in 1 .. mode_num + 1, i <= Len(card)
        PROVE  ~ Desired(card[i])
    <3>1. CASE i = mode_num + 1
      BY <1>2, <1>4, <2>2, <3>1
    <3>2. CASE i \in 1 .. mode_num
      BY <2>2, <3>2 DEF IInv, Passed
    <3> QED BY <2>1, <3>1, <3>2
  <2>3. Passed'
    BY <1>1, <2>1, <2>2 DEF Passed
  <2> QED BY <2>1, <2>3 DEF InfoIsMode, FoundDesired, HaltExplained
<1> QED BY <1>3, <1>4

(* The mode the search ended with is the one the code knows.               *)
LEMMA SetModeFinds ==
  ASSUME IInv, SetMode
  PROVE  SetToDesired' /\ (at' = "draw" \/ at' = "halted") /\ drawing' = {}
<1>1. at = "SetMode" /\ drawing = {} /\ mode_num \in Nat /\ mode_num < Len(card)
  BY DEF IInv, TypeOK, SetMode, Call, NotYetDrawn, InfoIsMode
<1>2. drawing' = {} /\ (at' = "draw" \/ at' = "halted")
  BY <1>1 DEF SetMode, Call, Succeeds, Halts
<1>3. card[mode_num + 1] \in Modes
  <2>1. Len(card) \in Nat
    BY LenProperties DEF IInv, TypeOK
  <2> QED BY <1>1, <2>1, ElementOfSeq DEF IInv, TypeOK
<1>4. Desired(card[mode_num + 1])
  BY <1>1, GarbageNotDesired DEF IInv, InfoIsMode, FoundDesired
<1>5. CASE at' = "draw"
  <2>1. current' = card[mode_num + 1]
    BY <1>5 DEF SetMode
  <2> QED BY <1>2, <1>3, <1>4, <2>1 DEF SetToDesired
<1>6. CASE at' = "halted"
  BY <1>2, <1>6 DEF SetToDesired, Drawn
<1> QED BY <1>2, <1>5, <1>6

(* The key read is one typed since the buffer was emptied.                 *)
LEMMA ReadKeyStrokeTakes ==
  ASSUME IInv, ReadKeyStroke
  PROVE  Key' = "after" /\ keys' \in Seq({"before", "after"})
<1>1. keys \in Seq({"after"}) /\ keys \in Seq({"before", "after"})
  BY DEF IInv, TypeOK, KeysSinceReset, ReadKeyStroke
<1>2. keys # <<>>
  BY EmptySeq DEF ReadKeyStroke, HasKey
<1>3. Head(keys) \in {"after"} /\ Tail(keys) \in Seq({"before", "after"})
  BY <1>1, <1>2, HeadTailProperties
<1> QED BY <1>3 DEF ReadKeyStroke

(* Every step keeps the invariant.                                         *)
LEMMA NextIInv == IInv /\ [AppNext]_appVars => IInv'
<1> SUFFICES ASSUME IInv, [AppNext]_appVars PROVE IInv'
  OBVIOUS
<1> USE DEF IInv, TypeOK, InfoIsMode, Passed, FoundDesired, SetToDesired, Drawn,
            DrewPicture, NotYetDrawn, KeysSinceReset, HaltExplained
<1>1. CASE OutputString
  BY <1>1 DEF OutputString, Succeeds, Fails, firmware
<1>2. CASE LocateHandleBuffer
  BY <1>2 DEF LocateHandleBuffer, Call, Succeeds, Fails, Halts
<1>3. CASE HandleProtocol
  BY <1>3 DEF HandleProtocol, Call, Succeeds, Fails, Halts
<1>4. CASE QueryMode
  <2>1. InfoIsMode' /\ Passed' /\ FoundDesired' /\ HaltExplained'
    BY <1>4, QueryModeSearches
  <2> HIDE DEF InfoIsMode, Passed, FoundDesired, HaltExplained
  <2> QED BY <1>4, <2>1 DEF QueryMode, Succeeds, Halts, firmware
<1>5. CASE itoa
  BY <1>5 DEF itoa, firmware
<1>6. CASE compare
  <2>1. InfoIsMode' /\ Passed' /\ FoundDesired' /\ HaltExplained' /\ mode_num' \in Nat
    BY <1>6, compareSearches
  <2>2. drawing = {} /\ at' \in {"QueryMode", "SetMode"}
    BY <1>6 DEF compare
  <2>3. UNCHANGED <<card, current, keys, drawing, wild, Key>>
    BY <1>6 DEF compare, firmware, result
  <2> HIDE DEF InfoIsMode, Passed, FoundDesired, HaltExplained
  <2> QED BY <2>1, <2>2, <2>3
<1>7. CASE SetMode
  <2>1. SetToDesired' /\ (at' = "draw" \/ at' = "halted") /\ drawing' = {}
    BY <1>7, SetModeFinds
  <2> HIDE DEF SetToDesired
  <2> QED BY <1>7, <2>1 DEF SetMode, Call, Succeeds, Fails, Halts
<1>8. CASE draw
  BY <1>8 DEF draw, firmware, result
<1>9. CASE Reset
  <2>1. keys' \in Seq({"before", "after"}) /\ (at' = "ReadKeyStroke" => keys' \in Seq({"after"}))
    BY <1>9, EmptySeq DEF Reset, Flushed, Succeeds, Fails
  <2> QED BY <1>9, <2>1 DEF Reset, Succeeds, Fails
<1>10. CASE ReadKeyStroke
  <2>1. Key' = "after" /\ keys' \in Seq({"before", "after"})
    BY <1>10, ReadKeyStrokeTakes
  <2> QED BY <1>10, <2>1 DEF ReadKeyStroke, Succeeds
<1>11. CASE ReadFails
  BY <1>11 DEF ReadFails, Fails, firmware
<1>12. CASE TypeKey
  <2>1. keys' \in Seq({"before", "after"}) /\ (at = "ReadKeyStroke" => keys' \in Seq({"after"}))
    <3> HIDE DEF InfoIsMode, Passed, FoundDesired, HaltExplained
    <3> QED BY <1>12, AppendProperties DEF TypeKey
  <2> QED BY <1>12, <2>1 DEF TypeKey, Ends, result
<1>13. CASE Ended \/ UNCHANGED appVars
  <2>1. UNCHANGED <<card, current, keys, at, mode_num, info, drawing, message, failed, wild, Key>>
    BY <1>13 DEF Ended, appVars, firmware, result
  <2> QED BY <2>1
<1> QED
  BY <1>1, <1>2, <1>3, <1>4, <1>5, <1>6, <1>7, <1>8, <1>9, <1>10, <1>11, <1>12, <1>13 DEF AppNext

-----------------------------------------------------------------------------
(* The screen the picture needs; the code's has 1024 by 768 pixels, and    *)
(* glyphs of 8 by 8.                                                       *)
PictureFits ==
  /\ 300 <= horizontalResolution /\ 130 + 44 * GLYPH <= horizontalResolution
  /\ GLYPH <= 500 /\ 500 <= verticalResolution

(* Every shape of the picture lies in the mode the code knows.             *)
LEMMA PictureInside == ASSUME PictureFits PROVE \A r \in Picture : Inside(r)
<1> DEFINE x == horizontalResolution \div 2
           y == verticalResolution \div 2 - 25
<1>1. /\ horizontalResolution \in Nat /\ verticalResolution \in Nat /\ GLYPH \in Nat
      /\ 100 \div 2 = 50
  BY GraphicsAssumption
<1>2. \A r \in drawTriangle(x, y, 100) : Inside(r)
  <2>1. /\ x \in Nat /\ y \in Nat /\ 0 <= x - 50 /\ x + 50 < horizontalResolution
        /\ 0 <= y - 50 /\ y + 50 <= verticalResolution
    BY <1>1 DEF PictureFits
  <2> HIDE DEF x, y
  <2> QED BY <1>1, <2>1, TriangleInside
<1>3. /\ \A r \in drawRectangle(100, 100, 300, 300) : Inside(r)
      /\ \A r \in drawRectangle(500, 100, 100, 700) : Inside(r)
  <2>1. 300 <= horizontalResolution /\ 100 <= horizontalResolution
    BY <1>1 DEF PictureFits
  <2>2. \A r \in drawRectangle(100, 100, 300, 300) : Inside(r)
    BY <2>1, RectangleInside
  <2>3. \A r \in drawRectangle(500, 100, 100, 700) : Inside(r)
    BY <2>1, RectangleInside
  <2> QED BY <2>2, <2>3
<1>4. \A r \in drawString(130, 500, 44) : Inside(r)
  <2>1. 500 \in GLYPH .. verticalResolution /\ 130 + 44 * GLYPH <= horizontalResolution
    BY <1>1 DEF PictureFits
  <2> QED BY <2>1, StringInside
<1> DEFINE triangle == drawTriangle(x, y, 100)
           square   == drawRectangle(100, 100, 300, 300)
           bar      == drawRectangle(500, 100, 100, 700)
           text     == drawString(130, 500, 44)
<1>5. Picture = triangle \union square \union bar \union text
  BY DEF Picture
<1> HIDE DEF triangle, square, bar, text
<1>6. /\ \A r \in triangle : Inside(r)
      /\ \A r \in square : Inside(r)
      /\ \A r \in bar : Inside(r)
      /\ \A r \in text : Inside(r)
  BY <1>2, <1>3, <1>4 DEF triangle, square, bar, text
<1> QED BY <1>5, <1>6

(* A mode found has at least the frame buffer the picture was drawn for.   *)
LEMMA IInvDraws == ASSUME PictureFits, IInv PROVE DrawsOnScreen
<1> SUFFICES ASSUME drawing # {}, NEW r \in drawing
             PROVE  /\ current.h = horizontalResolution /\ current.v = verticalResolution
                    /\ current.format = "BGR"
                    /\ 0 <= r[1] /\ r[2] < current.line * current.v
  BY DEF DrawsOnScreen
<1>1. current \in Modes /\ Desired(current) /\ r \in Picture
  BY DEF IInv, SetToDesired, Drawn, DrewPicture
<1>2. Inside(r)
  BY <1>1, PictureInside
<1>3. /\ current.h = horizontalResolution /\ current.v = verticalResolution
      /\ current.format = "BGR"
  BY <1>1 DEF Desired
<1>4. current.line \in Nat /\ current.line >= horizontalResolution
  BY <1>1, <1>3, EfiMainAssumption
<1>5. /\ verticalResolution * horizontalResolution <= verticalResolution * current.line
      /\ verticalResolution * horizontalResolution \in Int
      /\ verticalResolution * current.line \in Int
      /\ verticalResolution * horizontalResolution = horizontalResolution * verticalResolution
      /\ verticalResolution * current.line = current.line * verticalResolution
  <2>1. horizontalResolution \in Nat /\ verticalResolution \in Nat
    BY GraphicsAssumption
  <2> QED BY <1>4, <2>1, ProductOrder
<1>6. r[1] \in Int /\ r[2] \in Int /\ 0 <= r[1] /\ r[2] < horizontalResolution * verticalResolution
  BY <1>2 DEF Inside
<1>7. r[2] < current.line * verticalResolution
  BY <1>5, <1>6
<1> QED BY <1>3, <1>6, <1>7

(* The invariant always holds.                                             *)
LEMMA InvariantHolds == AppSpec => []IInv
  BY InitIInv, NextIInv, PTL DEF AppSpec

(* On every screen the picture fits, whichever mode the card has at        *)
(* whichever place and wherever the digits of the search were written,     *)
(* nothing is drawn but in the mode the code knows, inside its buffer.     *)
THEOREM DrawingSafe == PictureFits => (AppSpec => []DrawsOnScreen)
<1> SUFFICES ASSUME PictureFits PROVE AppSpec => []DrawsOnScreen
  OBVIOUS
<1>1. IInv => DrawsOnScreen
  BY IInvDraws
<1> QED BY <1>1, InvariantHolds, PTL

(* A halt always has its cause, whatever the card and however the calls of *)
(* the firmware end.                                                       *)
THEOREM HaltsForCause == AppSpec => []HaltExplained
<1>1. IInv => HaltExplained
  BY DEF IInv
<1> QED BY <1>1, InvariantHolds, PTL

(* The key that ends the application was typed after the picture was       *)
(* drawn, however many were typed before.                                  *)
THEOREM WaitsForFreshKey == AppSpec => []KeyIsFresh
<1>1. IInv => KeyIsFresh
  BY DEF IInv, KeysSinceReset, KeyIsFresh
<1> QED BY <1>1, InvariantHolds, PTL
=============================================================================
