------------------------------ MODULE EfiPrint ------------------------------
(***************************************************************************)
(* Formatted printing in gnu-efi (print.c): _Print reads the format one    *)
(* token at a time and collects characters in a buffer, which it hands to  *)
(* the console or, as _SPrint and _PoolPrint, to a string.  The pool may   *)
(* run out whenever the string must grow.  A token is a character of the   *)
(* format, "w" a width; its number comes with it or from the arguments.    *)
(* Every conversion counts as "s": they differ in the text they lay out.   *)
(***************************************************************************)
EXTENDS Integers, Sequences, SequencesExt

CONSTANTS
  Segments,            \* what formats are made of
  MaxSegments,         \* bound: the segments of a format
  PRINT_STRING_LEN,    \* the buffer, one place of which is for the final 0
  Earlier,             \* what CatPrint may find in the string
  Limits,              \* the room in the strings that SPrint is given
  START, NORM, HIGHLIGHT    \* attributes

EfiPrintAssumption ==
  /\ PRINT_STRING_LEN \in Nat /\ PRINT_STRING_LEN > 1 /\ MaxSegments \in Nat /\ Limits \subseteq Nat
  /\ {START, NORM, HIGHLIGHT} \subseteq Nat \ {0} /\ Earlier \subseteq Seq(STRING)
  /\ Segments \subseteq
       [kind : {"char"}, c : {"x", "nl"}] \union [kind : {"attr"}, c : {"N", "H"}] \union
       [kind : {"item"}, attr : {"", "n", "h"}, zero : BOOLEAN, left : BOOLEAN,
        width : Nat, field : Nat, text : Seq(STRING)]

VARIABLES
  to,                  \* "console", "string" (SPrint) or "pool" (CatPrint)
  segs, fmt, Index,    \* the format as its author sees it, its tokens, the next
  mode, Item, parse,   \* parse: the field that the next width goes to
  todo,                \* what is left of the item being put
  Attr, RestoreAttr, Buffer,
  Written,             \* ps->Len
  out,                 \* what reached the console: characters and attributes
  str, len, maxlen,    \* the string
  lost,                \* ghost: the characters gone when the pool ran out
  had                  \* ghost: what the string held before

ps   == <<mode, Item, parse, todo, Index>>
attr == <<Attr, RestoreAttr>>
dest == <<out, str, maxlen, lost, had>>
vars == <<to, segs, fmt, ps, attr, Buffer, Written, dest, len>>

(* A segment: a plain character or newline, a permanent attribute, or an   *)
(* item with an attribute, padding, widths (0: none) and its text.         *)
Tok(c) == <<c, 0>>
When(cond, token) == IF cond THEN <<token>> ELSE <<>>
Tokens(s) ==
  CASE s.kind = "char" -> <<Tok(s.c)>>
    [] s.kind = "attr" -> <<Tok("%"), Tok(s.c)>>
    [] s.kind = "item" ->
         <<Tok("%")>> \o When(s.attr # "", Tok(s.attr)) \o When(s.zero, Tok("0"))
         \o When(s.left, Tok("-")) \o When(s.width > 0, <<"w", s.width>>)
         \o When(s.field > 0, Tok(".")) \o When(s.field > 0, <<"w", s.field>>)
         \o <<<<"s", s.text>>>>
AllTokens(ss) == FlattenSeq([i \in DOMAIN ss |-> Tokens(ss[i])])
Formats == UNION {[1 .. n -> Segments] : n \in 0 .. MaxSegments}

None == -1
NewItem == [FieldWidth |-> None, Width |-> 0, Pad |-> "sp", PadBefore |-> TRUE]

Init ==
  /\ to = "none" /\ segs = <<>> /\ fmt = <<>>
  /\ Index = 1 /\ mode = "idle" /\ Item = NewItem /\ parse = "Width" /\ todo = <<>>
  /\ Attr = 0 /\ RestoreAttr = 0 /\ Buffer = <<>> /\ Written = 0
  /\ out = <<>> /\ str = <<>> /\ len = 0 /\ maxlen = 0 /\ lost = 0 /\ had = <<>>

(* A format, whole or cut off, for one of the functions that print: on a   *)
(* console, to a string, or to the pool, behind what CatPrint is given.    *)
Format ==
  /\ mode = "idle" /\ mode' = "text" /\ segs' \in Formats
  /\ \E n \in 0 .. Len(AllTokens(segs')) : fmt' = SubSeq(AllTokens(segs'), 1, n)
  /\ UNCHANGED <<Index, Item, parse, todo, RestoreAttr, Buffer, Written, out, lost>>
ConsolePrint ==
  Format /\ to' = "console" /\ Attr' = START /\ UNCHANGED <<str, len, maxlen, had>>
StringPrint ==
  Format /\ to' = "string" /\ maxlen' \in Limits /\ UNCHANGED <<Attr, str, len, had>>
CatPrint ==
  /\ Format /\ to' = "pool" /\ UNCHANGED Attr
  /\ had' \in Earlier /\ str' = had' /\ len' = Len(had')
  /\ maxlen' = IF had' = <<>> THEN 0 ELSE len' + 1 + PRINT_STRING_LEN

-----------------------------------------------------------------------------
(* The workers that Output stands for, given the buffer.                   *)
Appended(s, text, room) ==
  s \o SubSeq(text, 1, IF Len(s) + Len(text) > room THEN room - Len(s) ELSE Len(text))
Grown(text) == len + Len(text) + 1
Moved(text)     == str
Output(text) ==
  \/ /\ to = "console" /\ out' = out \o [i \in DOMAIN text |-> <<text[i], Attr>>]
     /\ UNCHANGED <<str, len, maxlen, lost, had>>
  \/ /\ to = "string" /\ str' = Appended(str, text, maxlen) /\ len' = Len(str')
     /\ UNCHANGED <<out, maxlen, lost, had>>
  \/ /\ to = "pool" /\ UNCHANGED <<out, had>>
     /\ \/ Grown(text) <= maxlen /\ str' = Appended(str, text, maxlen) /\ len' = Len(str')
           /\ UNCHANGED <<maxlen, lost>>
        \/ /\ Grown(text) > maxlen /\ maxlen' = Grown(text) + PRINT_STRING_LEN
           /\ str' = Appended(Moved(text), text, maxlen') /\ len' = Len(str')
           /\ UNCHANGED lost
        \/ /\ Grown(text) > maxlen /\ maxlen' = 0 /\ str' = <<>> /\ len' = 0
           /\ lost' = lost + len + Len(text)
PFLUSH(text) == Output(text) /\ Buffer' = <<>>

(* PPUTC: a newline is a carriage return and a newline.                    *)
AtEnd(text)      == Len(text) >= PRINT_STRING_LEN - 1
WithReturns(text) ==
  FlattenSeq([i \in DOMAIN text |-> IF text[i] = "nl" THEN <<"cr", "nl">> ELSE <<text[i]>>])
PPUTC ==
  /\ todo # <<>> /\ todo' = Tail(todo) /\ Written' = Written + 1
  /\ LET text == Append(Buffer, Head(todo))
     IN  IF AtEnd(text) THEN PFLUSH(text) ELSE Buffer' = text /\ UNCHANGED <<dest, len>>
  /\ UNCHANGED <<to, segs, fmt, Index, mode, Item, parse, attr>>

PSETATTR(a) ==
  PFLUSH(Buffer) /\ RestoreAttr' = Attr /\ Attr' = a /\ UNCHANGED Written
Quiet == UNCHANGED <<Attr, Buffer, Written, dest, len>>

-----------------------------------------------------------------------------
(* PITEM: the text cut to the field, padded to the width before it, and    *)
(* the result set to either side of the field.                             *)
Fill(n, c) == IF n > 0 THEN [i \in 1 .. n |-> c] ELSE <<>>
Before(item)       == item.PadBefore
PITEM(item, text) ==
  LET shown == IF item.FieldWidth # None /\ item.FieldWidth < Len(text)
               THEN SubSeq(text, 1, item.FieldWidth) ELSE text
      field == IF item.FieldWidth = None THEN Len(shown) ELSE item.FieldWidth
      width == IF Len(shown) > item.Width THEN Len(shown) ELSE item.Width
      body  == Fill(width - Len(shown), item.Pad) \o shown
      blank == Fill(field - width, "sp")
  IN  IF Before(item) THEN blank \o body ELSE body \o blank

AttrOf(c) ==
  IF to # "console" THEN 0 ELSE IF c \in {"n", "N"} THEN NORM ELSE HIGHLIGHT

Fixed == UNCHANGED <<to, segs, fmt>>
Read(c) == todo = <<>> /\ Index <= Len(fmt) /\ fmt[Index][1] \in c /\ Index' = Index + 1 /\ Fixed

Text ==
  /\ mode = "text" /\ Read({"%", "x", "nl", "0", "-", ".", "w", "n", "h", "N", "H", "s"}) /\ Quiet
  /\ IF fmt[Index][1] = "%"
     THEN mode' = "item" /\ Item' = NewItem /\ parse' = "Width" /\ RestoreAttr' = 0
          /\ UNCHANGED todo
     ELSE todo' = WithReturns(<<fmt[Index][1]>>) /\ UNCHANGED <<mode, Item, parse, RestoreAttr>>

Flag ==
  /\ mode = "item" /\ Read({"0", "-", ".", "w"}) /\ Quiet /\ UNCHANGED <<mode, todo, RestoreAttr>>
  /\ parse' = IF fmt[Index][1] = "." THEN "FieldWidth" ELSE parse
  /\ Item' = CASE fmt[Index][1] = "0" -> [Item EXCEPT !.Pad = "0"]
               [] fmt[Index][1] = "-" -> [Item EXCEPT !.PadBefore = FALSE]
               [] fmt[Index][1] = "." -> Item
               [] fmt[Index][1] = "w" -> [Item EXCEPT ![parse] = fmt[Index][2]]
ItemAttr ==
  /\ mode = "item" /\ Read({"n", "h"})
  /\ PSETATTR(AttrOf(fmt[Index][1])) /\ UNCHANGED <<mode, Item, parse, todo>>

(* Without a console the attribute is 0, which counts as none: the item    *)
(* goes on, and takes what follows for its conversion.                     *)
SetAttr ==
  /\ mode = "item" /\ Read({"N", "H"}) /\ UNCHANGED <<Item, parse, todo>>
  /\ IF AttrOf(fmt[Index][1]) = 0 THEN Quiet /\ UNCHANGED <<mode, RestoreAttr>>
     ELSE PFLUSH(Buffer) /\ Attr' = AttrOf(fmt[Index][1]) /\ RestoreAttr' = 0
          /\ mode' = "text" /\ UNCHANGED Written

Restored_never == FALSE                               \* mutant of Restored
Restored       == RestoreAttr # 0
Convert ==
  /\ mode = "item" /\ Read({"s", "x", "nl", "%"}) /\ Quiet
  /\ todo' = WithReturns(PITEM(Item, IF fmt[Index][1] = "s" THEN fmt[Index][2]
                                     ELSE IF fmt[Index][1] = "%" THEN <<"%">> ELSE <<"?">>))
  /\ mode' = "put" /\ UNCHANGED <<Item, parse, RestoreAttr>>
ItemDone ==
  /\ mode = "put" /\ todo = <<>> /\ mode' = "text"
  /\ IF Restored THEN PSETATTR(RestoreAttr)
     ELSE UNCHANGED <<attr, Buffer, Written, dest, len>>
  /\ Fixed /\ UNCHANGED <<Index, Item, parse, todo>>

(* A format that ends within an item is read past its end.                 *)
Finish ==
  /\ todo = <<>> /\ Index > Len(fmt) /\ Fixed /\ UNCHANGED <<Index, Item, parse, todo>>
  /\ \/ /\ mode = "text" /\ mode' = "done" /\ PFLUSH(Buffer) /\ UNCHANGED <<attr, Written>>
     \/ mode = "item" /\ mode' = "undefined" /\ UNCHANGED <<attr, Buffer, Written, dest, len>>
Stop == mode \in {"done", "undefined"} /\ UNCHANGED vars

Next ==
  \/ ConsolePrint \/ StringPrint \/ CatPrint \/ PPUTC \/ Text \/ Flag \/ ItemAttr \/ SetAttr
  \/ Convert \/ ItemDone \/ Finish \/ Stop
Spec == Init /\ [][Next]_vars

-----------------------------------------------------------------------------
(* Properties                                                              *)

(* What the author of the format means: each segment with its attribute,   *)
(* an item's own attribute ending with it.                                 *)
Wide(text, n, c) == Fill(n - Len(text), c) \o text
Laid(s) ==
  LET cut   == IF Len(s.text) > s.field /\ s.field > 0 THEN SubSeq(s.text, 1, s.field)
               ELSE s.text
      value == Wide(cut, s.width, IF s.zero THEN "0" ELSE "sp")
  IN  IF s.left THEN value \o Fill(s.field - Len(value), "sp") ELSE Wide(value, s.field, "sp")
Plain(s) == CASE s.kind = "char" -> WithReturns(<<s.c>>)
              [] s.kind = "attr" -> <<>>
              [] s.kind = "item" -> WithReturns(Laid(s))
AttrBefore(i) ==
  LET sets == {j \in 1 .. i - 1 : segs[j].kind = "attr"}
  IN  IF sets = {} THEN START ELSE AttrOf(segs[CHOOSE j \in sets : \A k \in sets : k <= j].c)
AttrIn(i) == IF segs[i].kind = "item" /\ segs[i].attr # "" THEN AttrOf(segs[i].attr)
             ELSE AttrBefore(i)
Meant == FlattenSeq([i \in DOMAIN segs |->
           [k \in DOMAIN Plain(segs[i]) |-> <<Plain(segs[i])[k], AttrIn(i)>>]])
Glyphs == [i \in DOMAIN Meant |-> Meant[i][1]]

Whole == fmt = AllTokens(segs)
Colours == \E i \in DOMAIN segs : segs[i].kind = "attr"

(* A whole format comes out as meant, wherever the buffer is flushed: on   *)
(* the console with its attributes, which end as they should; in a string  *)
(* as far as it has room, and from the pool what was printed since it last *)
(* ran out.  A format cut off within an item is read past its end, and so  *)
(* may be one that sets an attribute where there is no console.            *)
PrintExact ==
  /\ Len(Buffer) < PRINT_STRING_LEN
  /\ mode = "done" /\ Whole /\ (to = "console" \/ ~ Colours) =>
       /\ Written = Len(Meant)
       /\ to = "console" => out = Meant /\ Attr = AttrBefore(Len(segs) + 1)
       /\ to = "string" =>
            str = SubSeq(Glyphs, 1, IF Written > maxlen THEN maxlen ELSE Written)
       /\ to = "pool" => str = SubSeq(had \o Glyphs, lost + 1, Len(had) + Written)
  /\ mode = "undefined" => ~ Whole \/ (to # "console" /\ Colours)
=============================================================================
