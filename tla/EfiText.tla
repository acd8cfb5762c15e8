------------------------------- MODULE EfiText -------------------------------
(***************************************************************************)
(* The functions of gnu-efi on strings and memory: numbers to text and     *)
(* back (print.c, str.c), MetaMatch (str.c), and the splitting of a        *)
(* command line (cmdline.c); copying and comparing (efirtlib.c, rtstr.c,   *)
(* str.c), blocks of the pool (misc.c), and the text of GUIDs, times,      *)
(* fractions, memory dumps and debug messages (guid.c, print.c).  A        *)
(* character is a number: in the first part a digit, hex ones included, is *)
(* its value, and the others that matter have names below; in the second 0 *)
(* ends a string.  What is copied lies in one memory, so that source and   *)
(* destination may overlap; what is only read is a sequence without its 0. *)
(***************************************************************************)
EXTENDS Integers, Sequences, SequencesExt, FiniteSetsExt, Bitwise, TLC, EfiAnswer

CONSTANTS
  VALUE_MOD,           \* 2^w, w the width of a long value
  MAX_CMDLINE_ARGC,
  Numerals, Lines,     \* the numerals and command lines looked at
  Subjects, Elements,  \* strings, and what the patterns for them are made of
  MaxElements,
  NULL,
  MEMORY,              \* the cells of memory are 1 .. MEMORY
  UINTN_MOD, UINT32_MOD,
  DENOMINATOR,         \* fractions are multiples of 1 / DENOMINATOR
  LINE                 \* bytes of a line of a dump, 16

EfiTextAssumption ==
  /\ VALUE_MOD \in Nat \ {0} /\ MAX_CMDLINE_ARGC \in Nat /\ MaxElements \in Nat
  /\ {MEMORY, LINE} \subseteq Nat \ {0} /\ {UINTN_MOD, UINT32_MOD} \subseteq Nat \ {0, 1}
  /\ \E k \in 0 .. 10 : DENOMINATOR = 2 ^ k          \* the loops of FloatToString end

Space == -1
Minus == -2
Comma == -3
Star  == -4
AnyOne == -5
Open  == -6
Close == -7
Dash  == -8

-----------------------------------------------------------------------------
(* Numbers.  The most negative value negates to itself, and dividing it as *)
(* an unsigned number is what makes it come out right.                     *)
Decimal[n \in Nat] == IF n < 10 THEN <<n>> ELSE Append(Decimal[n \div 10], n % 10)
ValueToHex[v \in Nat] == IF v < 16 THEN <<v>> ELSE Append(ValueToHex[v \div 16], v % 16)

FirstGroup_123 == 0 :> 1 @@ 1 :> 2 @@ 2 :> 3          \* mutant of FirstGroup
FirstGroup     == 0 :> 3 @@ 1 :> 1 @@ 2 :> 2
WithCommas(digits) ==
  LET first == FirstGroup[Len(digits) % 3]
  IN  FlattenSeq([i \in 1 .. Len(digits) |->
        IF i > first /\ (i - first) % 3 = 1 THEN <<Comma, digits[i]>> ELSE <<digits[i]>>])
ValueToString(comma, v) ==
  LET digits == Decimal[IF v < 0 THEN -v ELSE v]
  IN  (IF v < 0 THEN <<Minus>> ELSE <<>>) \o (IF comma THEN WithCommas(digits) ELSE digits)

(* The conversion 'u' of a long value, which ValueToString takes as signed *)
Unsigned(v) == ValueToString(FALSE, IF v >= VALUE_MOD \div 2 THEN v - VALUE_MOD ELSE v)

Trimmed(str) == SubSeq(str, SelectInSeq(str \o <<0>>, LAMBDA c : c # Space), Len(str))
Leading(str, base) ==
  SubSeq(str, 1, SelectInSeq(str \o <<Space>>, LAMBDA c : c \notin 0 .. base - 1) - 1)
Number(base, str) ==
  FoldLeft(LAMBDA u, c : (u * base + c) % VALUE_MOD, 0, Leading(Trimmed(str), base))
Atoi(str) == Number(10, str)
xtoi(str) == Number(16, str)

-----------------------------------------------------------------------------
(* MetaMatch: the string, and the pattern from its position on.            *)
Fail == <<-9>>                        \* no match here
Past == <<-10>>                       \* the pattern is read beyond its end
AfterSet(q) ==
  IF Contains(q, Close) THEN SubSeq(q, SelectInSeq(q, LAMBDA c : c = Close) + 1, Len(q)) ELSE Past

(* What follows the set in the pattern, if c is in it; l is the character  *)
(* before, where a range may begin.                                        *)
InRange(c, l, h)      == c >= l /\ c <= h
SetMatch[c \in Int, l \in Int, q \in Seq(Int)] ==
  IF q = <<>> THEN Past
  ELSE IF q[1] = Close THEN Fail
  ELSE IF q[1] = Dash
       THEN IF Len(q) = 1 \/ q[2] = Close THEN Fail
            ELSE IF InRange(c, l, q[2]) \/ c = q[2] THEN AfterSet(Tail(q)) ELSE SetMatch[c, q[2], Tail(q)]
       ELSE IF c = q[1] THEN AfterSet(q) ELSE SetMatch[c, q[1], Tail(q)]

MetaMatch[s \in Seq(Int), q \in Seq(Int)] ==
  CASE q = Fail -> "no"
    [] q = Past -> "past"
    [] q = <<>> -> IF s = <<>> THEN "yes" ELSE "no"
    [] q # <<>> /\ q[1] = Star ->
         LET here == MetaMatch[s, Tail(q)]
         IN  IF s = <<>> \/ here # "no" THEN here ELSE MetaMatch[Tail(s), q]
    [] q \notin {Fail, Past, <<>>} /\ q[1] # Star ->
         IF s = <<>> THEN "no"
         ELSE MetaMatch[Tail(s), IF q[1] = Open THEN SetMatch[s[1], 0, Tail(q)]
                                 ELSE IF q[1] \in {AnyOne, s[1]} THEN Tail(q) ELSE Fail]

-----------------------------------------------------------------------------
(* GetShellArgcArgvFromLoadedImage                                         *)
WithArg(argv, arg) == IF Len(argv) < MAX_CMDLINE_ARGC THEN Append(argv, arg) ELSE argv
Argv(text) ==
  LET read == FoldLeft(LAMBDA st, c :
                IF c = Space THEN [argv |-> WithArg(st.argv, st.arg), arg |-> <<>>]
                ELSE [st EXCEPT !.arg = Append(@, c)], [argv |-> <<>>, arg |-> <<>>], text)
  IN  IF read.arg = <<>> THEN read.argv ELSE WithArg(read.argv, read.arg)

-----------------------------------------------------------------------------
Chars == 1 .. 2
Shift == 2                            \* from a small letter to its capital
Cell  == 0 .. 2
Memories == [1 .. MEMORY -> Cell]
UpTo(n, S) == UNION {[1 .. k -> S] : k \in 0 .. n}

-----------------------------------------------------------------------------
(* Memory                                                                  *)
RtSetMem(mem, Buffer, Size, Value) ==
  [a \in DOMAIN mem |-> IF a \in Buffer .. Buffer + Size - 1 THEN Value ELSE mem[a]]
RtZeroMem(mem, Buffer, Size) == RtSetMem(mem, Buffer, Size, 0)
RtCopyMem(mem, Dest, Src, len) ==
  FoldLeft(LAMBDA m, i : [m EXCEPT ![Dest + i] = m[Src + i]], mem, [i \in 1 .. len |-> i - 1])

RtStrLen(mem, s) == Min({i \in 0 .. MEMORY - s : mem[s + i] = 0})

(* Astray: the copy does not end before the memory does.                   *)
Astray == <<>>
RtStrCpy[mem \in Memories, Dest \in Nat, Src \in Nat] ==
  IF Dest > MEMORY \/ Src > MEMORY THEN Astray
  ELSE IF mem[Src] = 0 THEN [mem EXCEPT ![Dest] = 0]
  ELSE RtStrCpy[[mem EXCEPT ![Dest] = mem[Src]], Dest + 1, Src + 1]
RtStrCat(mem, Dest, Src) == RtStrCpy[mem, Dest + RtStrLen(mem, Dest), Src]

(* Blocks of the pool: NULL or their contents, which nothing has set.      *)
Unset == "unset"
AllocatePool(Size, room) == IF room THEN [i \in 1 .. Size |-> Unset] ELSE NULL
AllocateZeroPool(Size, room) == IF room THEN [i \in 1 .. Size |-> 0] ELSE NULL
ReallocatePool(OldPool, OldSize, NewSize, room) ==
  LET NewPool == IF NewSize = 0 THEN NULL ELSE AllocatePool(NewSize, room)
  IN  [NewPool |-> IF OldPool = NULL \/ NewPool = NULL THEN NewPool
                   ELSE [i \in 1 .. NewSize |-> IF i <= OldSize THEN OldPool[i] ELSE Unset],
       freed   |-> OldPool # NULL]
StrDuplicate(Src, room) ==
  IF AllocatePool(Len(Src) + 1, room) = NULL THEN NULL ELSE Append(Src, 0)

-----------------------------------------------------------------------------
(* Comparisons                                                             *)
At(s, i) == IF i <= Len(s) THEN s[i] ELSE 0
FirstDifference(s1, s2) == Min({i \in 1 .. Len(s1) + 1 : i = Len(s1) + 1 \/ At(s1, i) # At(s2, i)})
RtStrCmp(s1, s2) == LET i == FirstDifference(s1, s2) IN At(s1, i) - At(s2, i)
StrnCmp(s1, s2, len) ==
  LET i == FirstDifference(s1, s2) IN IF i > len THEN 0 ELSE At(s1, i) - At(s2, i)

(* These return a UINTN.                                                   *)
strcmpa(s1, s2) == RtStrCmp(s1, s2) % UINTN_MOD
strncmpa(s1, s2, len) == StrnCmp(s1, s2, len) % UINTN_MOD

(* d and s are of the same length.                                         *)
RtCompareMem(d, s) ==
  LET i == SelectInSeq([k \in DOMAIN d |-> d[k] - s[k]], LAMBDA x : x # 0)
  IN  IF i = 0 THEN 0 ELSE d[i] - s[i]

(* A GUID as four words.                                                   *)
RtCompareGuid(Guid1, Guid2) ==
  FoldLeft(LAMBDA r, w : r | w, 0, [i \in 1 .. 4 |-> (Guid1[i] - Guid2[i]) % UINT32_MOD])
CompareGuid(Guid1, Guid2) == RtCompareGuid(Guid1, Guid2)
GuidToString(Guid, KnownGuids) ==
  LET Index == SelectInSeq(KnownGuids, LAMBDA known : CompareGuid(Guid, known) = 0)
  IN  IF Index = 0 THEN <<"dump", Guid>> ELSE <<"name", Index>>

(* The comparisons that go through the unicode driver, if there is one;    *)
(* the stub changes no letter and tells capitals from small letters.       *)
Small(s) == [i \in DOMAIN s |-> IF s[i] > Shift THEN s[i] - Shift ELSE s[i]]
StriCmp(stub, s1, s2) == IF stub THEN RtStrCmp(s1, s2) ELSE RtStrCmp(Small(s1), Small(s2))
StrLwr(stub, s) == IF stub THEN s ELSE Small(s)
StrUpr(stub, s) ==
  IF stub THEN s ELSE [i \in DOMAIN s |-> IF s[i] <= Shift THEN s[i] + Shift ELSE s[i]]

(* The first of the three sources that has arguments.                      *)
GetShellArgcArgv(shell2, shell1, loadedImage) ==
  IF shell2 # NULL THEN shell2 ELSE IF shell1 # NULL THEN shell1 ELSE loadedImage

-----------------------------------------------------------------------------
(* Numbers                                                                 *)
(* n / DENOMINATOR: its integer part, cut off towards 0, the zeros after   *)
(* the point and the digits after them.                                    *)
Zeros[f \in Nat] == IF f = 0 \/ f >= DENOMINATOR THEN <<0, f>>
                    ELSE LET rest == Zeros[f * 10] IN <<rest[1] + 1, rest[2]>>
Digits[f \in Nat] == IF f % DENOMINATOR = 0 THEN f \div DENOMINATOR ELSE Digits[f * 10]
FloatToString(n) ==
  LET i == IF n < 0 THEN -((-n) \div DENOMINATOR) ELSE n \div DENOMINATOR
      f == IF n < 0 THEN (-n) % DENOMINATOR ELSE n % DENOMINATOR
      leading == Zeros[f * 10]
  IN  [i |-> i, zeros |-> leading[1], digits |-> Digits[leading[2]]]

TimeToString(Time) ==
  [Hour |-> IF Time.Hour = 0 THEN 12 ELSE IF Time.Hour >= 13 THEN Time.Hour - 12 ELSE Time.Hour,
   AmPm |-> IF Time.Hour >= 12 THEN "p" ELSE "a",
   Year |-> Time.Year % 100]

(* A dump: lines with the lower half of their offset, the bytes and their  *)
(* characters, and the waits for a key before the screen is full.  rows is *)
(* what the console says, 2 if it is redirected.                           *)
Shown(c) == IF c < 32 \/ c > 122 THEN 46 ELSE c
Line(Offset, Data, k) ==
  LET bytes == SubSeq(Data, (k - 1) * LINE + 1, IF k * LINE < Len(Data) THEN k * LINE ELSE Len(Data))
  IN  [Offset |-> (Offset + (k - 1) * LINE) % UINT32_MOD, Val |-> bytes,
       Str |-> [i \in DOMAIN bytes |-> Shown(bytes[i])]]
Wait == [Offset |-> -1, Val |-> <<>>, Str |-> <<>>]
DumpHex(Offset, Data, rows) ==
  LET ScreenSize == (rows - 2) % UINTN_MOD
      Step(state, k) ==
        LET full == state.ScreenCount + 1 >= ScreenSize /\ ScreenSize # 0
        IN  [ScreenCount |-> IF full THEN 0 ELSE state.ScreenCount + 1,
             out |-> Append(state.out, Line(Offset, Data, k)) \o IF full THEN <<Wait>> ELSE <<>>]
  IN  FoldLeft(Step, [ScreenCount |-> 0, out |-> <<>>],
               [k \in 1 .. ((Len(Data) + LINE - 1) \div LINE) |-> k]).out

(* A debug message, about what mask says, in the attribute of its kind, on *)
(* the first of two consoles that is there: each is NULL or its attribute. *)
EFI_LIGHTGRAY == 7
EFI_YELLOW    == 14
EFI_WHITE     == 15
EFI_TEXT_ATTR(f, b) == f + 16 * b
Kind(mask) == IF "D_ERROR" \in mask THEN EFI_YELLOW
              ELSE IF "D_WARN" \in mask THEN EFI_WHITE ELSE EFI_LIGHTGRAY
DbgPrint(EFIDebug, mask, consoles) ==
  LET k == SelectInSeq(consoles, LAMBDA c : c # NULL)
      back == (consoles[k] \div 16) % 16
      attr == EFI_TEXT_ATTR(Kind(mask), back)
  IN  IF EFIDebug \intersect mask = {} \/ k = 0 THEN [on |-> 0, SetAttr |-> <<>>]
      ELSE [on |-> k, SetAttr |-> <<attr, consoles[k]>>]

-----------------------------------------------------------------------------
Pattern(els) == FlattenSeq([i \in DOMAIN els |-> els[i].text])
Patterns == UNION {[1 .. n -> Elements] : n \in 0 .. MaxElements}

Texts   == UpTo(3, Chars)
Guids   == [1 .. 4 -> {0, 1, UINT32_MOD - 1}]
Known   == <<[i \in 1 .. 4 |-> 0], [i \in 1 .. 4 |-> i % 2]>>
Sources == {NULL} \union {<<"shell 2">>, <<"shell 1">>, <<"image">>}
Screens == 2 .. 4
Bytes   == {0, 32, 65, 122, 123, 255}
Times   == [Hour : 0 .. 23, Year : {1999, 2000, 2099}]

AskedText ==
  \/ \E v \in -(VALUE_MOD \div 2) .. VALUE_MOD \div 2 - 1, comma \in BOOLEAN :
       Ask("number", <<v, comma>>, ValueToString(comma, v))
  \/ \E v \in 0 .. VALUE_MOD - 1 : \/ Ask("unsigned", <<v>>, Unsigned(v))
                                  \/ Ask("hex", <<v>>, ValueToHex[v])
  \/ \E n \in Numerals : Ask("numeral", n, <<Atoi(n), xtoi(n)>>)
  \/ \E s \in Subjects, els \in Patterns : Ask("match", <<s, els>>, <<MetaMatch[s, Pattern(els)]>>)
  \/ \E s \in Subjects, e \in Elements : \E n \in 0 .. Len(e.text) - 1 :
       LET cut == SubSeq(e.text, 1, n) IN Ask("cut off", <<s, cut>>, <<MetaMatch[s, cut]>>)
  \/ \E l \in Lines : Ask("line", l, Argv(l))
AskedStrings ==
  \/ \E mem \in Memories, a, b \in 1 .. MEMORY :
       \/ \E len \in 0 .. MEMORY :
            /\ a + len - 1 <= MEMORY /\ b + len - 1 <= MEMORY
            /\ Ask("copy", <<mem, a, b, len>>, RtCopyMem(mem, a, b, len))
       \/ /\ \E z \in b .. MEMORY : mem[z] = 0
          /\ a + RtStrLen(mem, b) <= MEMORY
          /\ Ask("strcpy", <<mem, a, b>>, RtStrCpy[mem, a, b])
       \/ /\ \A s \in {a, b} : \E z \in s .. MEMORY : mem[z] = 0
          /\ a + RtStrLen(mem, a) + RtStrLen(mem, b) <= MEMORY
          /\ Ask("strcat", <<mem, a, b>>, RtStrCat(mem, a, b))
  \/ \E mem \in Memories, a \in 1 .. MEMORY, v \in Cell : \E len \in 0 .. MEMORY - a + 1 :
       Ask("set", <<mem, a, len, v>>, IF v = 0 THEN RtZeroMem(mem, a, len) ELSE RtSetMem(mem, a, len, v))
  \/ \E s \in Texts, n \in 0 .. 4, room \in BOOLEAN :
       Ask("realloc", <<s, n, room>>, ReallocatePool(IF s = <<>> THEN NULL ELSE s, Len(s), n, room))
  \/ \E s \in Texts, room \in BOOLEAN :
       Ask("duplicate", <<s, room>>, <<StrDuplicate(s, room), AllocateZeroPool(Len(s), room)>>)
  \/ \E s1, s2 \in Texts :
       \/ Ask("strcmp", <<s1, s2>>, <<RtStrCmp(s1, s2), strcmpa(s1, s2)>>)
       \/ \E n \in 0 .. 3 : Ask("strncmp", <<s1, s2, n>>, <<StrnCmp(s1, s2, n), strncmpa(s1, s2, n)>>)
       \/ Len(s1) = Len(s2) /\ Ask("memcmp", <<s1, s2>>, RtCompareMem(s1, s2))
  \/ \E s1, s2 \in UpTo(2, 1 .. 2 * Shift), stub \in BOOLEAN :
       Ask("stricmp", <<s1, s2, stub>>, <<StriCmp(stub, s1, s2), StrLwr(stub, s1), StrUpr(stub, s1)>>)
  \/ \E g \in Guids :
       \/ Ask("guid", <<g>>, [h \in Guids |-> CompareGuid(g, h)])
       \/ Ask("guid text", <<g>>, GuidToString(g, Known))
  \/ \E s2, s1, im \in Sources : Ask("arguments", <<s2, s1, im>>, GetShellArgcArgv(s2, s1, im))
  \/ \E n \in -3 * DENOMINATOR .. 3 * DENOMINATOR : Ask("float", <<n>>, FloatToString(n))
  \/ Ask("time", <<>>, [t \in Times |-> TimeToString(t)])
  \/ \E rows \in Screens, Offset \in 0 .. UINT32_MOD - 1, size \in 0 .. 3 * LINE + 1, b \in Bytes :
       LET Data == [i \in 1 .. size |-> IF i % 2 = 0 THEN b ELSE i]
       IN  Ask("dump", <<Offset, Data, rows>>, DumpHex(Offset, Data, rows))
  \/ \E EFIDebug, mask \in SUBSET {"D_ERROR", "D_WARN", "D_INFO"} :
       \E consoles \in [1 .. 2 -> {NULL, 7, 23, 31, 300}] :
         Ask("debug", <<EFIDebug, mask, consoles>>, DbgPrint(EFIDebug, mask, consoles))
Next ==
  \/ question = "none" /\ (AskedText \/ AskedStrings)
  \/ Again
Spec == Init /\ [][Next]_asked

-----------------------------------------------------------------------------
(* A number's text reads back as the number, with commas after groups of   *)
(* three digits; an unsigned one only if its top bit is clear.             *)
Value(base, d) ==
  FoldLeft(LAMBDA v, i : v + d[i] * base ^ (Len(d) - i), 0, [i \in DOMAIN d |-> i])
NoSign(str) == SelectSeq(str, LAMBDA c : c # Minus)
Plain(str) == SelectSeq(str, LAMBDA c : c \in 0 .. 15)
Stretch(i, j, base) ==                        \* all the digits from i on
  /\ j >= i - 1 /\ \A m \in i .. j : subject[m] \in 0 .. base - 1
  /\ (i > Len(subject) \/ subject[i] # Space)
  /\ (j < Len(subject) => subject[j + 1] \notin 0 .. base - 1)
NumbersExact ==
  /\ question = "number" =>
       LET text == NoSign(answer)
       IN  /\ (subject[1] < 0) <=> (Head(answer) = Minus)
           /\ Value(10, Plain(text)) = (IF subject[1] < 0 THEN -subject[1] ELSE subject[1])
           /\ \A i \in 1 .. Len(text) :
                (text[i] = Comma) <=> (subject[2] /\ i > 1 /\ (Len(text) - i) % 4 = 3)
  /\ question = "unsigned" => (Atoi(answer) = subject[1] <=> subject[1] < VALUE_MOD \div 2)
  /\ question = "hex" => xtoi(answer) = subject[1] /\ (answer[1] # 0 \/ subject[1] = 0)
  /\ question = "numeral" =>
       \E i \in 1 .. Len(subject) + 1, j \in 0 .. Len(subject), k \in 0 .. Len(subject) :
         /\ \A m \in 1 .. i - 1 : subject[m] = Space
         /\ Stretch(i, j, 10) /\ Stretch(i, k, 16)
         /\ answer[1] = Value(10, SubSeq(subject, i, j)) % VALUE_MOD
         /\ answer[2] = Value(16, SubSeq(subject, i, k)) % VALUE_MOD

(* print.c says of the conversion 'u': "value as unsigned decimal".        *)
UnsignedDecimal == question = "unsigned" => answer = Decimal[subject[1]]

(* A string matches a whole pattern exactly when it can be cut into what   *)
(* the pattern's elements stand for.  One that ends within a set is read   *)
(* beyond its end, unless there is nothing to match, or it ends with the   *)
(* dash of a range and no character before that matches.                   *)
Fits(s, els) ==
  \E cut \in [0 .. Len(els) -> 0 .. Len(s)] :
    /\ cut[0] = 0 /\ cut[Len(els)] = Len(s)
    /\ \A i \in 1 .. Len(els) :
         IF els[i].star THEN cut[i] >= cut[i - 1]
         ELSE cut[i] = cut[i - 1] + 1 /\ s[cut[i]] \in els[i].chars
MatchExact ==
  /\ question = "match" => answer = <<IF Fits(subject[1], subject[2]) THEN "yes" ELSE "no">>
  /\ question = "cut off" =>
       LET s == subject[1]  cut == subject[2]
           none == s = <<>> \/ (Last(cut) = Dash /\ Head(s) \notin ToSet(cut))
       IN  answer = <<IF cut = <<>> THEN IF s = <<>> THEN "yes" ELSE "no"
                      ELSE IF none THEN "no" ELSE "past">>

(* The arguments, put together again, are the line, as far as Argv goes.   *)
Joined(argv) == FlattenSeq([i \in DOMAIN argv |-> argv[i] \o <<Space>>])
ArgumentsExact ==
  question = "line" =>
    /\ IsPrefix(Joined(answer), subject \o <<Space>>) /\ Len(answer) <= MAX_CMDLINE_ARGC
    /\ Len(answer) < MAX_CMDLINE_ARGC => Joined(answer) \in {subject, subject \o <<Space>>}

(* A copy moves every byte, and nothing else, unless the destination       *)
(* begins within the source: the bytes before it are then repeated.        *)
Moved(mem, Dest, Src, len) ==
  [a \in DOMAIN mem |-> IF a \in Dest .. Dest + len - 1 THEN mem[Src + a - Dest] ELSE mem[a]]
CopyExact ==
  /\ question = "copy" =>
       LET mem == subject[1]  Dest == subject[2]  Src == subject[3]  len == subject[4] IN
       IF Dest \in Src + 1 .. Src + len - 1
       THEN \A i \in 0 .. len - 1 : answer[Dest + i] = mem[Src + (i % (Dest - Src))]
       ELSE answer = Moved(mem, Dest, Src, len)
  /\ question = "set" =>
       \A a \in 1 .. MEMORY :
         answer[a] = IF a >= subject[2] /\ a - subject[2] < subject[3] THEN subject[4] ELSE subject[1][a]

(* A string is copied whole, unless it would be copied over its own end    *)
(* before that is read: then there is no end.  So a string cannot be       *)
(* appended to itself.                                                     *)
StringsCopied ==
  question \in {"strcpy", "strcat"} =>
    LET mem == subject[1]  Src == subject[3]
        Dest == subject[2] + IF question = "strcat" THEN RtStrLen(mem, subject[2]) ELSE 0
    IN  IF Dest \in Src + 1 .. Src + RtStrLen(mem, Src) THEN answer = Astray
        ELSE answer = Moved(mem, Dest, Src, RtStrLen(mem, Src) + 1)

Prefix(s, n) == SubSeq(s, 1, IF n < Len(s) THEN n ELSE Len(s))

(* A block that is made larger keeps its contents; if the pool has run out *)
(* they are gone, block and all.                                           *)
PoolExact ==
  /\ question = "realloc" =>
       LET s == subject[1]  n == subject[2]  new == answer.NewPool IN
       /\ answer.freed = (s # <<>>)
       /\ (new = NULL) = (n = 0 \/ ~subject[3])
       /\ new # NULL => Prefix(new, Len(s)) = Prefix(s, n)
  /\ question = "duplicate" /\ subject[2] =>
       /\ RtStrCmp(answer[1], Append(subject[1], 0)) = 0 /\ Last(answer[1]) = 0
       /\ ToSet(answer[2]) \subseteq {0}

(* Comparisons order strings as a dictionary does; where the result is     *)
(* unsigned, read as signed.  GUIDs are only told apart, not ordered.      *)
Before(s1, s2) ==
  \E i \in DOMAIN s2 :
    /\ \A j \in 1 .. i - 1 : j \in DOMAIN s1 /\ s1[j] = s2[j]
    /\ i \in DOMAIN s1 => s1[i] < s2[i]
Ordered(r, s1, s2) == (r < 0) = Before(s1, s2) /\ (r = 0) = (s1 = s2)
AsSigned(r) == IF r >= UINTN_MOD \div 2 THEN r - UINTN_MOD ELSE r
ComparesExact ==
  LET s1 == subject[1]  s2 == subject[2]  n == subject[3] IN
  /\ question = "strcmp" => Ordered(answer[1], s1, s2) /\ Ordered(AsSigned(answer[2]), s1, s2)
  /\ question = "strncmp" =>
       /\ Ordered(answer[1], Prefix(s1, n), Prefix(s2, n))
       /\ Ordered(AsSigned(answer[2]), Prefix(s1, n), Prefix(s2, n))
  /\ question = "memcmp" => Ordered(answer, s1, s2)
  /\ question = "stricmp" =>
       /\ (answer[1] = 0) = IF n THEN s1 = s2 ELSE Small(s1) = Small(s2)
       /\ ~n => StrLwr(FALSE, answer[3]) = answer[2]
  /\ question = "guid" => \A h \in Guids : (answer[h] = 0) = (h = s1)
  /\ question = "guid text" => s1 = IF answer[1] = "name" THEN Known[answer[2]] ELSE answer[2]
  /\ question = "arguments" => (answer = NULL) = (ToSet(subject) = {NULL})

(* A fraction reads back, but for the sign of those between -1 and 0; a    *)
(* year loses its century, but no hour its half of the day.                *)
Width[k \in Nat] == IF k < 10 THEN 1 ELSE 1 + Width[k \div 10]
Abs(n) == IF n < 0 THEN -n ELSE n
NumbersTold ==
  /\ question = "float" =>
       LET n == subject[1]  ten == 10 ^ (answer.zeros + Width[answer.digits]) IN
       /\ Abs(n) * ten = DENOMINATOR * (Abs(answer.i) * ten + answer.digits)
       /\ (answer.i < 0) = (n <= -DENOMINATOR)
  /\ question = "time" =>
       \A t, u \in Times :
         answer[t] = answer[u] <=> t.Hour = u.Hour /\ t.Year % 100 = u.Year % 100

(* A dump tells every byte at its place, as far as 32 bits tell it, and    *)
(* never rolls a line off the screen before a key is pressed.              *)
DumpExact ==
  question = "dump" =>
    LET lines == SelectSeq(answer, LAMBDA l : l # Wait)
        Data == subject[2]
        Rolls(i, j) == j - i >= subject[3] - 2 /\ \A k \in i .. j : answer[k] # Wait
    IN  /\ FlattenSeq([k \in DOMAIN lines |-> lines[k].Val]) = Data
        /\ \A k \in DOMAIN lines, i \in 1 .. LINE :
             i <= Len(lines[k].Val) =>
               LET place == lines[k].Offset - subject[1] + i - 1
               IN  \E j \in DOMAIN Data : /\ (j - 1 - place) % UINT32_MOD = 0
                                          /\ Data[j] = lines[k].Val[i]
        /\ subject[3] > 2 => \A i, j \in DOMAIN answer : ~Rolls(i, j)

(* A debug message appears if one of the things it is about is looked at,  *)
(* in the colour of the worst of them, looked at or not, and on the        *)
(* background it finds; the console gets back the attribute it had, and    *)
(* the second is used only if there is no first.                           *)
DebugTold ==
  question = "debug" =>
    LET mask == subject[2]  consoles == subject[3]  on == answer.on
        found == consoles[on]  shown == answer.SetAttr[1]
    IN  /\ on = 0 <=> subject[1] \intersect mask = {} \/ ToSet(consoles) = {NULL}
        /\ on = 2 => consoles[1] = NULL
        /\ on # 0 => /\ found # NULL /\ Last(answer.SetAttr) = found
                     /\ shown \div 16 = (found % 256) \div 16
                     /\ shown % 16 = 14 <=> "D_ERROR" \in mask
                     /\ shown % 16 = 7 <=> mask \subseteq {"D_INFO"}

TextExact ==
  /\ NumbersExact /\ MatchExact /\ ArgumentsExact
  /\ CopyExact /\ StringsCopied /\ PoolExact /\ ComparesExact /\ NumbersTold /\ DumpExact
  /\ DebugTold
=============================================================================
