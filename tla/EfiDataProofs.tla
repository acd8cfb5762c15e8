--------------------------- MODULE EfiDataProofs ----------------------------
(***************************************************************************)
(* What gnu-efi prints, and the device paths it puts together.  For        *)
(* formats of any segments and any length, a buffer of any size from two,  *)
(* and any room, a whole format comes out as its author meant it; and for  *)
(* paths of any nodes and any length each function of EfiPaths leaves what *)
(* PathsExact says of it.                                                  *)
(***************************************************************************)
EXTENDS EfiPrint, SequenceTheorems, WellFoundedInduction, NaturalsInduction, TLAPS

CONSTANTS Nodes, HEADER, ALIGNMENT, Paths
VARIABLES op, src1, src2, dst, bytes

dpath == INSTANCE EfiPaths

-----------------------------------------------------------------------------
(* Sequences                                                               *)

(* A set of numbers has a least one.                                       *)
LEMMA LeastOf ==
  ASSUME NEW S, S \subseteq Nat, S # {}
  PROVE  \E m \in S : \A k \in S : m <= k
<1>1. IsWellFoundedOn(OpToRel(<, Nat), Nat)
  BY NatLessThanWellFounded
<1>2. PICK m \in S : \A k \in S : ~ (<<k, m>> \in OpToRel(<, Nat))
  BY <1>1, WFMin
<1>3. \A k \in S : ~ (k < m)
  <2>1. OpToRel(<, Nat) = {ss \in Nat \X Nat : ss[1] < ss[2]}
    BY DEF OpToRel
  <2> QED BY <1>2, <2>1
<1> QED BY <1>3

(* Induction, for a set in place of a predicate.                           *)
LEMMA AllOf ==
  ASSUME NEW S, 0 \in S, \A n \in Nat : n \in S => n + 1 \in S
  PROVE  Nat \subseteq S
<1> DEFINE Bad == {n \in Nat : n \notin S}
<1> SUFFICES ASSUME Bad # {} PROVE FALSE
  OBVIOUS
<1>1. PICK m \in Bad : \A k \in Bad : m <= k
  <2>1. Bad \subseteq Nat
    OBVIOUS
  <2> HIDE DEF Bad
  <2> QED BY <2>1, LeastOf
<1>2. m # 0 /\ m - 1 \in Nat /\ m - 1 \in S /\ (m - 1) + 1 = m
  BY <1>1
<1>3. (m - 1) + 1 \in S
  BY <1>2
<1> QED BY <1>1, <1>2, <1>3

(* Two sequences, one after the other.                                     *)
LEMMA Joined ==
  \A S : \A p, q \in Seq(S) :
     /\ p \o q \in Seq(S) /\ Len(p \o q) = Len(p) + Len(q)
     /\ \A i \in 1 .. Len(p) : (p \o q)[i] = p[i]
     /\ \A i \in 1 .. Len(q) : (p \o q)[Len(p) + i] = q[i]
<1> TAKE S
<1> TAKE p, q \in Seq(S)
<1>1. /\ p \o q \in Seq(S) /\ Len(p \o q) = Len(p) + Len(q)
      /\ \A i \in 1 .. Len(p) + Len(q) : (p \o q)[i] = IF i <= Len(p) THEN p[i] ELSE q[i - Len(p)]
  BY ConcatProperties
<1>2. Len(p) \in Nat /\ Len(q) \in Nat
  OBVIOUS
<1>3. ASSUME NEW i \in 1 .. Len(p) PROVE (p \o q)[i] = p[i]
  BY <1>1, <1>2
<1>4. ASSUME NEW i \in 1 .. Len(q) PROVE (p \o q)[Len(p) + i] = q[i]
  <2>1. /\ Len(p) + i \in 1 .. Len(p) + Len(q) /\ ~ (Len(p) + i <= Len(p))
        /\ (Len(p) + i) - Len(p) = i
    BY <1>2
  <2> QED BY <1>1, <2>1
<1> QED BY <1>1, <1>3, <1>4

(* The sequences of g joined, up to each of them.                          *)
Joins(f, g, n) ==
  f = [i \in 1 .. n |-> IF i = 1 THEN g[i] ELSE f[i - 1] \o g[i]]

(* One more sequence can be joined,                                        *)
LEMMA JoinsOne ==
  ASSUME NEW g, NEW n \in Nat, NEW f, Joins(f, g, n)
  PROVE  \E h : Joins(h, g, n + 1)
<1> DEFINE h == [i \in 1 .. n + 1 |-> IF i = n + 1 THEN IF i = 1 THEN g[i] ELSE f[n] \o g[i] ELSE f[i]]
<1>1. ASSUME NEW i \in 1 .. n + 1
      PROVE  h[i] = IF i = 1 THEN g[i] ELSE h[i - 1] \o g[i]
  <2>1. CASE i = n + 1
    <3>1. i # 1 => h[i - 1] = f[n]
      BY <2>1
    <3> QED BY <2>1, <3>1
  <2>2. CASE i # n + 1
    <3>1. i \in 1 .. n /\ h[i] = f[i] /\ (i # 1 => h[i - 1] = f[i - 1])
      BY <2>2
    <3>2. f[i] = IF i = 1 THEN g[i] ELSE f[i - 1] \o g[i]
      BY <3>1 DEF Joins
    <3> QED BY <3>1, <3>2
  <2> QED BY <2>1, <2>2
<1>2. h = [i \in 1 .. n + 1 |-> h[i]]
  OBVIOUS
<1> HIDE DEF h
<1>3. Joins(h, g, n + 1)
  BY <1>1, <1>2 DEF Joins
<1> QED BY <1>3

(* and so can all of them.                                                 *)
LEMMA JoinsAll ==
  ASSUME NEW g, NEW n \in Nat
  PROVE  \E f : Joins(f, g, n)
<1> DEFINE S == {i \in Nat : \E f : Joins(f, g, i)}
<1>1. 0 \in S
  <2>1. Joins(<< >>, g, 0)
    BY DEF Joins
  <2> QED BY <2>1
<1>2. \A i \in Nat : i \in S => i + 1 \in S
  BY JoinsOne
<1>3. Nat \subseteq S
  <2> HIDE DEF S
  <2> QED BY <1>1, <1>2, AllOf
<1> QED BY <1>3

(* What one sequence of sequences is when they are joined: each of them    *)
(* has its place, behind those before it.                                  *)
Places(off, g, all) ==
  LET n == Len(g) IN
  /\ off \in [0 .. n -> Nat] /\ off[0] = 0 /\ Len(all) = off[n]
  /\ \A i \in 1 .. n :
       /\ off[i] = off[i - 1] + Len(g[i]) /\ off[i] <= off[n]
       /\ \A k \in 1 .. Len(g[i]) : all[off[i - 1] + k] = g[i][k]

(* What is joined up to one of them begins what is joined up to a later one.*)
Extends(f, off, i, m) == off[i] <= off[m] /\ \A k \in 1 .. off[i] : f[m][k] = f[i][k]

(* What it begins begins what comes later still;                           *)
LEMMA ExtendsMore ==
  ASSUME NEW f, NEW off, NEW i, NEW l, NEW m, off[i] \in Nat, off[l] \in Nat, off[m] \in Nat,
         Extends(f, off, i, l), Extends(f, off, l, m)
  PROVE  Extends(f, off, i, m)
<1>1. off[i] <= off[m]
  BY DEF Extends
<1>2. ASSUME NEW k \in 1 .. off[i] PROVE f[m][k] = f[i][k]
  <2>1. k \in 1 .. off[l]
    BY DEF Extends
  <2> QED BY <2>1 DEF Extends
<1> QED BY <1>1, <1>2 DEF Extends

(* so, if each begins the next, it begins the last.                        *)
LEMMA AllExtend ==
  ASSUME NEW f, NEW off, NEW n \in Nat, \A m \in 1 .. n : off[m] \in Nat,
         \A m \in 2 .. n : Extends(f, off, m - 1, m),
         NEW i \in 1 .. n
  PROVE  Extends(f, off, i, n)
<1> DEFINE U == {m \in Nat : i <= m /\ m <= n => Extends(f, off, i, m)}
<1>1. 0 \in U
  OBVIOUS
<1>2. ASSUME NEW m \in Nat, m \in U PROVE m + 1 \in U
  <2> SUFFICES ASSUME i <= m + 1, m + 1 <= n PROVE Extends(f, off, i, m + 1)
    OBVIOUS
  <2>1. CASE i = m + 1
    <3>1. off[i] \in Nat
      OBVIOUS
    <3> QED BY <2>1, <3>1 DEF Extends
  <2>2. CASE i # m + 1
    <3>1. i <= m /\ m <= n /\ m \in 1 .. n /\ m + 1 \in 2 .. n /\ m + 1 \in 1 .. n /\ (m + 1) - 1 = m
      BY <2>2
    <3>2. Extends(f, off, i, m) /\ Extends(f, off, m, m + 1)
      <4>1. Extends(f, off, i, m)
        BY <1>2, <3>1
      <4>2. Extends(f, off, (m + 1) - 1, m + 1)
        BY <3>1
      <4> QED BY <3>1, <4>1, <4>2
    <3>3. off[i] \in Nat /\ off[m] \in Nat /\ off[m + 1] \in Nat
      BY <3>1
    <3> QED BY <3>2, <3>3, ExtendsMore
  <2> QED BY <2>1, <2>2
<1> HIDE DEF U
<1>3. n \in U
  BY <1>1, <1>2, AllOf
<1> QED BY <1>3 DEF U

(* FlattenSeq puts every sequence in its place.                            *)
LEMMA Flattened ==
  ASSUME NEW S, NEW g \in Seq(Seq(S))
  PROVE  FlattenSeq(g) \in Seq(S) /\ \E off : Places(off, g, FlattenSeq(g))
<1> DEFINE n == Len(g)
<1>1. n \in Nat /\ \A i \in 1 .. n : g[i] \in Seq(S)
  BY LenProperties
<1>2. CASE n = 0
  <2>1. FlattenSeq(g) = << >> /\ g = << >>
    BY <1>2 DEF FlattenSeq
  <2>2. Len(<< >>) = 0 /\ << >> \in Seq(S)
    OBVIOUS
  <2> DEFINE off == [i \in 0 .. 0 |-> 0]
  <2>3. Places(off, g, FlattenSeq(g))
    BY <2>1, <2>2 DEF Places
  <2> HIDE DEF off
  <2> QED BY <2>1, <2>2, <2>3
<1>3. CASE n # 0
  <2> DEFINE f == CHOOSE f : Joins(f, g, n)
  <2>1. Joins(f, g, n)
    BY <1>1, JoinsAll
  <2>2. FlattenSeq(g) = f[n]
    BY <1>3 DEF FlattenSeq, Joins
  <2> HIDE DEF f
  <2>3. \A i \in 1 .. n : f[i] = IF i = 1 THEN g[i] ELSE f[i - 1] \o g[i]
    BY <2>1 DEF Joins
  <2> DEFINE T == {i \in Nat : i \in 1 .. n => f[i] \in Seq(S)}
  <2>4. Nat \subseteq T
    <3>1. 0 \in T
      OBVIOUS
    <3>2. ASSUME NEW i \in Nat, i \in T PROVE i + 1 \in T
      <4> SUFFICES ASSUME i + 1 \in 1 .. n PROVE f[i + 1] \in Seq(S)
        OBVIOUS
      <4>1. CASE i = 0
        BY <1>1, <2>3, <4>1
      <4>2. CASE i # 0
        <5>1. i \in 1 .. n /\ f[i] \in Seq(S) /\ g[i + 1] \in Seq(S)
          BY <1>1, <3>2, <4>2
        <5>2. f[i + 1] = f[i] \o g[i + 1]
          <6>1. i + 1 # 1 /\ (i + 1) - 1 = i
            BY <4>2
          <6> QED BY <2>3, <6>1
        <5> QED BY <5>1, <5>2
      <4> QED BY <4>1, <4>2
    <3> HIDE DEF T
    <3> QED BY <3>1, <3>2, AllOf
  <2>5. \A i \in 1 .. n : f[i] \in Seq(S) /\ Len(f[i]) \in Nat
    BY <2>4
  <2> DEFINE off == [i \in 0 .. n |-> IF i = 0 THEN 0 ELSE Len(f[i])]
  <2>6. off \in [0 .. n -> Nat] /\ off[0] = 0 /\ off[n] = Len(f[n])
    BY <1>1, <1>3, <2>5
  <2>7. ASSUME NEW i \in 1 .. n
        PROVE  /\ off[i] = off[i - 1] + Len(g[i])
               /\ \A k \in 1 .. Len(g[i]) : f[i][off[i - 1] + k] = g[i][k]
               /\ i > 1 => \A k \in 1 .. off[i - 1] : f[i][k] = f[i - 1][k]
    <3>1. g[i] \in Seq(S) /\ Len(g[i]) \in Nat /\ off[i] = Len(f[i])
      BY <1>1
    <3>2. CASE i = 1
      <4>0. i - 1 = 0 /\ off[0] = 0
        BY <2>6, <3>2
      <4>1. f[i] = g[i] /\ off[i - 1] = 0
        <5> HIDE DEF off
        <5> QED BY <2>3, <3>2, <4>0
      <4>2. Len(g[i]) = 0 + Len(g[i]) /\ \A k \in 1 .. Len(g[i]) : 0 + k = k
        BY <3>1
      <4> HIDE DEF off
      <4> QED BY <3>1, <3>2, <4>1, <4>2
    <3>3. CASE i # 1
      <4>0. i - 1 \in 1 .. n /\ i - 1 \in 0 .. n /\ i - 1 # 0
        BY <1>1, <3>3
      <4>1. f[i - 1] \in Seq(S) /\ f[i] = f[i - 1] \o g[i] /\ off[i - 1] = Len(f[i - 1])
        BY <2>3, <2>5, <3>3, <4>0
      <4> DEFINE p == f[i - 1]
                 q == g[i]
      <4>2. p \in Seq(S) /\ q \in Seq(S)
        BY <3>1, <4>1
      <4> HIDE DEF p, q
      <4>3. /\ Len(p \o q) = Len(p) + Len(q)
            /\ \A j \in 1 .. Len(p) : (p \o q)[j] = p[j]
            /\ \A j \in 1 .. Len(q) : (p \o q)[Len(p) + j] = q[j]
        BY <4>2, Joined
      <4> HIDE DEF off
      <4> QED BY <3>1, <4>1, <4>3 DEF p, q
    <3> QED BY <3>2, <3>3
  <2> HIDE DEF off
  <2>8. ASSUME NEW m \in 2 .. n PROVE Extends(f, off, m - 1, m)
    <3>1. m \in 1 .. n /\ m > 1 /\ m - 1 \in 0 .. n /\ m \in 0 .. n
      BY <1>1
    <3>2. off[m] = off[m - 1] + Len(g[m]) /\ \A k \in 1 .. off[m - 1] : f[m][k] = f[m - 1][k]
      BY <2>7, <3>1
    <3>3. off[m] \in Nat /\ off[m - 1] \in Nat /\ Len(g[m]) \in Nat
      <4>1. Len(g[m]) \in Nat
        BY <1>1, <3>1
      <4> HIDE DEF n
      <4> QED BY <2>6, <3>1, <4>1
    <3>4. off[m - 1] <= off[m]
      <4>1. off[m] = off[m - 1] + Len(g[m])
        BY <3>2
      <4> QED BY <3>3, <4>1
    <3> QED BY <3>2, <3>4 DEF Extends
  <2>9. ASSUME NEW i \in 1 .. n PROVE Extends(f, off, i, n)
    <3>1. \A m \in 1 .. n : off[m] \in Nat
      <4> HIDE DEF n
      <4> QED BY <2>6
    <3> HIDE DEF n
    <3> QED BY <1>1, <2>8, <3>1, AllExtend
  <2>10. ASSUME NEW i \in 1 .. n, NEW k \in 1 .. Len(g[i]) PROVE f[n][off[i - 1] + k] = g[i][k]
    <3>0. i - 1 \in 0 .. n
      BY <1>1
    <3>1. off[i - 1] \in Nat /\ Len(g[i]) \in Nat
      <4>1. Len(g[i]) \in Nat
        BY <1>1
      <4> HIDE DEF n
      <4> QED BY <2>6, <3>0, <4>1
    <3>2. off[i] = off[i - 1] + Len(g[i]) /\ f[i][off[i - 1] + k] = g[i][k]
      BY <2>7
    <3>3. off[i - 1] + k \in 1 .. off[i]
      <4> DEFINE o == off[i - 1]
                 l == Len(g[i])
      <4>1. o \in Nat /\ l \in Nat /\ k \in 1 .. l /\ off[i] = o + l
        BY <3>1, <3>2
      <4> HIDE DEF o, l
      <4>2. o + k \in 1 .. o + l
        BY <4>1
      <4> QED BY <4>1, <4>2 DEF o, l
    <3>4. f[n][off[i - 1] + k] = f[i][off[i - 1] + k]
      BY <2>9, <3>3 DEF Extends
    <3> QED BY <3>2, <3>4
  <2>11. Places(off, g, FlattenSeq(g))
    <3> HIDE DEF n
    <3>1. /\ off \in [0 .. n -> Nat] /\ off[0] = 0 /\ Len(f[n]) = off[n]
          /\ \A i \in 1 .. n : /\ off[i] = off[i - 1] + Len(g[i]) /\ off[i] <= off[n]
                               /\ \A k \in 1 .. Len(g[i]) : f[n][off[i - 1] + k] = g[i][k]
      BY <2>6, <2>7, <2>9, <2>10 DEF Extends
    <3> QED BY <2>2, <3>1 DEF Places, n
  <2> QED BY <1>1, <1>3, <2>2, <2>5, <2>11
<1> QED BY <1>2, <1>3

-----------------------------------------------------------------------------
(* Where printing stands                                                   *)

(* What there is of tokens, characters and items.                          *)
Kinds == {"%", "x", "nl", "0", "-", ".", "w", "n", "h", "N", "H", "s"}
In(text) == {text[i] : i \in 1 .. Len(text)}
Items == {s \in Segments : s.kind = "item"}
Given == {In(h) : h \in Earlier} \union {In(s.text) : s \in Items}
Chars == Kinds \union {"cr", "sp", "?"} \union UNION Given
TokenSet ==
  {t \in Kinds \X (Nat \union Seq(Chars)) :
     (t[1] = "s" => t[2] \in Seq(Chars)) /\ (t[1] = "w" => t[2] \in Nat)}
ItemSet == [FieldWidth : Nat \union {None}, Width : Nat, Pad : Chars, PadBefore : BOOLEAN]

(* An item is read in seven stages: attribute, zeros, left, width, dot,    *)
(* field width, conversion; the first six need not be there.               *)
One(cond) == IF cond THEN 1 ELSE 0
Has(s, stage) ==
  CASE stage = 1 -> s.attr # "" [] stage = 2 -> s.zero [] stage = 3 -> s.left
    [] stage = 4 -> s.width > 0 [] stage \in {5, 6} -> s.field > 0 [] stage = 7 -> TRUE
Token(s, stage) ==
  CASE stage = 1 -> Tok(s.attr) [] stage = 2 -> Tok("0") [] stage = 3 -> Tok("-")
    [] stage = 4 -> <<"w", s.width>> [] stage = 5 -> Tok(".") [] stage = 6 -> <<"w", s.field>>
    [] stage = 7 -> <<"s", s.text>>
Pos(s, stage) ==
  2 + (IF stage > 1 THEN One(s.attr # "") ELSE 0) + (IF stage > 2 THEN One(s.zero) ELSE 0)
    + (IF stage > 3 THEN One(s.left) ELSE 0) + (IF stage > 4 THEN One(s.width > 0) ELSE 0)
    + (IF stage > 5 THEN One(s.field > 0) ELSE 0) + (IF stage > 6 THEN One(s.field > 0) ELSE 0)

(* What is known of the item when a stage is reached.                      *)
ItemAt(s, stage) ==
  [FieldWidth |-> IF stage > 6 /\ s.field > 0 THEN s.field ELSE None,
   Width |-> IF stage > 4 THEN s.width ELSE 0,
   Pad |-> IF stage > 2 /\ s.zero THEN "0" ELSE "sp",
   PadBefore |-> ~ (stage > 3 /\ s.left)]
ParseAt(s, stage) == IF stage > 5 /\ s.field > 0 THEN "FieldWidth" ELSE "Width"

(* The tokens and the characters of each segment, and their places in all. *)
Lists == [i \in 1 .. Len(segs) |-> Tokens(segs[i])]
Run(i) == [k \in DOMAIN Plain(segs[i]) |-> <<Plain(segs[i])[k], AttrIn(i)>>]
Runs == [i \in 1 .. Len(segs) |-> Run(i)]
Layout(po, mo) == Places(po, Lists, AllTokens(segs)) /\ Places(mo, Runs, Meant)

(* How far: f characters have been handed over, the buffer holds the next, *)
(* and what is being put are those after them.                             *)
OnConsole == to = "console"
Sent(f) ==
  /\ f \in 0 .. Len(Meant)
  /\ OnConsole => out = SubSeq(Meant, 1, f)
  /\ to = "string" => str = SubSeq(Glyphs, 1, IF f > maxlen THEN maxlen ELSE f)
  /\ to = "pool" => /\ lost \in 0 .. Len(had) + f /\ len = Len(str)
                    /\ str = SubSeq(had \o Glyphs, lost + 1, Len(had) + f)
Ahead(k, text) ==
  \A j \in 1 .. Len(text) : Meant[k + j][1] = text[j] /\ (OnConsole => Meant[k + j][2] = Attr)
SoFar ==
  /\ Len(Buffer) <= Written /\ Sent(Written - Len(Buffer))
  /\ Ahead(Written - Len(Buffer), Buffer) /\ Ahead(Written, todo)

(* Between segments, in one, putting its text, at the end.                 *)
AfterAttr(i) == IF segs[i].attr # "" THEN AttrBefore(i) ELSE 0
InText(po, mo) ==
  \E i \in 0 .. Len(segs) :
    Index = po[i] + 1 /\ Written + Len(todo) = mo[i] /\ (OnConsole => Attr = AttrBefore(i + 1))
At(base, i, stage) ==
  /\ Index = base + Pos(segs[i], stage)
  /\ Item = ItemAt(segs[i], stage) /\ parse = ParseAt(segs[i], stage)
  /\ OnConsole => IF stage = 1 THEN Attr = AttrBefore(i) /\ RestoreAttr = 0
                  ELSE Attr = AttrIn(i) /\ RestoreAttr = AfterAttr(i)
Reading(po, i) ==
  \/ segs[i].kind = "attr" /\ Index = po[i - 1] + 2 /\ (OnConsole => Attr = AttrBefore(i))
  \/ segs[i].kind = "item" /\ \E stage \in 1 .. 7 : At(po[i - 1], i, stage)
InItem(po, mo) ==
  todo = <<>> /\ \E i \in 1 .. Len(segs) : Written = mo[i - 1] /\ Reading(po, i)
InPut(po, mo) ==
  \E i \in 1 .. Len(segs) :
    /\ segs[i].kind = "item" /\ Index = po[i] + 1 /\ Written + Len(todo) = mo[i]
    /\ OnConsole => Attr = AttrIn(i) /\ RestoreAttr = AfterAttr(i)
InDone ==
  Buffer = <<>> /\ todo = <<>> /\ Written = Len(Meant)
  /\ (OnConsole => Attr = AttrBefore(Len(segs) + 1))

Good == Whole /\ (OnConsole \/ ~ Colours)
Located(po, mo) ==
  /\ mode = "text" => InText(po, mo)
  /\ mode = "item" => InItem(po, mo)
  /\ mode = "put"  => InPut(po, mo)
  /\ mode = "done" => InDone
  /\ mode # "undefined"
PrintType ==
  /\ mode \in {"idle", "text", "item", "put", "done", "undefined"}
  /\ mode # "idle" => to \in {"console", "string", "pool"}
  /\ segs \in Seq(Segments) /\ fmt \in Seq(TokenSet) /\ Index \in Nat \ {0}
  /\ Item \in ItemSet /\ parse \in {"Width", "FieldWidth"} /\ todo \in Seq(Chars)
  /\ Attr \in Nat /\ RestoreAttr \in Nat /\ Written \in Nat
  /\ Buffer \in Seq(Chars) /\ Len(Buffer) < PRINT_STRING_LEN
  /\ maxlen \in Nat /\ had \in Seq(Chars) /\ str \in Seq(Chars) /\ len \in Nat /\ lost \in Nat
AtRest ==
  /\ Index = 1 /\ todo = <<>> /\ Buffer = <<>> /\ Written = 0
  /\ out = <<>> /\ str = <<>> /\ len = 0 /\ lost = 0
PrintInv ==
  /\ PrintType
  /\ mode = "idle" => AtRest
  /\ mode # "idle" /\ Good => SoFar /\ \E po, mo : Layout(po, mo) /\ Located(po, mo)

-----------------------------------------------------------------------------
(* Characters and items                                                    *)

(* The kinds of segments, and the characters there are.                    *)
LEMMA SegmentIs ==
  ASSUME EfiPrintAssumption, NEW s \in Segments
  PROVE  \/ s.kind = "char" /\ s.c \in {"x", "nl"}
         \/ s.kind = "attr" /\ s.c \in {"N", "H"}
         \/ /\ s.kind = "item" /\ s.attr \in {"", "n", "h"}
            /\ s.zero \in BOOLEAN /\ s.left \in BOOLEAN
            /\ s.width \in Nat /\ s.field \in Nat /\ s.text \in Seq(Chars)
<1>1. \/ s.kind = "char" /\ s.c \in {"x", "nl"}
      \/ s.kind = "attr" /\ s.c \in {"N", "H"}
      \/ /\ s.kind = "item" /\ s.attr \in {"", "n", "h"} /\ s.zero \in BOOLEAN /\ s.left \in BOOLEAN
         /\ s.width \in Nat /\ s.field \in Nat /\ s.text \in Seq(STRING)
  BY DEF EfiPrintAssumption
<1>2. CASE s.kind = "item" /\ s.text \in Seq(STRING)
  <2>1. In(s.text) \subseteq Chars
    <3>1. s \in Items
      BY <1>2 DEF Items
    <3>2. In(s.text) \in Given
      BY <3>1 DEF Given
    <3> QED BY <3>2 DEF Chars
  <2>2. s.text \in [1 .. Len(s.text) -> Chars] /\ Len(s.text) \in Nat
    <3>1. s.text \in [1 .. Len(s.text) -> STRING] /\ Len(s.text) \in Nat
      BY <1>2
    <3> QED BY <2>1, <3>1 DEF In
  <2>3. s.text \in Seq(Chars)
    BY <2>2
  <2> QED BY <1>1, <1>2, <2>3
<1> QED BY <1>1, <1>2

(* Every character there is.                                               *)
LEMMA CharsAre ==
  ASSUME EfiPrintAssumption
  PROVE  /\ Kinds \subseteq Chars /\ {"%", "x", "nl", "0", "cr", "sp", "?"} \subseteq Chars
         /\ Earlier \subseteq Seq(Chars)
<1>1. Kinds \subseteq Chars /\ {"%", "x", "nl", "0", "cr", "sp", "?"} \subseteq Chars
  BY DEF Chars, Kinds
<1>2. ASSUME NEW h \in Earlier PROVE h \in Seq(Chars)
  <2>1. In(h) \subseteq Chars
    <3>1. In(h) \in Given
      BY DEF Given
    <3> QED BY <3>1 DEF Chars
  <2>2. h \in [1 .. Len(h) -> Chars] /\ Len(h) \in Nat
    <3>1. h \in Seq(STRING)
      BY DEF EfiPrintAssumption
    <3>2. h \in [1 .. Len(h) -> STRING] /\ Len(h) \in Nat
      BY <3>1
    <3> QED BY <2>1, <3>2 DEF In
  <2> QED BY <2>2
<1> QED BY <1>1, <1>2

(* A text of equal characters, in front of one or behind.                  *)
LEMMA FillIs ==
  ASSUME NEW n \in Int, NEW S, NEW c \in S
  PROVE  /\ Fill(n, c) \in Seq(S) /\ Len(Fill(n, c)) = (IF n > 0 THEN n ELSE 0)
         /\ n <= 0 => Fill(n, c) = << >>
<1>1. CASE n > 0
  <2> DEFINE f == [i \in 1 .. n |-> c]
  <2>1. f \in [1 .. n -> S] /\ n \in Nat
    BY <1>1
  <2>2. Fill(n, c) = f
    BY <1>1 DEF Fill
  <2> HIDE DEF f
  <2>3. f \in Seq(S) /\ Len(f) = n
    BY <2>1
  <2> QED BY <1>1, <2>2, <2>3
<1>2. CASE ~ n > 0
  BY <1>2 DEF Fill
<1> QED BY <1>1, <1>2

(* An item laid out is as meant.                                           *)
LEMMA PITEMIs ==
  ASSUME EfiPrintAssumption, NEW item \in ItemSet, NEW text \in Seq(Chars)
  PROVE  PITEM(item, text) \in Seq(Chars)
<1> DEFINE shown == IF item.FieldWidth # None /\ item.FieldWidth < Len(text)
                    THEN SubSeq(text, 1, item.FieldWidth) ELSE text
           field == IF item.FieldWidth = None THEN Len(shown) ELSE item.FieldWidth
           width == IF Len(shown) > item.Width THEN Len(shown) ELSE item.Width
           body  == Fill(width - Len(shown), item.Pad) \o shown
           blank == Fill(field - width, "sp")
<1>1. /\ item.FieldWidth \in Int /\ (item.FieldWidth # None => item.FieldWidth \in Nat)
      /\ item.Width \in Nat /\ item.Pad \in Chars /\ "sp" \in Chars /\ Len(text) \in Nat
  <2>1. item.FieldWidth \in Nat \union {None} /\ item.Width \in Nat /\ item.Pad \in Chars
    BY DEF ItemSet
  <2>2. "sp" \in Chars /\ Len(text) \in Nat
    BY CharsAre
  <2> QED BY <2>1, <2>2 DEF None
<1>2. shown \in Seq(Chars)
  <2>1. CASE item.FieldWidth # None /\ item.FieldWidth < Len(text)
    <3>1. \A i \in 1 .. item.FieldWidth : text[i] \in Chars
      BY <1>1, <2>1
    <3>2. SubSeq(text, 1, item.FieldWidth) \in Seq(Chars)
      BY <1>1, <3>1, SubSeqProperties
    <3> QED BY <2>1, <3>2
  <2> QED BY <2>1
<1> HIDE DEF shown
<1>3. Len(shown) \in Nat
  BY <1>2
<1>4. field \in Int /\ width \in Int
  BY <1>1, <1>3
<1> HIDE DEF field, width
<1>5. Fill(width - Len(shown), item.Pad) \in Seq(Chars)
  BY <1>1, <1>3, <1>4, FillIs
<1>6. blank \in Seq(Chars)
  BY <1>1, <1>4, FillIs
<1>7. body \in Seq(Chars)
  BY <1>2, <1>5
<1> HIDE DEF body, blank
<1>8. blank \o body \in Seq(Chars) /\ body \o blank \in Seq(Chars)
  BY <1>6, <1>7
<1>9. PITEM(item, text) = IF Before(item) THEN blank \o body ELSE body \o blank
  BY DEF PITEM, shown, field, width, body, blank
<1> QED BY <1>8, <1>9

(* PITEM lays an item out, once it is read, as its author meant.           *)
LEMMA LaidOut ==
  ASSUME EfiPrintAssumption, NEW s \in Segments, s.kind = "item"
  PROVE  PITEM(ItemAt(s, 7), s.text) = Laid(s) /\ Laid(s) \in Seq(Chars)
<1> DEFINE item == ItemAt(s, 7)
           text == s.text
           shown == IF item.FieldWidth # None /\ item.FieldWidth < Len(text)
                    THEN SubSeq(text, 1, item.FieldWidth) ELSE text
           cut == IF Len(text) > s.field /\ s.field > 0 THEN SubSeq(text, 1, s.field) ELSE text
           field == IF item.FieldWidth = None THEN Len(shown) ELSE item.FieldWidth
           width == IF Len(shown) > item.Width THEN Len(shown) ELSE item.Width
           body  == Fill(width - Len(shown), item.Pad) \o shown
           pad == IF s.zero THEN "0" ELSE "sp"
           value == Fill(s.width - Len(cut), pad) \o cut
           blank == Fill(field - width, "sp")
           space == Fill(s.field - Len(value), "sp")
<1>1. s.zero \in BOOLEAN /\ s.left \in BOOLEAN /\ s.width \in Nat /\ s.field \in Nat
      /\ text \in Seq(Chars)
  BY SegmentIs
<1>0. pad \in Chars /\ "sp" \in Chars
  BY CharsAre
<1>2. /\ item.FieldWidth = (IF s.field > 0 THEN s.field ELSE None) /\ item.Width = s.width
      /\ item.Pad = pad /\ item.PadBefore = ~ s.left
  BY <1>1 DEF ItemAt
<1>3. Len(text) \in Nat /\ None = -1 /\ pad \in Chars /\ "sp" \in Chars
  BY <1>0, <1>1 DEF None
<1> HIDE DEF item, text, pad
<1>4. shown = cut
  BY <1>1, <1>2, <1>3
<1>5. cut \in Seq(Chars) /\ Len(cut) \in Nat
  <2>1. CASE Len(text) > s.field /\ s.field > 0
    <3>1. \A i \in 1 .. s.field : text[i] \in Chars
      BY <1>1, <1>3, <2>1
    <3>2. SubSeq(text, 1, s.field) \in Seq(Chars)
      BY <1>1, <3>1, SubSeqProperties
    <3> QED BY <2>1, <3>2
  <2> QED BY <1>1, <1>3, <2>1
<1> HIDE DEF shown, cut
<1>6. field = (IF s.field > 0 THEN s.field ELSE Len(cut)) /\ width \in Nat /\ width >= Len(cut)
      /\ width = (IF Len(cut) > s.width THEN Len(cut) ELSE s.width)
  BY <1>1, <1>2, <1>3, <1>4, <1>5
<1> HIDE DEF field, width
<1>7. Fill(width - Len(cut), pad) = Fill(s.width - Len(cut), pad)
      /\ Fill(s.width - Len(cut), pad) \in Seq(Chars)
      /\ Len(Fill(s.width - Len(cut), pad)) = width - Len(cut)
  <2>1. CASE Len(cut) > s.width
    <3>1. width - Len(cut) <= 0 /\ s.width - Len(cut) <= 0 /\ width - Len(cut) \in Int
          /\ s.width - Len(cut) \in Int /\ width - Len(cut) = 0
      BY <1>1, <1>5, <1>6, <2>1
    <3> DEFINE a == width - Len(cut)
               b == s.width - Len(cut)
    <3>2. a \in Int /\ a = 0 /\ b \in Int /\ b <= 0
      BY <3>1
    <3> HIDE DEF a, b
    <3>3. /\ Fill(a, pad) = << >> /\ Fill(b, pad) = << >>
          /\ Fill(b, pad) \in Seq(Chars) /\ Len(Fill(b, pad)) = 0
      BY <1>3, <3>2, FillIs
    <3> QED BY <3>2, <3>3 DEF a, b
  <2>2. CASE ~ Len(cut) > s.width
    <3>1. width = s.width /\ s.width - Len(cut) \in Int /\ s.width - Len(cut) >= 0
      BY <1>1, <1>5, <1>6, <2>2
    <3> DEFINE a == s.width - Len(cut)
    <3>2. a \in Int /\ a >= 0
      BY <3>1
    <3> HIDE DEF a
    <3>3. Fill(a, pad) \in Seq(Chars) /\ Len(Fill(a, pad)) = a
      BY <1>3, <3>2, FillIs
    <3> QED BY <3>1, <3>3 DEF a
  <2> QED BY <2>1, <2>2
<1>8. body = value
  BY <1>2, <1>4, <1>7
<1>9. value \in Seq(Chars) /\ Len(value) = width
  <2> DEFINE f == Fill(s.width - Len(cut), pad)
  <2>1. f \in Seq(Chars) /\ cut \in Seq(Chars) /\ Len(f) = width - Len(cut)
    BY <1>5, <1>7
  <2> HIDE DEF f
  <2>2. f \o cut \in Seq(Chars) /\ Len(f \o cut) = Len(f) + Len(cut)
    BY <2>1
  <2>3. Len(f) + Len(cut) = width
    BY <1>5, <1>6, <2>1
  <2> QED BY <2>2, <2>3 DEF f
<1> HIDE DEF value, body
<1>10. blank = space /\ space \in Seq(Chars)
  <2>1. CASE s.field > 0
    <3>1. field = s.field /\ s.field - Len(value) \in Int
      BY <1>1, <1>6, <1>9, <2>1
    <3> QED BY <1>3, <1>9, <3>1, FillIs
  <2>2. CASE ~ s.field > 0
    <3>1. field - width <= 0 /\ s.field - Len(value) <= 0 /\ field - width \in Int
          /\ s.field - Len(value) \in Int
      BY <1>1, <1>5, <1>6, <1>9, <2>2
    <3> QED BY <1>3, <3>1, FillIs
  <2> QED BY <2>1, <2>2
<1> HIDE DEF blank, space
<1>11. PITEM(item, text) = IF Before(item) THEN blank \o body ELSE body \o blank
  BY DEF PITEM, shown, field, width, body, blank
<1>12. Laid(s) = IF s.left THEN value \o space ELSE space \o value
  BY DEF Laid, Wide, cut, value, space, pad, text
<1>13. Before(item) = ~ s.left
  BY <1>2 DEF Before
<1>14. value \o space \in Seq(Chars) /\ space \o value \in Seq(Chars)
  BY <1>9, <1>10
<1>15. PITEM(item, text) = Laid(s) /\ Laid(s) \in Seq(Chars)
  BY <1>1, <1>8, <1>10, <1>11, <1>12, <1>13, <1>14
<1> QED BY <1>15 DEF item, text

(* Sequences of one or two characters.                                     *)
LEMMA Short ==
  ASSUME NEW S
  PROVE  /\ \A x \in S : <<x>> \in Seq(S) /\ Len(<<x>>) = 1 /\ <<x>>[1] = x
         /\ \A x, y \in S : <<x, y>> \in Seq(S)
OBVIOUS

(* Newlines turned into two characters are characters still.               *)
LEMMA ReturnsIs ==
  ASSUME EfiPrintAssumption, NEW text \in Seq(Chars)
  PROVE  WithReturns(text) \in Seq(Chars)
<1> DEFINE g == [i \in DOMAIN text |-> IF text[i] = "nl" THEN <<"cr", "nl">> ELSE <<text[i]>>]
<1>1. DOMAIN text = 1 .. Len(text) /\ Len(text) \in Nat
  OBVIOUS
<1>2. \A i \in 1 .. Len(text) : g[i] \in Seq(Chars)
  <2> SUFFICES ASSUME NEW i \in 1 .. Len(text) PROVE g[i] \in Seq(Chars)
    OBVIOUS
  <2>1. text[i] \in Chars
    OBVIOUS
  <2>2. <<"cr", "nl">> \in Seq(Chars) /\ <<text[i]>> \in Seq(Chars)
    BY <2>1, CharsAre, Short
  <2> QED BY <1>1, <2>2
<1>3. g \in [1 .. Len(text) -> Seq(Chars)]
  BY <1>1, <1>2
<1>4. WithReturns(text) = FlattenSeq(g)
  BY DEF WithReturns
<1> HIDE DEF g
<1>5. g \in Seq(Seq(Chars))
  BY <1>1, <1>3
<1> QED BY <1>4, <1>5, Flattened

(* The characters of a segment.                                            *)
LEMMA PlainIs ==
  ASSUME EfiPrintAssumption, NEW s \in Segments
  PROVE  Plain(s) \in Seq(Chars) /\ DOMAIN Plain(s) = 1 .. Len(Plain(s)) /\ Len(Plain(s)) \in Nat
<1>1. Plain(s) \in Seq(Chars)
  <2>1. CASE s.kind = "char"
    <3>1. <<s.c>> \in Seq(Chars)
      BY <2>1, SegmentIs, CharsAre, Short
    <3> QED BY <2>1, <3>1, ReturnsIs DEF Plain
  <2>2. CASE s.kind = "attr"
    BY <2>2 DEF Plain
  <2>3. CASE s.kind = "item"
    BY <2>3, LaidOut, ReturnsIs DEF Plain
  <2> QED BY <2>1, <2>2, <2>3, SegmentIs
<1> QED BY <1>1

-----------------------------------------------------------------------------
(* Tokens                                                                  *)

(* A token that need not be there.                                         *)
Longer(S, q, cond, x, r) ==
  /\ r \in Seq(S) /\ Len(r) \in Nat /\ Len(q) \in Nat /\ Len(r) = Len(q) + One(cond)
  /\ \A i \in 1 .. Len(q) : r[i] = q[i]
  /\ cond => r[Len(q) + 1] = x

(* What is put when a condition holds makes a sequence that much longer.   *)
LEMMA WhenAdds ==
  ASSUME NEW S, NEW q \in Seq(S), NEW cond \in BOOLEAN, NEW x, cond => x \in S
  PROVE  Longer(S, q, cond, x, q \o When(cond, x))
<1>1. CASE cond
  <2> DEFINE p == <<x>>
  <2>1. When(cond, x) = p /\ One(cond) = 1
    BY <1>1 DEF When, One
  <2>2. p \in Seq(S) /\ Len(p) = 1 /\ p[1] = x
    BY <1>1, Short
  <2> HIDE DEF p
  <2>3. /\ q \o p \in Seq(S) /\ Len(q \o p) = Len(q) + Len(p)
        /\ \A i \in 1 .. Len(q) : (q \o p)[i] = q[i]
        /\ \A i \in 1 .. Len(p) : (q \o p)[Len(q) + i] = p[i]
    <3>1. q \in Seq(S) /\ p \in Seq(S)
      BY <2>2
    <3> QED BY <3>1, Joined
  <2>4. 1 \in 1 .. Len(p) /\ Len(q \o p) \in Nat /\ Len(q) \in Nat
    BY <2>2, <2>3
  <2> QED BY <1>1, <2>1, <2>2, <2>3, <2>4 DEF Longer
<1>2. CASE ~ cond
  <2>1. When(cond, x) = << >> /\ One(cond) = 0
    BY <1>2 DEF When, One
  <2>2. q \o << >> = q
    OBVIOUS
  <2>3. Len(q) \in Nat
    OBVIOUS
  <2> QED BY <1>2, <2>1, <2>2, <2>3 DEF Longer
<1> QED BY <1>1, <1>2

(* What a stage reads is a token.                                          *)
LEMMA TokenIs ==
  ASSUME EfiPrintAssumption, NEW s \in Segments, s.kind = "item", NEW stage \in 1 .. 7,
         Has(s, stage)
  PROVE  Token(s, stage) \in TokenSet
<1>1. /\ s.attr \in {"", "n", "h"} /\ s.zero \in BOOLEAN /\ s.left \in BOOLEAN
      /\ s.width \in Nat /\ s.field \in Nat /\ s.text \in Seq(Chars)
  BY SegmentIs
<1>2. (stage = 1 /\ s.attr # "") \/ stage \in {2, 3, 4, 5, 6, 7}
  <2>1. CASE stage = 1
    BY <2>1 DEF Has
  <2>2. CASE stage # 1
    <3>1. stage \in {2, 3, 4, 5, 6, 7}
      BY <2>2
    <3> QED BY <3>1
  <2> QED BY <2>1, <2>2
<1> DEFINE Values == Nat \union Seq(Chars)
<1>3. s.width \in Values /\ s.field \in Values /\ s.text \in Values /\ 0 \in Values
  BY <1>1
<1> HIDE DEF Values
<1>4. /\ <<"w", s.width>> \in Kinds \X Values /\ <<"w", s.field>> \in Kinds \X Values
      /\ <<"s", s.text>> \in Kinds \X Values
      /\ \A c \in Kinds : Tok(c) \in Kinds \X Values
  BY <1>3 DEF Kinds, Tok
<1>5. /\ <<"w", s.width>> \in TokenSet /\ <<"w", s.field>> \in TokenSet
      /\ <<"s", s.text>> \in TokenSet
      /\ \A c \in Kinds : c # "s" => Tok(c) \in TokenSet
  BY <1>1, <1>4 DEF TokenSet, Values, Tok
<1>6. {"n", "h", "0", "-", "."} \subseteq Kinds
  BY DEF Kinds
<1>7. /\ stage = 1 => s.attr \in {"n", "h"} /\ Token(s, stage) = Tok(s.attr)
      /\ stage = 2 => Token(s, stage) = Tok("0")
      /\ stage = 3 => Token(s, stage) = Tok("-")
      /\ stage = 4 => Token(s, stage) = <<"w", s.width>>
      /\ stage = 5 => Token(s, stage) = Tok(".")
      /\ stage = 6 => Token(s, stage) = <<"w", s.field>>
      /\ stage = 7 => Token(s, stage) = <<"s", s.text>>
  <2>1. stage = 1 => s.attr \in {"n", "h"} /\ Token(s, stage) = Tok(s.attr)
    <3>1. stage = 1 => s.attr \in {"n", "h"}
      <4>1. stage = 1 => s.attr # ""
        <5> SUFFICES ASSUME stage = 1 PROVE s.attr # ""
          OBVIOUS
        <5>1. ~ stage \in {2, 3, 4, 5, 6, 7}
          OBVIOUS
        <5> QED BY Zenon, <1>2, <5>1
      <4>2. s.attr \in {"", "n", "h"}
        BY <1>1
      <4> QED BY <4>1, <4>2
    <3>2. stage = 1 => Token(s, stage) = Tok(s.attr)
      BY DEF Token
    <3> QED BY <3>1, <3>2
  <2>2. stage = 2 => Token(s, stage) = Tok("0")
    BY DEF Token
  <2>3. stage = 3 => Token(s, stage) = Tok("-")
    BY DEF Token
  <2>4. stage = 4 => Token(s, stage) = <<"w", s.width>>
    BY DEF Token
  <2>5. stage = 5 => Token(s, stage) = Tok(".")
    BY DEF Token
  <2>6. stage = 6 => Token(s, stage) = <<"w", s.field>>
    BY DEF Token
  <2>7. stage = 7 => Token(s, stage) = <<"s", s.text>>
    BY DEF Token
  <2> QED BY <2>1, <2>2, <2>3, <2>4, <2>5, <2>6, <2>7
<1> QED BY <1>2, <1>5, <1>6, <1>7

(* The tokens of an item, each where it should be.                         *)
LEMMA ItemTokens ==
  ASSUME EfiPrintAssumption, NEW s \in Segments, s.kind = "item"
  PROVE  /\ Tokens(s) \in Seq(TokenSet) /\ Len(Tokens(s)) = Pos(s, 7) /\ Tokens(s)[1] = Tok("%")
         /\ \A stage \in 1 .. 7 : /\ Pos(s, stage) \in 2 .. Pos(s, 7)
                                  /\ Has(s, stage) => Tokens(s)[Pos(s, stage)] = Token(s, stage)
<1>1. /\ s.attr \in {"", "n", "h"} /\ s.zero \in BOOLEAN /\ s.left \in BOOLEAN
      /\ s.width \in Nat /\ s.field \in Nat /\ s.text \in Seq(Chars)
  BY SegmentIs
<1> DEFINE c1 == s.attr # ""
           c4 == s.width > 0
           c5 == s.field > 0
           q1 == <<Tok("%")>>
           q2 == q1 \o When(c1, Tok(s.attr))
           q3 == q2 \o When(s.zero, Tok("0"))
           q4 == q3 \o When(s.left, Tok("-"))
           q5 == q4 \o When(c4, <<"w", s.width>>)
           q6 == q5 \o When(c5, Tok("."))
           q7 == q6 \o When(c5, <<"w", s.field>>)
           q8 == q7 \o When(TRUE, <<"s", s.text>>)
<1>2. Tokens(s) = q8
  <2>1. When(TRUE, <<"s", s.text>>) = <<<<"s", s.text>>>>
    BY DEF When
  <2>2. s.kind # "char" /\ s.kind # "attr"
    OBVIOUS
  <2> QED BY <2>1, <2>2 DEF Tokens
<1>3. /\ c1 => Tok(s.attr) \in TokenSet /\ Token(s, 1) = Tok(s.attr)
      /\ s.zero => Tok("0") \in TokenSet /\ Token(s, 2) = Tok("0")
      /\ s.left => Tok("-") \in TokenSet /\ Token(s, 3) = Tok("-")
      /\ c4 => <<"w", s.width>> \in TokenSet /\ Token(s, 4) = <<"w", s.width>>
      /\ c5 => Tok(".") \in TokenSet /\ Token(s, 5) = Tok(".")
      /\ c5 => <<"w", s.field>> \in TokenSet /\ Token(s, 6) = <<"w", s.field>>
      /\ <<"s", s.text>> \in TokenSet /\ Token(s, 7) = <<"s", s.text>>
  <2>1. \A stage \in 1 .. 7 : Has(s, stage) => Token(s, stage) \in TokenSet
    BY TokenIs
  <2>2. /\ Has(s, 1) = c1 /\ Has(s, 2) = s.zero /\ Has(s, 3) = s.left /\ Has(s, 4) = c4
        /\ Has(s, 5) = c5 /\ Has(s, 6) = c5 /\ Has(s, 7)
    BY DEF Has
  <2>3. /\ Token(s, 1) = Tok(s.attr) /\ Token(s, 2) = Tok("0") /\ Token(s, 3) = Tok("-")
        /\ Token(s, 4) = <<"w", s.width>> /\ Token(s, 5) = Tok(".")
        /\ Token(s, 6) = <<"w", s.field>>
        /\ Token(s, 7) = <<"s", s.text>>
    BY DEF Token
  <2>4. {1, 2, 3, 4, 5, 6, 7} \subseteq 1 .. 7
    OBVIOUS
  <2> HIDE DEF c1, c4, c5
  <2> QED BY <2>1, <2>2, <2>3, <2>4
<1>4. q1 \in Seq(TokenSet) /\ Len(q1) = 1 /\ q1[1] = Tok("%")
  <2>1. Tok("%") \in TokenSet
    BY DEF Tok, TokenSet, Kinds
  <2> QED BY <2>1, Short
<1>5. c1 \in BOOLEAN /\ c4 \in BOOLEAN /\ c5 \in BOOLEAN
  OBVIOUS
<1>6. /\ Pos(s, 1) = 2 /\ Pos(s, 2) = 2 + One(c1) /\ Pos(s, 3) = Pos(s, 2) + One(s.zero)
      /\ Pos(s, 4) = Pos(s, 3) + One(s.left) /\ Pos(s, 5) = Pos(s, 4) + One(c4)
      /\ Pos(s, 6) = Pos(s, 5) + One(c5) /\ Pos(s, 7) = Pos(s, 6) + One(c5)
      /\ \A b \in BOOLEAN : One(b) \in Nat
  BY DEF Pos, One
<1>7. /\ Has(s, 1) = c1 /\ Has(s, 2) = s.zero /\ Has(s, 3) = s.left /\ Has(s, 4) = c4
      /\ Has(s, 5) = c5 /\ Has(s, 6) = c5
  BY DEF Has
<1> HIDE DEF c1, c4, c5, q1
<1>12. /\ q2 \in Seq(TokenSet) /\ Len(q2) \in Nat /\ Len(q2) = Len(q1) + One(c1)
       /\ \A i \in 1 .. Len(q1) : q2[i] = q1[i]
       /\ c1 => q2[Len(q1) + 1] = Tok(s.attr)
  <2>1. Longer(TokenSet, q1, c1, Tok(s.attr), q2)
    BY <1>3, <1>4, <1>5, WhenAdds
  <2> HIDE DEF q2
  <2> QED BY <2>1 DEF Longer
<1> HIDE DEF q2
<1>13. /\ q3 \in Seq(TokenSet) /\ Len(q3) \in Nat /\ Len(q3) = Len(q2) + One(s.zero)
       /\ \A i \in 1 .. Len(q2) : q3[i] = q2[i]
       /\ s.zero => q3[Len(q2) + 1] = Tok("0")
  <2>1. Longer(TokenSet, q2, s.zero, Tok("0"), q3)
    BY <1>1, <1>3, <1>12, WhenAdds
  <2> HIDE DEF q3
  <2> QED BY <2>1 DEF Longer
<1> HIDE DEF q3
<1>14. /\ q4 \in Seq(TokenSet) /\ Len(q4) \in Nat /\ Len(q4) = Len(q3) + One(s.left)
       /\ \A i \in 1 .. Len(q3) : q4[i] = q3[i]
       /\ s.left => q4[Len(q3) + 1] = Tok("-")
  <2>1. Longer(TokenSet, q3, s.left, Tok("-"), q4)
    BY <1>1, <1>3, <1>13, WhenAdds
  <2> HIDE DEF q4
  <2> QED BY <2>1 DEF Longer
<1> HIDE DEF q4
<1>15. /\ q5 \in Seq(TokenSet) /\ Len(q5) \in Nat /\ Len(q5) = Len(q4) + One(c4)
       /\ \A i \in 1 .. Len(q4) : q5[i] = q4[i]
       /\ c4 => q5[Len(q4) + 1] = <<"w", s.width>>
  <2>1. Longer(TokenSet, q4, c4, <<"w", s.width>>, q5)
    BY <1>3, <1>5, <1>14, WhenAdds
  <2> HIDE DEF q5
  <2> QED BY <2>1 DEF Longer
<1> HIDE DEF q5
<1>16. /\ q6 \in Seq(TokenSet) /\ Len(q6) \in Nat /\ Len(q6) = Len(q5) + One(c5)
       /\ \A i \in 1 .. Len(q5) : q6[i] = q5[i]
       /\ c5 => q6[Len(q5) + 1] = Tok(".")
  <2>1. Longer(TokenSet, q5, c5, Tok("."), q6)
    BY <1>3, <1>5, <1>15, WhenAdds
  <2> HIDE DEF q6
  <2> QED BY <2>1 DEF Longer
<1> HIDE DEF q6
<1>17. /\ q7 \in Seq(TokenSet) /\ Len(q7) \in Nat /\ Len(q7) = Len(q6) + One(c5)
       /\ \A i \in 1 .. Len(q6) : q7[i] = q6[i]
       /\ c5 => q7[Len(q6) + 1] = <<"w", s.field>>
  <2>1. Longer(TokenSet, q6, c5, <<"w", s.field>>, q7)
    BY <1>3, <1>5, <1>16, WhenAdds
  <2> HIDE DEF q7
  <2> QED BY <2>1 DEF Longer
<1> HIDE DEF q7
<1>18. /\ q8 \in Seq(TokenSet) /\ Len(q8) = Len(q7) + 1
       /\ \A i \in 1 .. Len(q7) : q8[i] = q7[i]
       /\ q8[Len(q7) + 1] = <<"s", s.text>>
  <2>1. Longer(TokenSet, q7, TRUE, <<"s", s.text>>, q8)
    BY <1>3, <1>17, WhenAdds
  <2> HIDE DEF q8
  <2> QED BY <2>1 DEF Longer, One
<1> HIDE DEF q8
<1>19. /\ One(c1) \in Nat /\ One(s.zero) \in Nat /\ One(s.left) \in Nat /\ One(c4) \in Nat
       /\ One(c5) \in Nat
  BY <1>1, <1>5, <1>6
<1>20. /\ Len(q1) + 1 = Pos(s, 1) /\ Len(q2) + 1 = Pos(s, 2) /\ Len(q3) + 1 = Pos(s, 3)
       /\ Len(q4) + 1 = Pos(s, 4) /\ Len(q5) + 1 = Pos(s, 5) /\ Len(q6) + 1 = Pos(s, 6)
       /\ Len(q7) + 1 = Pos(s, 7) /\ Len(q8) = Pos(s, 7)
  <2>1. Len(q1) + 1 = Pos(s, 1)
    BY <1>4, <1>6
  <2>2. Len(q2) + 1 = Pos(s, 2)
    <3>1. Len(q2) = Len(q1) + One(c1) /\ Len(q1) \in Nat
      BY <1>12
    <3>2. Pos(s, 2) = Pos(s, 1) + One(c1) /\ One(c1) \in Nat
      BY <1>6, <1>19
    <3> QED BY <2>1, <3>1, <3>2
  <2>3. Len(q3) + 1 = Pos(s, 3)
    <3>1. Len(q3) = Len(q2) + One(s.zero) /\ Len(q2) \in Nat
      BY <1>13
    <3>2. Pos(s, 3) = Pos(s, 2) + One(s.zero) /\ One(s.zero) \in Nat
      BY <1>6, <1>19
    <3> QED BY <2>2, <3>1, <3>2
  <2>4. Len(q4) + 1 = Pos(s, 4)
    <3>1. Len(q4) = Len(q3) + One(s.left) /\ Len(q3) \in Nat
      BY <1>14
    <3>2. Pos(s, 4) = Pos(s, 3) + One(s.left) /\ One(s.left) \in Nat
      BY <1>6, <1>19
    <3> QED BY <2>3, <3>1, <3>2
  <2>5. Len(q5) + 1 = Pos(s, 5)
    <3>1. Len(q5) = Len(q4) + One(c4) /\ Len(q4) \in Nat
      BY <1>15
    <3>2. Pos(s, 5) = Pos(s, 4) + One(c4) /\ One(c4) \in Nat
      BY <1>6, <1>19
    <3> QED BY <2>4, <3>1, <3>2
  <2>6. Len(q6) + 1 = Pos(s, 6)
    <3>1. Len(q6) = Len(q5) + One(c5) /\ Len(q5) \in Nat
      BY <1>16
    <3>2. Pos(s, 6) = Pos(s, 5) + One(c5) /\ One(c5) \in Nat
      BY <1>6, <1>19
    <3> QED BY <2>5, <3>1, <3>2
  <2>7. Len(q7) + 1 = Pos(s, 7)
    <3>1. Len(q7) = Len(q6) + One(c5) /\ Len(q6) \in Nat
      BY <1>17
    <3>2. Pos(s, 7) = Pos(s, 6) + One(c5) /\ One(c5) \in Nat
      BY <1>6, <1>19
    <3> QED BY <2>6, <3>1, <3>2
  <2>8. Len(q8) = Pos(s, 7)
    BY <1>18, <2>7
  <2> QED BY <2>1, <2>2, <2>3, <2>4, <2>5, <2>6, <2>7, <2>8
<1>21. /\ One(c1) \in Nat /\ One(s.zero) \in Nat /\ One(s.left) \in Nat /\ One(c4) \in Nat
       /\ One(c5) \in Nat
  BY <1>19
<1>22. /\ Len(q1) = 1 /\ Len(q1) <= Len(q2) /\ Len(q2) <= Len(q3) /\ Len(q3) <= Len(q4)
       /\ Len(q4) <= Len(q5)
       /\ Len(q5) <= Len(q6) /\ Len(q6) <= Len(q7)
  <2>1. Len(q1) = 1 /\ Len(q1) <= Len(q2)
    BY <1>4, <1>12, <1>19
  <2>2. Len(q2) <= Len(q3)
    BY <1>13, <1>19
  <2>3. Len(q3) <= Len(q4)
    BY <1>14, <1>19
  <2>4. Len(q4) <= Len(q5)
    BY <1>15, <1>19
  <2>5. Len(q5) <= Len(q6)
    BY <1>16, <1>19
  <2>6. Len(q6) <= Len(q7)
    BY <1>17, <1>19
  <2> QED BY <2>1, <2>2, <2>3, <2>4, <2>5, <2>6
<1> DEFINE Kept(q) == \A i \in 1 .. Len(q) : q8[i] = q[i]
<1>27. Kept(q7)
  BY <1>18
<1>26. Kept(q6)
  BY <1>17, <1>16, <1>22, <1>27
<1>25. Kept(q5)
  BY <1>16, <1>15, <1>22, <1>26
<1>24. Kept(q4)
  BY <1>15, <1>14, <1>22, <1>25
<1>33. Kept(q3)
  BY <1>14, <1>13, <1>22, <1>24
<1>32. Kept(q2)
  BY <1>13, <1>12, <1>22, <1>33
<1>31. Kept(q1)
  BY <1>12, <1>4, <1>22, <1>32
<1>41. c1 => q8[Pos(s, 1)] = Token(s, 1)
  <2> HAVE c1
  <2>1. Len(q1) + 1 \in 1 .. Len(q2)
    BY <1>4, <1>12 DEF One
  <2> QED BY <1>3, <1>12, <1>20, <1>32, <2>1
<1>42. s.zero => q8[Pos(s, 2)] = Token(s, 2)
  <2> HAVE s.zero
  <2>1. Len(q2) + 1 \in 1 .. Len(q3)
    BY <1>12, <1>13 DEF One
  <2> QED BY <1>3, <1>13, <1>20, <1>33, <2>1
<1>43. s.left => q8[Pos(s, 3)] = Token(s, 3)
  <2> HAVE s.left
  <2>1. Len(q3) + 1 \in 1 .. Len(q4)
    BY <1>13, <1>14 DEF One
  <2> QED BY <1>3, <1>14, <1>20, <1>24, <2>1
<1>44. c4 => q8[Pos(s, 4)] = Token(s, 4)
  <2> HAVE c4
  <2>1. Len(q4) + 1 \in 1 .. Len(q5)
    BY <1>14, <1>15 DEF One
  <2> QED BY <1>3, <1>15, <1>20, <1>25, <2>1
<1>45. c5 => q8[Pos(s, 5)] = Token(s, 5)
  <2> HAVE c5
  <2>1. Len(q5) + 1 \in 1 .. Len(q6)
    BY <1>15, <1>16 DEF One
  <2> QED BY <1>3, <1>16, <1>20, <1>26, <2>1
<1>46. c5 => q8[Pos(s, 6)] = Token(s, 6)
  <2> HAVE c5
  <2>1. Len(q6) + 1 \in 1 .. Len(q7)
    BY <1>16, <1>17 DEF One
  <2> QED BY <1>3, <1>17, <1>20, <1>27, <2>1
<1>47. q8[Pos(s, 7)] = Token(s, 7)
  BY <1>3, <1>18, <1>20
<1>48. ASSUME NEW stage \in 1 .. 7
       PROVE  /\ Pos(s, stage) \in 2 .. Pos(s, 7)
              /\ Has(s, stage) => q8[Pos(s, stage)] = Token(s, stage)
  <2>1. stage \in {1, 2, 3, 4, 5, 6, 7}
    OBVIOUS
  <2>2. Pos(s, stage) \in 2 .. Pos(s, 7)
    BY <1>6, <1>21, <2>1
  <2>3. Has(s, stage) => q8[Pos(s, stage)] = Token(s, stage)
    BY <1>7, <1>41, <1>42, <1>43, <1>44, <1>45, <1>46, <1>47, <2>1
  <2> QED BY <2>2, <2>3
<1>49. q8[1] = Tok("%")
  BY <1>4, <1>31
<1> QED BY <1>2, <1>18, <1>20, <1>48, <1>49

(* The tokens of any segment.                                              *)
LEMMA TokensAre ==
  ASSUME EfiPrintAssumption, NEW s \in Segments
  PROVE  /\ Tokens(s) \in Seq(TokenSet) /\ Len(Tokens(s)) \in Nat /\ Len(Tokens(s)) > 0
         /\ s.kind = "char" => Len(Tokens(s)) = 1 /\ Tokens(s)[1] = Tok(s.c)
         /\ s.kind = "attr" => /\ Len(Tokens(s)) = 2 /\ Tokens(s)[1] = Tok("%")
                               /\ Tokens(s)[2] = Tok(s.c)
<1>1. \A c \in Kinds : c # "s" => Tok(c) \in TokenSet
  BY DEF Tok, TokenSet
<1>2. {"x", "nl", "N", "H", "%"} \subseteq Kinds
  BY DEF Kinds
<1>3. CASE s.kind = "char"
  <2>1. Tokens(s) = <<Tok(s.c)>>
    BY <1>3 DEF Tokens
  <2>2. Tok(s.c) \in TokenSet
    BY <1>1, <1>2, <1>3, SegmentIs
  <2>3. <<Tok(s.c)>> \in Seq(TokenSet) /\ Len(<<Tok(s.c)>>) = 1 /\ <<Tok(s.c)>>[1] = Tok(s.c)
    BY <2>2, Short
  <2> QED BY <1>3, <2>1, <2>3
<1>4. CASE s.kind = "attr"
  <2>1. Tokens(s) = <<Tok("%"), Tok(s.c)>>
    BY <1>4 DEF Tokens
  <2>2. Tok(s.c) \in TokenSet /\ Tok("%") \in TokenSet
    BY <1>1, <1>2, <1>4, SegmentIs
  <2>3. <<Tok("%"), Tok(s.c)>> \in Seq(TokenSet)
    BY <2>2, Short
  <2> QED BY <1>4, <2>1, <2>3
<1>5. CASE s.kind = "item"
  <2>1. Pos(s, 7) \in Nat /\ Pos(s, 7) > 0
    BY <1>5, ItemTokens
  <2> QED BY <1>5, <2>1, ItemTokens
<1> QED BY <1>3, <1>4, <1>5, SegmentIs

-----------------------------------------------------------------------------
(* Formats                                                                 *)

(* The attributes of a format.                                             *)
LEMMA AttrIs ==
  ASSUME EfiPrintAssumption, segs \in Seq(Segments)
  PROVE  /\ AttrBefore(1) = START
         /\ \A c : AttrOf(c) \in Nat /\ (OnConsole => AttrOf(c) # 0)
         /\ \A i \in Int : AttrBefore(i) \in Nat /\ (OnConsole => AttrBefore(i) # 0)
         /\ \A i \in 1 .. Len(segs) :
              /\ AttrIn(i) \in Nat
              /\ segs[i].kind # "attr" => AttrBefore(i + 1) = AttrBefore(i)
              /\ segs[i].kind = "attr" => AttrBefore(i + 1) = AttrOf(segs[i].c)
<1> DEFINE sets(i) == {j \in 1 .. i - 1 : segs[j].kind = "attr"}
           last(i) == CHOOSE j \in sets(i) : \A k \in sets(i) : k <= j
<1>1. START \in Nat \ {0} /\ NORM \in Nat \ {0} /\ HIGHLIGHT \in Nat \ {0}
  BY DEF EfiPrintAssumption
<1>2. \A c : AttrOf(c) \in Nat /\ (OnConsole => AttrOf(c) # 0)
  BY <1>1 DEF AttrOf, OnConsole
<1>3. \A i : AttrBefore(i) = IF sets(i) = {} THEN START ELSE AttrOf(segs[last(i)].c)
  BY DEF AttrBefore
<1>4. sets(1) = {}
  OBVIOUS
<1>5. AttrBefore(1) = START
  BY <1>3, <1>4
<1>6. \A i \in 1 .. Len(segs) : segs[i].kind # "attr" => sets(i + 1) = sets(i)
  OBVIOUS
<1>7. ASSUME NEW i \in 1 .. Len(segs), segs[i].kind = "attr"
      PROVE last(i + 1) = i /\ sets(i + 1) # {}
  <2>1. i \in sets(i + 1) /\ \A k \in sets(i + 1) : k <= i /\ k \in Int
    BY <1>7
  <2> HIDE DEF sets
  <2>2. \A j \in sets(i + 1) : (\A k \in sets(i + 1) : k <= j) => j = i
    BY <2>1
  <2> QED BY <2>1, <2>2
<1>8. \A i : sets(i) = sets(i) /\ last(i) = CHOOSE j \in sets(i) : \A k \in sets(i) : k <= j
  OBVIOUS
<1> HIDE DEF sets
<1>9. ASSUME NEW i \in 1 .. Len(segs), segs[i].kind # "attr" PROVE AttrBefore(i + 1) = AttrBefore(i)
  <2>1. sets(i + 1) = sets(i)
    BY <1>6, <1>9
  <2>2. last(i + 1) = last(i)
    BY <2>1
  <2> HIDE DEF last
  <2> QED BY <1>3, <2>1, <2>2
<1> HIDE DEF last
<1>10. ASSUME NEW i \in 1 .. Len(segs), segs[i].kind = "attr"
       PROVE AttrBefore(i + 1) = AttrOf(segs[i].c)
  BY <1>3, <1>7, <1>10
<1>11. \A i \in Int : AttrBefore(i) \in Nat /\ (OnConsole => AttrBefore(i) # 0)
  BY <1>1, <1>2, <1>3
<1>12. \A i \in 1 .. Len(segs) : AttrIn(i) \in Nat
  <2>1. \A i \in 1 .. Len(segs) : AttrIn(i) = AttrOf(segs[i].attr) \/ AttrIn(i) = AttrBefore(i)
    BY Zenon DEF AttrIn
  <2>2. \A i \in 1 .. Len(segs) : i \in Int
    OBVIOUS
  <2> QED BY <1>2, <1>11, <2>1, <2>2
<1> QED BY <1>2, <1>5, <1>9, <1>10, <1>11, <1>12

(* What is known of a format's tokens and characters, and of their places. *)
Mapped(po, mo) ==
  LET n == Len(segs) IN
  /\ n \in Nat /\ Len(AllTokens(segs)) = po[n] /\ Len(Meant) = mo[n]
  /\ po[0] = 0 /\ mo[0] = 0
  /\ \A i \in 0 .. n : po[i] \in Nat /\ mo[i] \in Nat /\ po[i] <= po[n] /\ mo[i] <= mo[n]
  /\ \A i \in 1 .. n :
       /\ segs[i] \in Segments /\ i - 1 \in 0 .. n /\ i \in 0 .. n
       /\ po[i] = po[i - 1] + Len(Tokens(segs[i])) /\ mo[i] = mo[i - 1] + Len(Plain(segs[i]))
       /\ \A k \in 1 .. Len(Tokens(segs[i])) : AllTokens(segs)[po[i - 1] + k] = Tokens(segs[i])[k]
       /\ \A k \in 1 .. Len(Plain(segs[i])) :
            Meant[mo[i - 1] + k] = <<Plain(segs[i])[k], AttrIn(i)>>

(* A segment as it should come out, with its attribute.                    *)
LEMMA RunIs ==
  ASSUME EfiPrintAssumption, segs \in Seq(Segments), NEW i \in 1 .. Len(segs)
  PROVE  /\ Run(i) \in Seq(Chars \X Nat) /\ Len(Run(i)) = Len(Plain(segs[i]))
         /\ \A k \in 1 .. Len(Plain(segs[i])) : Run(i)[k] = <<Plain(segs[i])[k], AttrIn(i)>>
<1> DEFINE s == segs[i]
           p == Plain(s)
           a == AttrIn(i)
<1>1. s \in Segments
  OBVIOUS
<1>2. a \in Nat
  BY AttrIs
<1> HIDE DEF s, a
<1>3. p \in Seq(Chars) /\ DOMAIN p = 1 .. Len(p) /\ Len(p) \in Nat
  BY <1>1, PlainIs
<1>4. Run(i) = [k \in DOMAIN p |-> <<p[k], a>>]
  BY DEF Run, s, a
<1> HIDE DEF p
<1>5. [k \in 1 .. Len(p) |-> <<p[k], a>>] \in [1 .. Len(p) -> Chars \X Nat]
  BY <1>2, <1>3
<1>6. Run(i) \in [1 .. Len(p) -> Chars \X Nat] /\ \A k \in 1 .. Len(p) : Run(i)[k] = <<p[k], a>>
  BY <1>3, <1>4, <1>5
<1> HIDE DEF Chars
<1>7. Run(i) \in Seq(Chars \X Nat) /\ Len(Run(i)) = Len(p)
  BY <1>3, <1>6
<1> QED BY <1>6, <1>7 DEF p, s, a

(* A format has its tokens, its meaning, and their places.                 *)
LEMMA FormatIs ==
  ASSUME EfiPrintAssumption, segs \in Seq(Segments)
  PROVE  /\ AllTokens(segs) \in Seq(TokenSet) /\ Meant \in Seq(Chars \X Nat)
         /\ \E po, mo : Layout(po, mo)
<1>1. DOMAIN segs = 1 .. Len(segs) /\ Len(segs) \in Nat /\ \A i \in 1 .. Len(segs) :
        segs[i] \in Segments
  OBVIOUS
<1>2. AllTokens(segs) = FlattenSeq(Lists) /\ Meant = FlattenSeq(Runs)
  BY <1>1 DEF AllTokens, Lists, Meant, Runs, Run
<1>3. Lists \in Seq(Seq(TokenSet))
  <2>1. \A i \in 1 .. Len(segs) : Tokens(segs[i]) \in Seq(TokenSet)
    BY <1>1, TokensAre
  <2>2. Lists \in [1 .. Len(segs) -> Seq(TokenSet)]
    BY <2>1 DEF Lists
  <2> QED BY <1>1, <2>2
<1>4. Runs \in Seq(Seq(Chars \X Nat))
  <2>1. \A i \in 1 .. Len(segs) : Run(i) \in Seq(Chars \X Nat)
    BY RunIs
  <2>2. Runs \in [1 .. Len(segs) -> Seq(Chars \X Nat)]
    BY <2>1 DEF Runs
  <2> QED BY <1>1, <2>2
<1>5. FlattenSeq(Lists) \in Seq(TokenSet) /\ \E po : Places(po, Lists, FlattenSeq(Lists))
  BY <1>3, Flattened
<1>6. FlattenSeq(Runs) \in Seq(Chars \X Nat) /\ \E mo : Places(mo, Runs, FlattenSeq(Runs))
  BY <1>4, Flattened
<1> QED BY <1>2, <1>5, <1>6 DEF Layout

(* The places say where the tokens and characters of each segment are.     *)
LEMMA MappedBy ==
  ASSUME EfiPrintAssumption, segs \in Seq(Segments), NEW po, NEW mo, Layout(po, mo)
  PROVE  Mapped(po, mo)
<1> DEFINE n == Len(segs)
<1>1. n \in Nat /\ \A i \in 1 .. n : segs[i] \in Segments /\ i - 1 \in 0 .. n /\ i \in 0 .. n
  OBVIOUS
<1>2. Len(Lists) = n /\ Len(Runs) = n
  BY <1>1 DEF Lists, Runs
<1>3. \A i \in 1 .. n : Lists[i] = Tokens(segs[i]) /\ Runs[i] = Run(i)
  BY DEF Lists, Runs
<1> DEFINE tokens == AllTokens(segs)
           meant == Meant
<1> HIDE DEF n, tokens, meant
<1>4. /\ po \in [0 .. n -> Nat] /\ po[0] = 0 /\ Len(tokens) = po[n]
      /\ \A i \in 1 .. n : /\ po[i] = po[i - 1] + Len(Lists[i]) /\ po[i] <= po[n]
                           /\ \A k \in 1 .. Len(Lists[i]) : tokens[po[i - 1] + k] = Lists[i][k]
  BY <1>2 DEF Layout, Places, tokens
<1>5. /\ mo \in [0 .. n -> Nat] /\ mo[0] = 0 /\ Len(meant) = mo[n]
      /\ \A i \in 1 .. n : /\ mo[i] = mo[i - 1] + Len(Runs[i]) /\ mo[i] <= mo[n]
                           /\ \A k \in 1 .. Len(Runs[i]) : meant[mo[i - 1] + k] = Runs[i][k]
  BY <1>2 DEF Layout, Places, meant
<1>6. \A i \in 0 .. n : po[i] \in Nat /\ mo[i] \in Nat /\ po[i] <= po[n] /\ mo[i] <= mo[n]
  <2> TAKE i \in 0 .. n
  <2>1. po[i] \in Nat /\ mo[i] \in Nat /\ po[n] \in Nat /\ mo[n] \in Nat
    BY <1>1, <1>4, <1>5
  <2>2. CASE i = 0
    BY <1>4, <1>5, <2>1, <2>2
  <2>3. CASE i # 0
    <3>1. i \in 1 .. n
      BY <1>1, <2>3
    <3> QED BY <1>4, <1>5, <2>1, <3>1
  <2> QED BY <2>2, <2>3
<1>7. \A i \in 1 .. n : /\ Len(Run(i)) = Len(Plain(segs[i]))
                        /\ \A k \in 1 .. Len(Plain(segs[i])) :
                             Run(i)[k] = <<Plain(segs[i])[k], AttrIn(i)>>
  BY RunIs DEF n
<1>8. ASSUME NEW i \in 1 .. n
      PROVE  /\ po[i] = po[i - 1] + Len(Tokens(segs[i])) /\ mo[i] = mo[i - 1] + Len(Plain(segs[i]))
             /\ \A k \in 1 .. Len(Tokens(segs[i])) : tokens[po[i - 1] + k] = Tokens(segs[i])[k]
             /\ \A k \in 1 .. Len(Plain(segs[i])) :
                  meant[mo[i - 1] + k] = <<Plain(segs[i])[k], AttrIn(i)>>
  <2>1. Lists[i] = Tokens(segs[i]) /\ Runs[i] = Run(i)
    BY <1>3
  <2>2. po[i] = po[i - 1] + Len(Tokens(segs[i]))
        /\ \A k \in 1 .. Len(Tokens(segs[i])) : tokens[po[i - 1] + k] = Tokens(segs[i])[k]
    <3>1. po[i] = po[i - 1] + Len(Lists[i])
          /\ \A k \in 1 .. Len(Lists[i]) : tokens[po[i - 1] + k] = Lists[i][k]
      BY <1>4
    <3> QED BY <2>1, <3>1
  <2>3. Len(Run(i)) = Len(Plain(segs[i]))
        /\ \A k \in 1 .. Len(Plain(segs[i])) : Run(i)[k] = <<Plain(segs[i])[k], AttrIn(i)>>
    BY <1>7
  <2>4. mo[i] = mo[i - 1] + Len(Run(i))
        /\ \A k \in 1 .. Len(Run(i)) : meant[mo[i - 1] + k] = Run(i)[k]
    <3>1. mo[i] = mo[i - 1] + Len(Runs[i])
          /\ \A k \in 1 .. Len(Runs[i]) : meant[mo[i - 1] + k] = Runs[i][k]
      BY <1>5
    <3> QED BY <2>1, <3>1
  <2>5. \A k \in 1 .. Len(Plain(segs[i])) :
          meant[mo[i - 1] + k] = <<Plain(segs[i])[k], AttrIn(i)>>
    BY <2>3, <2>4
  <2> QED BY <2>2, <2>3, <2>4, <2>5
<1>9. Len(tokens) = po[n] /\ Len(meant) = mo[n] /\ po[0] = 0 /\ mo[0] = 0
  BY <1>4, <1>5
<1> QED BY <1>1, <1>6, <1>8, <1>9 DEF Mapped, n, tokens, meant

(* A format stays what it is while it is printed.                          *)
LEMMA SameFormat ==
  ASSUME UNCHANGED <<to, segs, fmt>>
  PROVE  /\ UNCHANGED <<Meant, Glyphs>> /\ AllTokens(segs)' = AllTokens(segs)
         /\ OnConsole' = OnConsole /\ Good' = Good
         /\ \A c : AttrOf(c)' = AttrOf(c)
         /\ \A i : AttrBefore(i)' = AttrBefore(i)
         /\ \A i : AttrIn(i)' = AttrIn(i) /\ AfterAttr(i)' = AfterAttr(i)
         /\ \A po, mo : Layout(po, mo)' = Layout(po, mo)
<1>1. UNCHANGED <<Meant, Glyphs>>
  BY DEF Meant, Glyphs, AttrIn, AttrBefore, AttrOf
<1>2. \A c : AttrOf(c)' = AttrOf(c)
  BY DEF AttrOf
<1>3. \A i : AttrBefore(i)' = AttrBefore(i)
  BY DEF AttrBefore, AttrOf
<1>4. \A i : AttrIn(i)' = AttrIn(i) /\ AfterAttr(i)' = AfterAttr(i)
  BY DEF AttrIn, AfterAttr, AttrBefore, AttrOf
<1>5. AllTokens(segs)' = AllTokens(segs)
  OBVIOUS
<1>6. OnConsole' = OnConsole /\ Good' = Good
  BY DEF OnConsole, Good, Whole, Colours
<1>7. UNCHANGED <<Lists, Runs>>
  BY DEF Lists, Runs, Run, AttrIn, AttrBefore, AttrOf
<1>8. \A po, mo : Layout(po, mo)' = Layout(po, mo)
  BY <1>1, <1>5, <1>7 DEF Layout
<1> QED BY <1>1, <1>2, <1>3, <1>4, <1>5, <1>6, <1>8

-----------------------------------------------------------------------------
(* Parts of what is meant                                                  *)

(* Equal item by item is equal.                                            *)
LEMMA SameItems ==
  ASSUME NEW S, NEW p \in Seq(S), NEW q \in Seq(S), Len(p) = Len(q),
         \A i \in 1 .. Len(p) : p[i] = q[i]
  PROVE  p = q
OBVIOUS

(* A part of a sequence.                                                   *)
LEMMA PartOf ==
  ASSUME NEW S, NEW m \in Seq(S), NEW a \in Nat, NEW b \in Nat, a <= b, b <= Len(m)
  PROVE  /\ SubSeq(m, a + 1, b) \in Seq(S) /\ Len(SubSeq(m, a + 1, b)) = b - a
         /\ \A i \in 1 .. b - a : SubSeq(m, a + 1, b)[i] = m[a + i]
<1>1. Len(m) \in Nat /\ \A i \in 1 .. Len(m) : m[i] \in S
  OBVIOUS
<1>2. \A i \in a + 1 .. b : m[i] \in S
  BY <1>1
<1> DEFINE from == a + 1
<1>3. from \in Int /\ b \in Int /\ \A i \in from .. b : m[i] \in S
  BY <1>2
<1> HIDE DEF from
<1>4. /\ SubSeq(m, from, b) \in Seq(S)
      /\ Len(SubSeq(m, from, b)) = IF from <= b THEN b - from + 1 ELSE 0
      /\ \A i \in 1 .. b - from + 1 : SubSeq(m, from, b)[i] = m[from + i - 1]
  BY <1>3, SubSeqProperties
<1> DEFINE q == SubSeq(m, from, b)
<1>5. /\ q \in Seq(S) /\ Len(q) = IF from <= b THEN b - from + 1 ELSE 0
      /\ \A i \in 1 .. b - from + 1 : q[i] = m[from + i - 1]
  BY <1>4
<1> HIDE DEF q
<1>6. from <= b => b - from + 1 = b - a
  BY DEF from
<1>7. ~ from <= b => b - a = 0
  BY DEF from
<1>8. b - from + 1 = b - a /\ \A i \in Int : from + i - 1 = a + i
  BY DEF from
<1>9. \A i \in 1 .. b - a : q[i] = m[a + i]
  BY <1>5, <1>8
<1>10. q \in Seq(S) /\ Len(q) = b - a
  BY <1>5, <1>6, <1>7
<1> QED BY <1>9, <1>10 DEF q, from

(* The size of the buffer.                                                 *)
LEMMA Numbers ==
  ASSUME EfiPrintAssumption
  PROVE  PRINT_STRING_LEN \in Nat /\ PRINT_STRING_LEN > 1
  BY DEF EfiPrintAssumption

(* What follows a part makes it a longer part.                             *)
Follows(m, b, t) ==
  b + Len(t) <= Len(m) /\ \A j \in 1 .. Len(t) : t[j] = m[b + j]

Grows(m, from, b, t) == SubSeq(m, from, b) \o t = SubSeq(m, from, b + Len(t))

(* Such a part, begun anywhere or at the start.                            *)
LEMMA PartGrows ==
  ASSUME NEW S, NEW m \in Seq(S), NEW from \in Nat, NEW b \in Nat, NEW t \in Seq(S),
         1 <= from, from <= b + 1, Follows(m, b, t)
  PROVE  Grows(m, from, b, t)
<1>0. b + Len(t) <= Len(m) /\ \A j \in 1 .. Len(t) : t[j] = m[b + j]
  BY DEF Follows
<1> DEFINE a == from - 1
           p == SubSeq(m, from, b)
           c == b + Len(t)
           r == SubSeq(m, from, c)
<1>1. Len(t) \in Nat /\ c \in Nat /\ a <= c /\ c <= Len(m) /\ b <= Len(m) /\ Len(m) \in Nat
  BY <1>0
<1>. a \in Nat /\ a + 1 = from /\ a <= b
  OBVIOUS
<1> HIDE DEF a
<1>2. p \in Seq(S) /\ Len(p) = b - a /\ \A i \in 1 .. b - a : p[i] = m[a + i]
  BY <1>1, PartOf
<1>3. c = b + Len(t)
  OBVIOUS
<1> HIDE DEF c
<1>4. r \in Seq(S) /\ Len(r) = c - a /\ \A i \in 1 .. c - a : r[i] = m[a + i]
  <2>1. c \in Nat /\ a \in Nat /\ a <= c /\ c <= Len(m) /\ a + 1 = from
    BY <1>1
  <2> QED BY <2>1, PartOf
<1> HIDE DEF p, r
<1>5. p \in Seq(S) /\ t \in Seq(S)
  BY <1>2
<1>6. /\ p \o t \in Seq(S) /\ Len(p \o t) = Len(p) + Len(t)
      /\ \A i \in 1 .. Len(p) : (p \o t)[i] = p[i]
      /\ \A i \in 1 .. Len(t) : (p \o t)[Len(p) + i] = t[i]
  BY <1>5, Joined
<1> DEFINE q == p \o t
<1>7. /\ q \in Seq(S) /\ Len(q) = Len(p) + Len(t)
      /\ \A i \in 1 .. Len(p) : q[i] = p[i]
      /\ \A i \in 1 .. Len(t) : q[Len(p) + i] = t[i]
  BY <1>6
<1> HIDE DEF q
<1>8. Len(q) = Len(r) /\ Len(q) = c - a
  BY <1>1, <1>2, <1>3, <1>4, <1>7
<1>9. ASSUME NEW i \in 1 .. Len(q) PROVE q[i] = r[i]
  <2>1. r[i] = m[a + i]
    BY <1>4, <1>8
  <2>2. CASE i <= b - a
    <3>1. i \in 1 .. b - a /\ i \in 1 .. Len(p)
      BY <1>2, <2>2
    <3>2. q[i] = p[i] /\ p[i] = m[a + i]
      BY <1>2, <1>7, <3>1
    <3> QED BY <2>1, <3>2
  <2>3. CASE ~ i <= b - a
    <3> DEFINE j == i - (b - a)
    <3>1. j \in 1 .. Len(t) /\ Len(p) + j = i /\ b + j = a + i
      BY <1>1, <1>2, <1>3, <1>8, <2>3
    <3> HIDE DEF j
    <3> QED BY <1>0, <1>7, <2>1, <3>1
  <2> QED BY <2>2, <2>3
<1>10. q = r
  <2>1. q \in Seq(S) /\ r \in Seq(S) /\ Len(q) = Len(r) /\ \A i \in 1 .. Len(q) : q[i] = r[i]
    BY <1>4, <1>7, <1>8, <1>9
  <2> QED BY <2>1, SameItems
<1> QED BY <1>10 DEF q, p, r, c, Grows

(* The same from the front.                                                *)
LEMMA FrontGrows ==
  ASSUME NEW S, NEW m \in Seq(S), NEW b \in Nat, NEW t \in Seq(S), Follows(m, b, t)
  PROVE  Grows(m, 1, b, t)
<1>1. 1 \in Nat /\ 1 <= 1 /\ 1 <= b + 1
  OBVIOUS
<1> QED BY <1>1, PartGrows

(* A pair is its two fields.                                               *)
LEMMA Pair ==
  ASSUME NEW A, NEW B, NEW m \in A \X B
  PROVE  m = <<m[1], m[2]>>
OBVIOUS

(* As much of a text as there is room for.                                 *)
LEMMA CutIs ==
  ASSUME NEW S, NEW t \in Seq(S), NEW n \in Int, n <= Len(t)
  PROVE  /\ SubSeq(t, 1, n) \in Seq(S) /\ Len(SubSeq(t, 1, n)) = (IF n > 0 THEN n ELSE 0)
         /\ \A j \in 1 .. n : SubSeq(t, 1, n)[j] = t[j]
<1>1. CASE n > 0
  <2>1. 0 \in Nat /\ n \in Nat /\ 0 <= n /\ n <= Len(t) /\ 0 + 1 = 1 /\ n - 0 = n
    BY <1>1
  <2>2. /\ SubSeq(t, 0 + 1, n) \in Seq(S) /\ Len(SubSeq(t, 0 + 1, n)) = n - 0
        /\ \A i \in 1 .. n - 0 : SubSeq(t, 0 + 1, n)[i] = t[0 + i]
    BY <2>1, PartOf
  <2>3. \A i \in 1 .. n : 0 + i = i
    OBVIOUS
  <2> QED BY <1>1, <2>1, <2>2, <2>3
<1>2. CASE ~ n > 0
  <2>1. SubSeq(t, 1, n) = << >>
    BY <1>2, SubSeqEmpty
  <2>2. << >> \in Seq(S) /\ Len(<< >>) = 0 /\ 1 .. n = {}
    BY <1>2
  <2> QED BY <1>2, <2>1, <2>2
<1> QED BY <1>1, <1>2

(* The longest part is the whole.                                          *)
LEMMA WholeOf ==
  ASSUME NEW S, NEW t \in Seq(S)
  PROVE  SubSeq(t, 1, Len(t)) = t
<1>1. Len(t) \in Int /\ Len(t) <= Len(t) /\ Len(t) \in Nat
  OBVIOUS
<1> DEFINE q == SubSeq(t, 1, Len(t))
<1>2. q \in Seq(S) /\ Len(q) = Len(t) /\ \A j \in 1 .. Len(q) : q[j] = t[j]
  BY <1>1, CutIs
<1> HIDE DEF q
<1>3. q = t
  BY <1>2, SameItems
<1> QED BY <1>3 DEF q

(* What is appended to a string that has room for it.                      *)
LEMMA AppendedIs ==
  ASSUME NEW s \in Seq(Chars), NEW text \in Seq(Chars), NEW room \in Nat
  PROVE  /\ Appended(s, text, room) \in Seq(Chars) /\ Len(Appended(s, text, room)) \in Nat
         /\ Len(s) + Len(text) <= room => Appended(s, text, room) = s \o text
<1> HIDE DEF Chars
<1> DEFINE n == IF Len(s) + Len(text) > room THEN room - Len(s) ELSE Len(text)
           t == SubSeq(text, 1, n)
<1>1. Len(s) \in Nat /\ Len(text) \in Nat
  OBVIOUS
<1>2. n \in Int /\ n <= Len(text) /\ (Len(s) + Len(text) <= room => n = Len(text))
  BY <1>1
<1>3. Appended(s, text, room) = s \o t
  BY DEF Appended
<1> HIDE DEF n
<1>4. t \in Seq(Chars)
  BY <1>2, CutIs
<1>5. n = Len(text) => t = text
  BY WholeOf
<1> HIDE DEF t
<1>6. s \o t \in Seq(Chars) /\ Len(s \o t) \in Nat
  BY <1>4
<1> QED BY <1>2, <1>3, <1>5, <1>6

(* A string stays one, whatever is appended.                               *)
LEMMA OutputTyped ==
  ASSUME EfiPrintAssumption, PrintType, NEW text \in Seq(Chars), Output(text)
  PROVE  /\ str' \in Seq(Chars) /\ len' \in Nat /\ maxlen' \in Nat /\ lost' \in Nat
         /\ had' \in Seq(Chars)
<1>1. /\ str \in Seq(Chars) /\ len \in Nat /\ maxlen \in Nat /\ lost \in Nat /\ had \in Seq(Chars)
      /\ Len(text) \in Nat /\ PRINT_STRING_LEN \in Nat
  <2> HIDE DEF Chars
  <2> QED BY Numbers DEF PrintType
<1> HIDE DEF Chars
<1>2. Grown(text) \in Nat
  BY <1>1 DEF Grown
<1>3. << >> \in Seq(Chars)
  OBVIOUS
<1>4. CASE to = "console" /\ UNCHANGED <<str, len, maxlen, lost, had>>
  BY <1>1, <1>4
<1>5. CASE str' = Appended(str, text, maxlen) /\ len' = Len(str') /\ UNCHANGED <<maxlen, lost, had>>
  BY <1>1, <1>5, AppendedIs
<1>6. CASE /\ maxlen' = Grown(text) + PRINT_STRING_LEN /\ UNCHANGED <<had, lost>>
           /\ str' = Appended(Moved(text), text, maxlen') /\ len' = Len(str')
  <2>1. maxlen' \in Nat /\ Moved(text) = str
    BY <1>1, <1>2, <1>6 DEF Moved
  <2> QED BY <1>1, <1>6, <2>1, AppendedIs
<1>7. CASE maxlen' = 0 /\ str' = << >> /\ len' = 0 /\ lost' = lost + len + Len(text)
           /\ UNCHANGED had
  BY <1>1, <1>3, <1>7
<1> QED BY <1>4, <1>5, <1>6, <1>7 DEF Output

(* What is handed over takes what was sent as much further.                *)
LEMMA Handed ==
  ASSUME EfiPrintAssumption, PrintType, NEW text \in Seq(Chars), NEW f \in Nat, Output(text),
         Sent(f),
         Meant \in Seq(Chars \X Nat), f + Len(text) <= Len(Meant), Ahead(f, text),
         UNCHANGED <<to, segs, fmt>>
  PROVE  Sent(f + Len(text))'
<1> DEFINE g == f + Len(text)
           M == Meant
           G == Glyphs
           H == had \o G
<1>1. /\ str \in Seq(Chars) /\ len \in Nat /\ maxlen \in Nat /\ lost \in Nat /\ had \in Seq(Chars)
      /\ Len(text) \in Nat /\ Attr \in Nat /\ Len(M) \in Nat /\ Len(had) \in Nat /\ g \in Nat
      /\ Len(str) \in Nat /\ PRINT_STRING_LEN \in Nat
  <2> HIDE DEF Chars
  <2> QED BY Numbers DEF PrintType
<1>2. UNCHANGED <<Meant, Glyphs>> /\ OnConsole' = OnConsole
  BY SameFormat
<1>3. G \in Seq(Chars) /\ Len(G) = Len(M) /\ \A i \in 1 .. Len(M) : G[i] = M[i][1]
  <2>1. DOMAIN M = 1 .. Len(M) /\ \A i \in 1 .. Len(M) : M[i][1] \in Chars
    <3> HIDE DEF Chars
    <3> QED OBVIOUS
  <2>2. G = [i \in DOMAIN M |-> M[i][1]]
    BY DEF Glyphs
  <2> HIDE DEF Chars, M, G
  <2>3. G \in [1 .. Len(M) -> Chars] /\ \A i \in 1 .. Len(M) : G[i] = M[i][1]
    BY <2>1, <2>2
  <2> DEFINE n == Len(M)
  <2>4. n \in Nat /\ G \in [1 .. n -> Chars]
    BY <1>1, <2>3
  <2> HIDE DEF n
  <2>5. G \in Seq(Chars) /\ Len(G) = n
    BY <2>4
  <2> QED BY <2>3, <2>5 DEF n
<1>4. f \in 0 .. Len(M) /\ g \in 0 .. Len(M) /\ g = f + Len(text)
  BY <1>1
<1>5. \A j \in 1 .. Len(text) : M[f + j][1] = text[j] /\ (OnConsole => M[f + j][2] = Attr)
  BY DEF Ahead
<1>6. \A j \in 1 .. Len(text) : f + j \in 1 .. Len(M) /\ text[j] \in Chars
  <2> HIDE DEF Chars, M, G
  <2> QED BY <1>1, <1>4
<1>7. M \in Seq(Chars \X Nat)
  OBVIOUS
<1> HIDE DEF Chars, M, G, g
<1>8. ASSUME to = "console" PROVE out' = SubSeq(M, 1, g)
  <2> DEFINE t == [i \in DOMAIN text |-> <<text[i], Attr>>]
  <2>1. out' = out \o t /\ out = SubSeq(M, 1, f) /\ OnConsole
    BY <1>8 DEF Output, Sent, OnConsole, M
  <2>2. DOMAIN text = 1 .. Len(text)
    OBVIOUS
  <2>3. t \in [1 .. Len(text) -> Chars \X Nat] /\ \A j \in 1 .. Len(text) : t[j] = <<text[j], Attr>>
    BY <1>1, <1>6, <2>2
  <2> HIDE DEF t
  <2>4. t \in Seq(Chars \X Nat) /\ Len(t) = Len(text)
    <3> DEFINE n == Len(text)
               Out == Chars \X Nat
    <3>1. n \in Nat /\ t \in [1 .. n -> Out]
      BY <1>1, <2>3
    <3> HIDE DEF n, Out
    <3>2. t \in Seq(Out) /\ Len(t) = n
      BY <3>1
    <3> QED BY <3>2 DEF n, Out
  <2>5. \A j \in 1 .. Len(text) : M[f + j] \in Chars \X Nat
    BY <1>6, <1>7
  <2>6. \A j \in 1 .. Len(t) : t[j] = M[f + j]
    <3> TAKE j \in 1 .. Len(t)
    <3>1. j \in 1 .. Len(text) /\ M[f + j] \in Chars \X Nat
      BY <2>4, <2>5
    <3>2. M[f + j] = <<M[f + j][1], M[f + j][2]>>
      BY <3>1, Pair
    <3> QED BY <1>5, <2>1, <2>3, <3>1, <3>2
  <2>7. f + Len(t) = g /\ Follows(M, f, t)
    BY <1>4, <2>4, <2>6 DEF Follows
  <2>8. SubSeq(M, 1, f) \o t = SubSeq(M, 1, f + Len(t))
    <3>1. Grows(M, 1, f, t)
      BY <1>7, <2>4, <2>7, FrontGrows
    <3> QED BY <3>1 DEF Grows
  <2> QED BY <2>1, <2>7, <2>8
<1>9. ASSUME to = "string"
      PROVE  str' = SubSeq(G, 1, IF g > maxlen' THEN maxlen' ELSE g)
  <2>1. /\ str' = Appended(str, text, maxlen) /\ maxlen' = maxlen
        /\ str = SubSeq(G, 1, IF f > maxlen THEN maxlen ELSE f)
    BY <1>9 DEF Output, Sent, G
  <2> DEFINE b == IF f > maxlen THEN maxlen ELSE f
             n == IF Len(str) + Len(text) > maxlen THEN maxlen - Len(str) ELSE Len(text)
             t == SubSeq(text, 1, n)
  <2>2. b \in Nat /\ b <= Len(G) /\ b <= f
    <3>1. f \in Nat /\ f <= Len(G) /\ maxlen \in Nat /\ Len(G) \in Nat
      BY <1>1, <1>3, <1>4
    <3> QED BY <3>1
  <2>3. Len(str) = b
    <3>1. b \in Int /\ b <= Len(G)
      BY <2>2
    <3>2. Len(SubSeq(G, 1, b)) = IF b > 0 THEN b ELSE 0
      <4> HIDE DEF b
      <4> QED BY <1>3, <3>1, CutIs
    <3> QED BY <2>1, <2>2, <3>2
  <2>4. /\ n \in Nat /\ n <= Len(text) /\ b + n = (IF g > maxlen THEN maxlen ELSE g)
        /\ b + n <= Len(G) /\ (n > 0 => b = f)
    <3>1. /\ Len(text) \in Nat /\ maxlen \in Nat /\ Len(G) \in Nat /\ f \in Nat /\ g = f + Len(text)
          /\ g <= Len(G) /\ Len(str) = b
      BY <1>1, <1>3, <1>4, <2>3
    <3>2. CASE f > maxlen
      <4>1. b = maxlen /\ Len(str) = maxlen
        BY <3>1, <3>2
      <4>2. n = 0
        BY <3>1, <4>1
      <4>3. g > maxlen
        BY <3>1, <3>2
      <4> HIDE DEF b, n
      <4> QED BY <3>1, <3>2, <4>1, <4>2, <4>3
    <3>3. CASE ~ f > maxlen
      <4>1. b = f /\ Len(str) = f
        BY <3>1, <3>3
      <4>2. n = IF f + Len(text) > maxlen THEN maxlen - f ELSE Len(text)
        BY <4>1
      <4> HIDE DEF b, n
      <4>3. CASE f + Len(text) > maxlen
        BY <3>1, <3>3, <4>1, <4>2, <4>3
      <4>4. CASE ~ f + Len(text) > maxlen
        BY <3>1, <3>3, <4>1, <4>2, <4>4
      <4> QED BY <4>3, <4>4
    <3> QED BY <3>2, <3>3
  <2>5. str' = str \o t
    BY <2>1 DEF Appended
  <2>6. str = SubSeq(G, 1, b)
    BY <2>1
  <2> HIDE DEF b, n
  <2>7. t \in Seq(Chars) /\ Len(t) = n /\ \A j \in 1 .. n : t[j] = text[j]
    BY <2>4, CutIs
  <2> HIDE DEF t
  <2>8. \A j \in 1 .. Len(t) : t[j] = G[b + j]
    <3> TAKE j \in 1 .. Len(t)
    <3>1. j \in 1 .. n /\ j \in 1 .. Len(text) /\ b = f
      BY <1>1, <2>4, <2>7
    <3>2. f + j \in 1 .. Len(M) /\ M[f + j][1] = text[j]
      BY <1>5, <1>6, <3>1
    <3> QED BY <1>3, <2>7, <3>1, <3>2
  <2>9. Follows(G, b, t)
    BY <2>4, <2>7, <2>8 DEF Follows
  <2>10. SubSeq(G, 1, b) \o t = SubSeq(G, 1, b + Len(t))
    <3>1. Grows(G, 1, b, t)
      BY <1>3, <2>2, <2>7, <2>9, FrontGrows
    <3> QED BY <3>1 DEF Grows
  <2> QED BY <2>1, <2>4, <2>5, <2>6, <2>7, <2>9, <2>10
<1>10. ASSUME to = "pool"
       PROVE  /\ lost' \in 0 .. Len(had') + g /\ len' = Len(str')
              /\ str' = SubSeq(had' \o G, lost' + 1, Len(had') + g)
  <2>1. /\ lost \in 0 .. Len(had) + f /\ len = Len(str)
        /\ str = SubSeq(H, lost + 1, Len(had) + f) /\ had' = had
    BY <1>10 DEF Output, Sent, G
  <2>2. H \in Seq(Chars) /\ Len(H) = Len(had) + Len(G) /\ Len(H) \in Nat
        /\ \A i \in 1 .. Len(G) : H[Len(had) + i] = G[i]
    <3>1. had \in Seq(Chars) /\ G \in Seq(Chars)
      BY <1>1, <1>3
    <3>2. Len(G) \in Nat
      BY <3>1
    <3>3. had \o G \in Seq(Chars) /\ Len(had \o G) = Len(had) + Len(G)
          /\ \A i \in 1 .. Len(G) : (had \o G)[Len(had) + i] = G[i]
      BY <3>1, Joined
    <3> HIDE DEF H
    <3>4. H = had \o G
      BY DEF H
    <3>5. Len(had) + Len(G) \in Nat
      BY <1>1, <3>2
    <3> QED BY <3>3, <3>4, <3>5
  <2>3. had' \o G = H
    BY <2>1
  <2> HIDE DEF H
  <2> DEFINE b == Len(had) + f
  <2>4. b \in Nat /\ b <= Len(H) /\ lost <= b /\ b + Len(text) = Len(had) + g
        /\ b + Len(text) <= Len(H)
    <3>1. f \in Nat /\ f <= Len(G) /\ f + Len(text) <= Len(G) /\ g = f + Len(text)
      BY <1>1, <1>3, <1>4
    <3>2. Len(H) = Len(had) + Len(G) /\ lost \in 0 .. Len(had) + f
      BY <2>1, <2>2
    <3> QED BY <1>1, <3>1, <3>2
  <2>5. \A j \in 1 .. Len(text) : text[j] = H[b + j]
    <3> TAKE j \in 1 .. Len(text)
    <3>1. f + j \in 1 .. Len(G) /\ b + j = Len(had) + (f + j) /\ text[j] = G[f + j]
      <4>1. f + j \in 1 .. Len(M) /\ M[f + j][1] = text[j]
        BY <1>5, <1>6
      <4>2. f + j \in 1 .. Len(G) /\ text[j] = G[f + j]
        BY <1>3, <4>1
      <4>3. b + j = Len(had) + (f + j)
        BY <1>1
      <4> QED BY <4>2, <4>3
    <3> QED BY <2>2, <3>1
  <2>6. str = SubSeq(H, lost + 1, b)
    BY <2>1
  <2> HIDE DEF b
  <2>7. Len(str) = b - lost
    BY <1>1, <2>2, <2>4, <2>6, PartOf
  <2>8. str \o text = SubSeq(H, lost + 1, b + Len(text))
    <3>1. Follows(H, b, text)
      BY <2>4, <2>5 DEF Follows
    <3> DEFINE from == lost + 1
    <3>2. from \in Nat /\ b \in Nat /\ 1 <= from /\ from <= b + 1
      BY <1>1, <2>4
    <3>3. H \in Seq(Chars) /\ text \in Seq(Chars) /\ str = SubSeq(H, from, b)
      BY <2>2, <2>6
    <3> HIDE DEF from
    <3>4. SubSeq(H, from, b) \o text = SubSeq(H, from, b + Len(text))
      <4>1. Grows(H, from, b, text)
        BY <3>1, <3>2, <3>3, PartGrows
      <4> QED BY <4>1 DEF Grows
    <3> QED BY <3>3, <3>4 DEF from
  <2>9. CASE str' = str \o text /\ len' = Len(str') /\ lost' = lost
    <3>1. lost' \in 0 .. Len(had') + g
      BY <1>1, <2>1, <2>4, <2>9
    <3> QED BY <2>1, <2>3, <2>4, <2>8, <2>9, <3>1
  <2>10. CASE str' = << >> /\ len' = 0 /\ lost' = lost + len + Len(text)
    <3>1. lost' = Len(had) + g
      <4>1. lost' = lost + (b - lost) + Len(text) /\ lost \in Nat /\ b \in Nat
        BY <1>1, <2>1, <2>4, <2>7, <2>10
      <4> QED BY <1>1, <2>4, <4>1
    <3>2. lost' + 1 \in Int /\ Len(had) + g \in Int /\ Len(had) + g < lost' + 1
      BY <1>1, <3>1
    <3>3. SubSeq(H, lost' + 1, Len(had) + g) = << >>
      BY <3>2, SubSeqEmpty
    <3>4. Len(str') = 0
      BY <2>10
    <3>5. lost' \in 0 .. Len(had) + g
      BY <1>1, <3>1
    <3> QED BY <2>1, <2>3, <2>10, <3>3, <3>4, <3>5
  <2>11. Grown(text) <= maxlen => Len(str) + Len(text) <= maxlen
    BY <1>1, <2>1 DEF Grown
  <2>12. CASE Grown(text) <= maxlen /\ str' = Appended(str, text, maxlen) /\ len' = Len(str')
              /\ UNCHANGED <<maxlen, lost>>
    <3>1. str' = str \o text
      BY <1>1, <2>11, <2>12, AppendedIs
    <3> QED BY <2>9, <2>12, <3>1
  <2>13. CASE /\ maxlen' = Grown(text) + PRINT_STRING_LEN /\ lost' = lost
              /\ str' = Appended(Moved(text), text, maxlen') /\ len' = Len(str')
    <3>1. maxlen' \in Nat /\ Moved(text) = str /\ Len(str) + Len(text) <= maxlen'
      <4>1. maxlen' = (Len(str) + Len(text) + 1) + PRINT_STRING_LEN
        BY <2>1, <2>13 DEF Grown
      <4>2. maxlen' \in Nat /\ Len(str) + Len(text) <= maxlen'
        BY <1>1, <4>1
      <4> QED BY <4>2 DEF Moved
    <3>2. str' = str \o text
      BY <1>1, <2>13, <3>1, AppendedIs
    <3> QED BY <2>9, <2>13, <3>2
  <2> QED BY <1>10, <2>10, <2>12, <2>13 DEF Output
<1>11. Len(Meant') = Len(M) /\ Meant' = M /\ Glyphs' = G
  BY <1>2 DEF M, G
<1>12. (f + Len(text))' = f + Len(text)'
  OBVIOUS
<1> QED BY <1>2, <1>4, <1>8, <1>9, <1>10, <1>11 DEF Sent, OnConsole, g

-----------------------------------------------------------------------------
(* Types                                                                   *)

(* What is typed stays typed.                                              *)
DestType ==
  maxlen \in Nat /\ had \in Seq(Chars) /\ str \in Seq(Chars) /\ len \in Nat /\ lost \in Nat
FormatType ==
  /\ mode # "idle" => to \in {"console", "string", "pool"}
  /\ segs \in Seq(Segments) /\ fmt \in Seq(TokenSet)
ReadType ==
  /\ mode \in {"idle", "text", "item", "put", "done", "undefined"}
  /\ Index \in Nat \ {0} /\ Item \in ItemSet /\ parse \in {"Width", "FieldWidth"}
  /\ todo \in Seq(Chars)
PutType ==
  /\ Attr \in Nat /\ RestoreAttr \in Nat /\ Written \in Nat
  /\ Buffer \in Seq(Chars) /\ Len(Buffer) < PRINT_STRING_LEN

(* The parts of PrintType.                                                 *)
LEMMA Types == PrintType <=> DestType /\ FormatType /\ ReadType /\ PutType
  BY DEF PrintType, DestType, FormatType, ReadType, PutType

(* An empty buffer.                                                        *)
LEMMA NoText ==
  ASSUME EfiPrintAssumption
  PROVE  << >> \in Seq(Chars) /\ Len(<< >>) = 0 /\ Len(<< >>) < PRINT_STRING_LEN
<1>1. << >> \in Seq(Chars) /\ Len(<< >>) = 0
  OBVIOUS
<1> QED BY <1>1, Numbers

(* What a new format leaves to print.                                      *)
LEMMA FormatTyped ==
  ASSUME EfiPrintAssumption, PrintType, Format, to' \in {"console", "string", "pool"}
  PROVE  FormatType' /\ ReadType' /\ (Attr' \in Nat => PutType')
<1>1. segs' \in Seq(Segments)
  <2>1. PICK n \in 0 .. MaxSegments : segs' \in [1 .. n -> Segments]
    BY DEF Format, Formats
  <2>2. n \in Nat
    OBVIOUS
  <2> QED BY <2>1, <2>2
<1>2. \A q \in Seq(Segments) : AllTokens(q) \in Seq(TokenSet)
  <2> TAKE q \in Seq(Segments)
  <2> DEFINE lists == [i \in DOMAIN q |-> Tokens(q[i])]
  <2>1. Len(q) \in Nat /\ DOMAIN q = 1 .. Len(q) /\ \A i \in 1 .. Len(q) :
          Tokens(q[i]) \in Seq(TokenSet)
    BY TokensAre
  <2>2. AllTokens(q) = FlattenSeq(lists)
    BY DEF AllTokens
  <2>3. lists \in [1 .. Len(q) -> Seq(TokenSet)]
    BY <2>1
  <2> HIDE DEF lists
  <2>4. lists \in Seq(Seq(TokenSet))
    BY <2>1, <2>3
  <2> QED BY <2>2, <2>4, Flattened
<1> DEFINE tokens == AllTokens(segs')
<1>3. tokens \in Seq(TokenSet)
  BY <1>1, <1>2
<1>4. PICK n \in 0 .. Len(tokens) : fmt' = SubSeq(tokens, 1, n)
  BY DEF Format
<1> HIDE DEF tokens
<1>5. fmt' \in Seq(TokenSet)
  <2>1. n \in Int /\ n <= Len(tokens)
    BY <1>3
  <2> QED BY <1>3, <1>4, <2>1, CutIs
<1>6. mode' = "text" /\ UNCHANGED <<Index, Item, parse, todo, RestoreAttr, Buffer, Written>>
  BY DEF Format
<1>7. FormatType'
  BY <1>1, <1>5 DEF FormatType
<1>8. ReadType'
  BY <1>6, Types DEF ReadType
<1>9. Attr' \in Nat => PutType'
  BY <1>6, Types DEF PutType
<1> QED BY <1>7, <1>8, <1>9

(* The calls that start printing set every variable to one of its type.    *)
LEMMA FormatsTyped ==
  ASSUME EfiPrintAssumption, PrintType, ConsolePrint \/ StringPrint \/ CatPrint
  PROVE  PrintType'
<1>1. START \in Nat /\ Limits \subseteq Nat
  BY DEF EfiPrintAssumption
<1>2. DestType /\ PutType
  BY Types
<1>3. CASE ConsolePrint
  <2>1. Format /\ to' = "console" /\ Attr' \in Nat /\ DestType'
    BY <1>1, <1>2, <1>3 DEF ConsolePrint, DestType, Format
  <2> QED BY <2>1, FormatTyped, Types DEF PrintType, DestType, FormatType, ReadType, PutType
<1>4. CASE StringPrint
  <2>1. Format /\ to' = "string" /\ Attr' \in Nat /\ DestType'
    BY <1>1, <1>2, <1>4 DEF StringPrint, DestType, PutType, Format
  <2> QED BY <2>1, FormatTyped DEF PrintType, DestType, FormatType, ReadType, PutType
<1>5. CASE CatPrint
  <2>1. Format /\ to' = "pool" /\ Attr' \in Nat
    BY <1>2, <1>5 DEF CatPrint, PutType
  <2>2. had' \in Seq(Chars) /\ str' = had' /\ len' = Len(had') /\ lost' = lost
    BY <1>5, CharsAre DEF CatPrint, Format
  <2>3. len' \in Nat
    BY <2>2
  <2>4. maxlen' \in Nat
    BY <1>5, <2>3, Numbers DEF CatPrint
  <2>5. DestType'
    BY <1>2, <2>2, <2>3, <2>4 DEF DestType
  <2> QED BY <2>1, <2>5, FormatTyped DEF PrintType, DestType, FormatType, ReadType, PutType
<1> QED BY <1>3, <1>4, <1>5

(* A character more in the buffer, or handed over with it.                 *)
LEMMA PutTyped == ASSUME EfiPrintAssumption, PrintType, PPUTC PROVE PrintType'
<1> DEFINE text == Append(Buffer, Head(todo))
<1>1. DestType /\ FormatType /\ ReadType /\ PutType
  BY Types
<1>2. Head(todo) \in Chars /\ todo' \in Seq(Chars)
  <2>1. todo \in Seq(Chars) /\ todo # << >> /\ todo' = Tail(todo)
    BY <1>1 DEF ReadType, PPUTC
  <2> HIDE DEF Chars
  <2> QED BY <2>1
<1>3. text \in Seq(Chars) /\ Len(text) \in Nat
  <2>1. Buffer \in Seq(Chars)
    BY <1>1 DEF PutType
  <2> HIDE DEF Chars
  <2> QED BY <1>2, <2>1
<1>4. \/ AtEnd(text) /\ Output(text) /\ Buffer' = << >>
      \/ ~ AtEnd(text) /\ Buffer' = text /\ UNCHANGED <<dest, len>>
  BY DEF PPUTC, PFLUSH
<1>5. UNCHANGED <<to, segs, fmt, Index, mode, Item, parse, Attr, RestoreAttr>>
      /\ Written' = Written + 1
  BY DEF PPUTC, attr
<1> HIDE DEF text
<1>6. DestType'
  <2>1. CASE Output(text)
    BY <1>3, <2>1, OutputTyped DEF DestType
  <2>2. CASE UNCHANGED <<dest, len>>
    BY <1>1, <2>2 DEF DestType, dest
  <2> QED BY <1>4, <2>1, <2>2
<1>7. Buffer' \in Seq(Chars) /\ Len(Buffer') < PRINT_STRING_LEN
  <2>1. ~ AtEnd(text) => Len(text) < PRINT_STRING_LEN
    BY <1>3, Numbers DEF AtEnd
  <2> QED BY <1>3, <1>4, <2>1, NoText
<1>8. FormatType'
  BY <1>1, <1>5 DEF FormatType
<1>9. ReadType'
  BY <1>1, <1>2, <1>5 DEF ReadType
<1>10. PutType'
  BY <1>1, <1>5, <1>7 DEF PutType
<1> QED BY <1>6, <1>8, <1>9, <1>10 DEF PrintType, DestType, FormatType, ReadType, PutType

(* The buffer handed over.                                                 *)
LEMMA FlushTyped ==
  ASSUME EfiPrintAssumption, PrintType, PFLUSH(Buffer), Attr' \in Nat, RestoreAttr' \in Nat,
         UNCHANGED Written
  PROVE  DestType' /\ PutType'
<1>1. Buffer \in Seq(Chars) /\ Output(Buffer) /\ Buffer' = << >> /\ Written \in Nat
  BY DEF PFLUSH, PrintType
<1>2. DestType'
  BY <1>1, OutputTyped DEF DestType
<1>3. PutType'
  BY <1>1, NoText DEF PutType
<1> QED BY <1>2, <1>3

(* Nothing printed.                                                        *)
LEMMA QuietTyped ==
  ASSUME PrintType, Quiet, RestoreAttr' \in Nat
  PROVE  DestType' /\ PutType'
BY DEF PrintType, Quiet, dest, DestType, PutType

(* The token that is read.                                                 *)
LEMMA ReadIs ==
  ASSUME PrintType, NEW c, Read(c)
  PROVE  /\ Index \in 1 .. Len(fmt) /\ fmt[Index] \in TokenSet /\ fmt[Index][1] \in c
         /\ Index' = Index + 1 /\ Index' \in Nat \ {0} /\ todo = << >>
         /\ UNCHANGED <<to, segs, fmt>>
<1>1. fmt \in Seq(TokenSet) /\ Index \in Nat \ {0} /\ Index <= Len(fmt)
  BY DEF PrintType, Read
<1> HIDE DEF TokenSet
<1>2. Index \in 1 .. Len(fmt) /\ fmt[Index] \in TokenSet /\ Index + 1 \in Nat \ {0}
  BY <1>1
<1> QED BY <1>2 DEF Read, Fixed

(* What a token carries.                                                   *)
LEMMA TokenHas ==
  ASSUME EfiPrintAssumption, NEW t \in TokenSet
  PROVE  t[1] \in Chars /\ (t[1] = "s" => t[2] \in Seq(Chars)) /\ (t[1] = "w" => t[2] \in Nat)
<1>1. t[1] \in Kinds /\ (t[1] = "s" => t[2] \in Seq(Chars)) /\ (t[1] = "w" => t[2] \in Nat)
  BY DEF TokenSet
<1> QED BY <1>1, CharsAre

(* One character put.                                                      *)
LEMMA OneReturns ==
  ASSUME EfiPrintAssumption, NEW c \in Chars
  PROVE  WithReturns(<<c>>) \in Seq(Chars)
<1>1. <<c>> \in Seq(Chars)
  BY Short
<1> QED BY <1>1, ReturnsIs

(* A new item.                                                             *)
LEMMA NewItemTyped ==
  ASSUME EfiPrintAssumption
  PROVE  NewItem \in ItemSet
<1>1. "sp" \in Chars
  BY CharsAre
<1> QED BY <1>1 DEF NewItem, ItemSet

(* The actions, one by one.                                                *)
LEMMA TextTyped == ASSUME EfiPrintAssumption, PrintType, Text PROVE PrintType'
<1>1. DestType /\ FormatType /\ ReadType /\ PutType
  BY Types
<1>2. /\ fmt[Index] \in TokenSet /\ Index' \in Nat \ {0} /\ UNCHANGED <<to, segs, fmt>>
      /\ todo = << >>
  BY ReadIs DEF Text
<1>3. fmt[Index][1] \in Chars
  BY <1>2, TokenHas
<1>4. \/ mode' = "item" /\ Item' = NewItem /\ parse' = "Width" /\ RestoreAttr' = 0 /\ UNCHANGED todo
      \/ todo' = WithReturns(<<fmt[Index][1]>>) /\ UNCHANGED <<mode, Item, parse, RestoreAttr>>
  BY DEF Text
<1>5. mode = "text" /\ Quiet
  BY DEF Text
<1>6. RestoreAttr' \in Nat
  BY <1>1, <1>4 DEF PutType
<1>7. DestType' /\ PutType'
  BY <1>5, <1>6, QuietTyped
<1>8. ReadType'
  BY <1>1, <1>2, <1>3, <1>4, <1>5, OneReturns, NewItemTyped DEF ReadType
<1>9. FormatType'
  BY <1>1, <1>2, <1>5 DEF FormatType
<1> QED BY <1>7, <1>8, <1>9 DEF PrintType, DestType, FormatType, ReadType, PutType

(* One field of an item changed.                                           *)
LEMMA ItemChanged ==
  ASSUME EfiPrintAssumption, NEW item \in ItemSet, NEW n \in Nat
  PROVE  /\ [item EXCEPT !.Pad = "0"] \in ItemSet /\ [item EXCEPT !.PadBefore = FALSE] \in ItemSet
         /\ [item EXCEPT !["Width"] = n] \in ItemSet
         /\ [item EXCEPT !["FieldWidth"] = n] \in ItemSet
<1>1. "0" \in Chars
  BY CharsAre
<1> HIDE DEF Chars
<1> QED BY <1>1 DEF ItemSet

(* Flags and digits of an item keep the types,                             *)
LEMMA FlagTyped == ASSUME EfiPrintAssumption, PrintType, Flag PROVE PrintType'
<1>1. DestType /\ FormatType /\ ReadType /\ PutType
  BY Types
<1> DEFINE t == fmt[Index]
<1>2. /\ t \in TokenSet /\ Index' \in Nat \ {0} /\ UNCHANGED <<to, segs, fmt>> /\ todo = << >>
      /\ t[1] \in {"0", "-", ".", "w"}
  BY ReadIs DEF Flag
<1>3. t[1] = "w" => t[2] \in Nat
  BY <1>2, TokenHas
<1>4. /\ mode = "item" /\ Quiet /\ UNCHANGED <<mode, todo, RestoreAttr>>
      /\ parse' = IF t[1] = "." THEN "FieldWidth" ELSE parse
      /\ Item' = CASE t[1] = "0" -> [Item EXCEPT !.Pad = "0"]
                   [] t[1] = "-" -> [Item EXCEPT !.PadBefore = FALSE]
                   [] t[1] = "." -> Item
                   [] t[1] = "w" -> [Item EXCEPT ![parse] = t[2]]
  BY DEF Flag
<1> HIDE DEF t
<1>5. Item \in ItemSet /\ parse \in {"Width", "FieldWidth"}
  BY <1>1 DEF ReadType
<1>6. Item' \in ItemSet
  <2>1. CASE t[1] = "0"
    <3>1. Item' = [Item EXCEPT !.Pad = "0"]
      BY <1>4, <2>1
    <3>2. 0 \in Nat
      OBVIOUS
    <3> QED BY <1>5, <3>1, <3>2, ItemChanged
  <2>2. CASE t[1] = "-"
    <3>1. Item' = [Item EXCEPT !.PadBefore = FALSE]
      BY <1>4, <2>2
    <3>2. 0 \in Nat
      OBVIOUS
    <3> QED BY <1>5, <3>1, <3>2, ItemChanged
  <2>3. CASE t[1] = "."
    <3>1. Item' = Item
      BY <1>4, <2>3
    <3> QED BY <1>5, <3>1
  <2>4. CASE t[1] = "w"
    <3>1. Item' = [Item EXCEPT ![parse] = t[2]]
      BY <1>4, <2>4
    <3>2. t[2] \in Nat
      BY <1>3, <2>4
    <3>3. CASE parse = "Width"
      <4>1. Item' = [Item EXCEPT !["Width"] = t[2]]
        BY <3>1, <3>3
      <4> QED BY <1>5, <3>2, <4>1, ItemChanged
    <3>4. CASE parse = "FieldWidth"
      <4>1. Item' = [Item EXCEPT !["FieldWidth"] = t[2]]
        BY <3>1, <3>4
      <4> QED BY <1>5, <3>2, <4>1, ItemChanged
    <3> QED BY <1>5, <3>3, <3>4
  <2> QED BY <1>2, <2>1, <2>2, <2>3, <2>4
<1>7. RestoreAttr' \in Nat
  BY <1>1, <1>4 DEF PutType
<1>8. DestType' /\ PutType'
  BY <1>4, <1>7, QuietTyped
<1>9. ReadType'
  BY <1>1, <1>2, <1>4, <1>5, <1>6 DEF ReadType
<1>10. FormatType'
  BY <1>1, <1>2, <1>4 DEF FormatType
<1> QED BY <1>8, <1>9, <1>10 DEF PrintType, DestType, FormatType, ReadType, PutType

(* as do attributes,                                                       *)
LEMMA AttrTyped == ASSUME EfiPrintAssumption, PrintType, ItemAttr \/ SetAttr PROVE PrintType'
<1>1. DestType /\ FormatType /\ ReadType /\ PutType
  BY Types
<1>2. /\ Index' \in Nat \ {0} /\ UNCHANGED <<to, segs, fmt>> /\ todo = << >> /\ mode = "item"
      /\ mode' \in {"item", "text"} /\ UNCHANGED <<Item, parse, todo>>
  BY ReadIs DEF ItemAttr, SetAttr
<1>3. \A c : AttrOf(c) \in Nat
  BY <1>1, AttrIs DEF FormatType
<1>4. Attr \in Nat /\ RestoreAttr \in Nat
  BY <1>1 DEF PutType
<1>5. DestType' /\ PutType'
  <2>1. CASE ItemAttr
    <3>1. PFLUSH(Buffer) /\ Attr' \in Nat /\ RestoreAttr' \in Nat /\ UNCHANGED Written
      BY <1>3, <1>4, <2>1 DEF ItemAttr, PSETATTR
    <3> QED BY <3>1, FlushTyped
  <2>2. CASE SetAttr /\ Quiet /\ UNCHANGED RestoreAttr
    BY <1>4, <2>2, QuietTyped
  <2>3. CASE SetAttr /\ PFLUSH(Buffer) /\ Attr' = AttrOf(fmt[Index][1]) /\ RestoreAttr' = 0
             /\ UNCHANGED Written
    BY <1>3, <2>3, FlushTyped
  <2> QED BY <2>1, <2>2, <2>3 DEF SetAttr
<1>6. ReadType'
  BY <1>1, <1>2 DEF ReadType
<1>7. FormatType'
  BY <1>1, <1>2 DEF FormatType
<1> QED BY <1>5, <1>6, <1>7 DEF PrintType, DestType, FormatType, ReadType, PutType

(* the letter that makes an item's text,                                   *)
LEMMA ConvertTyped == ASSUME EfiPrintAssumption, PrintType, Convert PROVE PrintType'
<1>1. DestType /\ FormatType /\ ReadType /\ PutType
  BY Types
<1> DEFINE t == fmt[Index]
           text == IF t[1] = "s" THEN t[2] ELSE IF t[1] = "%" THEN <<"%">> ELSE <<"?">>
<1>2. /\ t \in TokenSet /\ Index' \in Nat \ {0} /\ UNCHANGED <<to, segs, fmt>> /\ todo = << >>
  BY ReadIs DEF Convert
<1>3. text \in Seq(Chars)
  <2>1. <<"%">> \in Seq(Chars) /\ <<"?">> \in Seq(Chars)
    BY CharsAre, Short
  <2>2. t[1] = "s" => t[2] \in Seq(Chars)
    BY <1>2, TokenHas
  <2> HIDE DEF t
  <2> QED BY <2>1, <2>2
<1>4. /\ mode = "item" /\ Quiet /\ todo' = WithReturns(PITEM(Item, text)) /\ mode' = "put"
      /\ UNCHANGED <<Item, parse, RestoreAttr>>
  BY DEF Convert
<1> HIDE DEF text
<1>5. todo' \in Seq(Chars)
  <2>1. Item \in ItemSet
    BY <1>1 DEF ReadType
  <2>2. PITEM(Item, text) \in Seq(Chars)
    BY <1>3, <2>1, PITEMIs
  <2> QED BY <1>4, <2>2, ReturnsIs
<1>6. RestoreAttr' \in Nat
  BY <1>1, <1>4 DEF PutType
<1>7. DestType' /\ PutType'
  BY <1>4, <1>6, QuietTyped
<1>8. ReadType'
  BY <1>1, <1>2, <1>4, <1>5 DEF ReadType
<1>9. FormatType'
  BY <1>1, <1>2, <1>4 DEF FormatType
<1> QED BY <1>7, <1>8, <1>9 DEF PrintType, DestType, FormatType, ReadType, PutType

(* and the end of an item and of the format.                               *)
LEMMA DoneTyped == ASSUME EfiPrintAssumption, PrintType, ItemDone \/ Finish PROVE PrintType'
<1>1. DestType /\ FormatType /\ ReadType /\ PutType
  BY Types
<1>2. /\ UNCHANGED <<to, segs, fmt, Index, Item, parse, todo>> /\ mode # "idle"
      /\ mode' \in {"text", "done", "undefined"}
  BY DEF ItemDone, Finish, Fixed
<1>3. Attr \in Nat /\ RestoreAttr \in Nat
  BY <1>1 DEF PutType
<1>4. CASE PFLUSH(Buffer) /\ Attr' \in Nat /\ RestoreAttr' \in Nat /\ UNCHANGED Written
  <2>1. DestType' /\ PutType'
    BY <1>4, FlushTyped
  <2>2. ReadType'
    BY <1>1, <1>2 DEF ReadType
  <2>3. FormatType'
    BY <1>1, <1>2 DEF FormatType
  <2> QED BY <2>1, <2>2, <2>3 DEF PrintType, DestType, FormatType, ReadType, PutType
<1>5. CASE UNCHANGED <<attr, Buffer, Written, dest, len>>
  <2>1. DestType' /\ PutType'
    BY <1>1, <1>5 DEF attr, dest, DestType, PutType
  <2>2. ReadType'
    BY <1>1, <1>2 DEF ReadType
  <2>3. FormatType'
    BY <1>1, <1>2 DEF FormatType
  <2> QED BY <2>1, <2>2, <2>3 DEF PrintType, DestType, FormatType, ReadType, PutType
<1>6. \/ PSETATTR(RestoreAttr)
      \/ UNCHANGED <<attr, Buffer, Written, dest, len>>
      \/ PFLUSH(Buffer) /\ UNCHANGED <<attr, Written>>
  BY DEF ItemDone, Finish
<1>7. PSETATTR(RestoreAttr) =>
        PFLUSH(Buffer) /\ Attr' \in Nat /\ RestoreAttr' \in Nat /\ UNCHANGED Written
  BY <1>3 DEF PSETATTR
<1>8. UNCHANGED attr => Attr' \in Nat /\ RestoreAttr' \in Nat
  BY <1>3 DEF attr
<1> QED BY <1>4, <1>5, <1>6, <1>7, <1>8

(* No step leaves the types.                                               *)
LEMMA PrintTypeKept == ASSUME EfiPrintAssumption, PrintType, Next PROVE PrintType'
<1>1. CASE Stop
  BY <1>1 DEF Stop, vars, ps, attr, dest, PrintType
<1> QED BY <1>1, FormatsTyped, PutTyped, TextTyped, FlagTyped, AttrTyped, ConvertTyped, DoneTyped
           DEF Next

-----------------------------------------------------------------------------
(* Items read                                                              *)

(* From one stage of an item to the next.                                  *)
LEMMA HasIs ==
  ASSUME NEW s
  PROVE  /\ Has(s, 1) <=> s.attr # ""
         /\ Has(s, 2) = s.zero /\ Has(s, 3) = s.left
         /\ Has(s, 4) <=> s.width > 0
         /\ Has(s, 5) <=> s.field > 0
         /\ Has(s, 6) <=> s.field > 0
         /\ Has(s, 7)
<1> DEFINE c1 == s.attr # ""
           c4 == s.width > 0
           c5 == s.field > 0
<1>1. /\ Has(s, 1) = c1 /\ Has(s, 2) = s.zero /\ Has(s, 3) = s.left /\ Has(s, 4) = c4
      /\ Has(s, 5) = c5 /\ Has(s, 6) = c5 /\ Has(s, 7)
  BY DEF Has
<1> HIDE DEF c1, c4, c5
<1>2. (Has(s, 1) <=> c1) /\ (Has(s, 4) <=> c4) /\ (Has(s, 5) <=> c5) /\ (Has(s, 6) <=> c5)
  BY <1>1
<1> QED BY <1>1, <1>2 DEF c1, c4, c5

(* A stage takes one token or none.                                        *)
LEMMA PosSteps ==
  ASSUME EfiPrintAssumption, NEW s \in Segments, s.kind = "item", NEW stage \in 1 .. 6
  PROVE  /\ Has(s, stage) => Pos(s, stage + 1) = Pos(s, stage) + 1
         /\ ~ Has(s, stage) => Pos(s, stage + 1) = Pos(s, stage)
<1>1. /\ Pos(s, 1) = 2 /\ Pos(s, 2) = 2 + One(s.attr # "") /\ Pos(s, 3) = Pos(s, 2) + One(s.zero)
      /\ Pos(s, 4) = Pos(s, 3) + One(s.left) /\ Pos(s, 5) = Pos(s, 4) + One(s.width > 0)
      /\ Pos(s, 6) = Pos(s, 5) + One(s.field > 0) /\ Pos(s, 7) = Pos(s, 6) + One(s.field > 0)
      /\ \A b \in BOOLEAN : One(b) \in Nat
  <2> DEFINE c1 == s.attr # ""
             c4 == s.width > 0
             c5 == s.field > 0
  <2>1. /\ Pos(s, 1) = 2 /\ Pos(s, 2) = 2 + One(c1) /\ Pos(s, 3) = Pos(s, 2) + One(s.zero)
        /\ Pos(s, 4) = Pos(s, 3) + One(s.left) /\ Pos(s, 5) = Pos(s, 4) + One(c4)
        /\ Pos(s, 6) = Pos(s, 5) + One(c5) /\ Pos(s, 7) = Pos(s, 6) + One(c5)
        /\ \A b \in BOOLEAN : One(b) \in Nat
    BY DEF Pos, One
  <2> QED BY <2>1
<1>2. s.zero \in BOOLEAN /\ s.left \in BOOLEAN
  BY SegmentIs
<1>3. Pos(s, 1) \in Int /\ Pos(s, 2) \in Int /\ Pos(s, 3) \in Int /\ Pos(s, 4) \in Int
      /\ Pos(s, 5) \in Int
      /\ Pos(s, 6) \in Int
  <2>1. \A st \in 1 .. 7 : Pos(s, st) \in 2 .. Pos(s, 7)
    BY ItemTokens
  <2>2. {1, 2, 3, 4, 5, 6} \subseteq 1 .. 7
    OBVIOUS
  <2> QED BY <2>1, <2>2
<1>4. CASE stage = 1
  <2> DEFINE c == s.attr # ""
  <2>1. Has(s, 1) <=> c
    BY Zenon, HasIs
  <2>0. stage + 1 = 2
    BY <1>4
  <2>2. Pos(s, 2) = 2 + One(c)
    BY <1>1
  <2>3. (c => One(c) = 1) /\ (~ c => One(c) = 0)
    BY DEF One
  <2>4. Pos(s, 1) = 2
    BY <1>1
  <2> HIDE DEF c
  <2> QED BY <1>4, <2>0, <2>1, <2>2, <2>3, <2>4
<1>5. CASE stage = 2
  <2>1. Has(s, 2) = s.zero /\ stage + 1 = 3
    BY <1>5 DEF Has
  <2>2. Pos(s, 3) = Pos(s, 2) + One(s.zero)
    BY <1>1
  <2> QED BY <1>2, <1>3, <1>5, <2>1, <2>2 DEF One
<1>6. CASE stage = 3
  <2>1. Has(s, 3) = s.left /\ stage + 1 = 4
    BY <1>6 DEF Has
  <2>2. Pos(s, 4) = Pos(s, 3) + One(s.left)
    BY <1>1
  <2> QED BY <1>2, <1>3, <1>6, <2>1, <2>2 DEF One
<1>7. CASE stage = 4
  <2> DEFINE c == s.width > 0
  <2>1. Has(s, 4) <=> c
    BY Zenon, HasIs
  <2>0. stage + 1 = 5
    BY <1>7
  <2>2. Pos(s, 5) = Pos(s, 4) + One(c)
    BY <1>1
  <2>3. (c => One(c) = 1) /\ (~ c => One(c) = 0)
    BY DEF One
  <2> HIDE DEF c
  <2> QED BY <1>3, <1>7, <2>0, <2>1, <2>2, <2>3
<1>8. CASE stage = 5
  <2> DEFINE c == s.field > 0
  <2>1. Has(s, 5) <=> c
    BY Zenon, HasIs
  <2>0. stage + 1 = 6
    BY <1>8
  <2>2. Pos(s, 6) = Pos(s, 5) + One(c)
    BY <1>1
  <2>3. (c => One(c) = 1) /\ (~ c => One(c) = 0)
    BY DEF One
  <2> HIDE DEF c
  <2> QED BY <1>3, <1>8, <2>0, <2>1, <2>2, <2>3
<1>9. CASE stage = 6
  <2> DEFINE c == s.field > 0
  <2>1. Has(s, 6) <=> c
    BY Zenon, HasIs
  <2>0. stage + 1 = 7
    BY <1>9
  <2>2. Pos(s, 7) = Pos(s, 6) + One(c)
    BY <1>1
  <2>3. (c => One(c) = 1) /\ (~ c => One(c) = 0)
    BY DEF One
  <2> HIDE DEF c
  <2> QED BY <1>3, <1>9, <2>0, <2>1, <2>2, <2>3
<1> QED BY <1>4, <1>5, <1>6, <1>7, <1>8, <1>9

(* A stage that is not there changes nothing.                              *)
LEMMA HasNot ==
  ASSUME EfiPrintAssumption, NEW s \in Segments, s.kind = "item", NEW stage \in 1 .. 6,
         ~ Has(s, stage)
  PROVE  ItemAt(s, stage + 1) = ItemAt(s, stage) /\ ParseAt(s, stage + 1) = ParseAt(s, stage)
<1>1. s.zero \in BOOLEAN /\ s.left \in BOOLEAN /\ s.width \in Nat /\ s.field \in Nat
  BY SegmentIs
<1>2. CASE stage = 1
  BY <1>2 DEF ItemAt, ParseAt
<1>3. CASE stage = 2
  <2>1. s.zero = FALSE
    BY <1>1, <1>3 DEF Has
  <2> QED BY <1>3, <2>1 DEF ItemAt, ParseAt
<1>4. CASE stage = 3
  <2>1. s.left = FALSE
    BY <1>1, <1>4 DEF Has
  <2> QED BY <1>4, <2>1 DEF ItemAt, ParseAt
<1>5. CASE stage = 4
  <2>1. s.width = 0
    <3>1. ~ (s.width > 0)
      BY <1>5 DEF Has
    <3> QED BY <1>1, <3>1
  <2> QED BY <1>5, <2>1 DEF ItemAt, ParseAt
<1>6. CASE stage \in {5, 6}
  <2>1. ~ (s.field > 0)
    <3>1. CASE stage = 5
      BY <3>1, HasIs
    <3>2. CASE stage = 6
      BY <3>2, HasIs
    <3> QED BY <1>6, <3>1, <3>2
  <2> QED BY <1>6, <2>1 DEF ItemAt, ParseAt
<1> QED BY <1>2, <1>3, <1>4, <1>5, <1>6

(* An item's own attribute, or the format's.                               *)
LEMMA FirstAttr ==
  ASSUME NEW i \in 1 .. Len(segs), segs[i].kind = "item"
  PROVE  /\ segs[i].attr = "" => AttrIn(i) = AttrBefore(i) /\ AfterAttr(i) = 0
         /\ segs[i].attr # "" => AttrIn(i) = AttrOf(segs[i].attr) /\ AfterAttr(i) = AttrBefore(i)
BY Zenon DEF AttrIn, AfterAttr

(* To be before a stage that is not there is to be behind it.              *)
LEMMA SettleOne ==
  ASSUME EfiPrintAssumption, segs \in Seq(Segments), NEW i \in 1 .. Len(segs),
         segs[i].kind = "item", NEW base \in Nat,
         NEW stage \in 1 .. 6, At(base, i, stage), ~ Has(segs[i], stage)
  PROVE  At(base, i, stage + 1)
<1> DEFINE s == segs[i]
<1>1. s \in Segments /\ s.kind = "item"
  OBVIOUS
<1>2. Pos(s, stage + 1) = Pos(s, stage)
  BY <1>1, PosSteps
<1>3. ItemAt(s, stage + 1) = ItemAt(s, stage) /\ ParseAt(s, stage + 1) = ParseAt(s, stage)
  BY <1>1, HasNot
<1>4. stage = 1 => AttrIn(i) = AttrBefore(i) /\ AfterAttr(i) = 0
  <2> SUFFICES ASSUME stage = 1 PROVE AttrIn(i) = AttrBefore(i) /\ AfterAttr(i) = 0
    OBVIOUS
  <2>1. ~ Has(s, 1) /\ (Has(s, 1) <=> s.attr # "")
    BY HasIs
  <2> QED BY <2>1, FirstAttr
<1>5. stage + 1 # 1
  OBVIOUS
<1> QED BY <1>2, <1>3, <1>4, <1>5 DEF At

(* The stage whose token is the next.                                      *)
LEMMA Settle ==
  ASSUME EfiPrintAssumption, segs \in Seq(Segments), NEW i \in 1 .. Len(segs),
         segs[i].kind = "item", NEW base \in Nat,
         NEW first \in 1 .. 7, At(base, i, first)
  PROVE  \E stage \in 1 .. 7 : At(base, i, stage) /\ Has(segs[i], stage)
<1> SUFFICES ASSUME \A stage \in 1 .. 7 : At(base, i, stage) => ~ Has(segs[i], stage)
             PROVE  FALSE
  OBVIOUS
<1>1. \A stage \in 1 .. 6 : At(base, i, stage) => At(base, i, stage + 1)
  <2> TAKE stage \in 1 .. 6
  <2>1. stage \in 1 .. 7
    OBVIOUS
  <2> QED BY <2>1, SettleOne
<1>2. Has(segs[i], 7)
  BY HasIs
<1> DEFINE P(n) == At(base, i, n)
<1>3. \A n \in 1 .. 6 : P(n) => P(n + 1)
  BY <1>1
<1>4. P(first) /\ ~ P(7)
  BY <1>2
<1> HIDE DEF P
<1>5. P(1) => P(2)
  <2>1. 1 \in 1 .. 6 /\ 1 + 1 = 2
    OBVIOUS
  <2> QED BY <1>3, <2>1
<1>6. P(2) => P(3)
  <2>1. 2 \in 1 .. 6 /\ 2 + 1 = 3
    OBVIOUS
  <2> QED BY <1>3, <2>1
<1>7. P(3) => P(4)
  <2>1. 3 \in 1 .. 6 /\ 3 + 1 = 4
    OBVIOUS
  <2> QED BY <1>3, <2>1
<1>8. P(4) => P(5)
  <2>1. 4 \in 1 .. 6 /\ 4 + 1 = 5
    OBVIOUS
  <2> QED BY <1>3, <2>1
<1>9. P(5) => P(6)
  <2>1. 5 \in 1 .. 6 /\ 5 + 1 = 6
    OBVIOUS
  <2> QED BY <1>3, <2>1
<1>10. P(6) => P(7)
  <2>1. 6 \in 1 .. 6 /\ 6 + 1 = 7
    OBVIOUS
  <2> QED BY <1>3, <2>1
<1>11. first \in {1, 2, 3, 4, 5, 6, 7}
  OBVIOUS
<1> QED BY <1>4, <1>5, <1>6, <1>7, <1>8, <1>9, <1>10, <1>11

(* What Flag does with the token of a stage takes the item to the next.    *)
Stepped(t, item, field, item1, field1) ==
  /\ t[1] = "0" => item1 = [item EXCEPT !.Pad = "0"]
  /\ t[1] = "-" => item1 = [item EXCEPT !.PadBefore = FALSE]
  /\ t[1] = "." => item1 = item
  /\ t[1] = "w" => item1 = [item EXCEPT ![field] = t[2]]
  /\ field1 = IF t[1] = "." THEN "FieldWidth" ELSE field
(* Reading the flag at a stage changes the item as the next stage says.    *)
LEMMA FlagStep ==
  ASSUME EfiPrintAssumption, NEW s \in Segments, s.kind = "item", NEW stage \in 2 .. 6,
         Has(s, stage)
  PROVE  Stepped(Token(s, stage), ItemAt(s, stage), ParseAt(s, stage),
                 ItemAt(s, stage + 1), ParseAt(s, stage + 1))
<1> DEFINE t == Token(s, stage)
           item == ItemAt(s, stage)
           field == ParseAt(s, stage)
           to1 == ItemAt(s, stage + 1)
<1>1. s.zero \in BOOLEAN /\ s.left \in BOOLEAN /\ s.width \in Nat /\ s.field \in Nat
  BY SegmentIs
<1>2. CASE stage = 2
  <2>1. s.zero = TRUE /\ t = Tok("0")
    BY <1>1, <1>2 DEF Has, Token
  <2>2. to1 = [item EXCEPT !.Pad = "0"] /\ ParseAt(s, stage + 1) = field
    BY <1>2, <2>1 DEF ItemAt, ParseAt
  <2> QED BY <2>1, <2>2 DEF Tok, Stepped
<1>3. CASE stage = 3
  <2>1. s.left = TRUE /\ t = Tok("-")
    BY <1>1, <1>3 DEF Has, Token
  <2>2. to1 = [item EXCEPT !.PadBefore = FALSE]
    <3> DEFINE pad == IF s.zero THEN "0" ELSE "sp"
    <3>0. s.left /\ stage + 1 = 4
      BY <1>3, <2>1
    <3>1. ItemAt(s, 4) = [FieldWidth |-> None, Width |-> 0, Pad |-> pad, PadBefore |-> FALSE]
      <4> DEFINE a == IF 4 > 6 /\ s.field > 0 THEN s.field ELSE None
                 b == IF 4 > 4 THEN s.width ELSE 0
                 c == IF 4 > 2 /\ s.zero THEN "0" ELSE "sp"
                 d == ~ (4 > 3 /\ s.left)
      <4>1. ItemAt(s, 4) = [FieldWidth |-> a, Width |-> b, Pad |-> c, PadBefore |-> d]
        BY DEF ItemAt
      <4>2. a = None /\ b = 0 /\ c = pad
        OBVIOUS
      <4>3. d = FALSE
        BY <3>0
      <4> HIDE DEF a, b, c, d, pad
      <4> QED BY <4>1, <4>2, <4>3
    <3>2. ItemAt(s, 3) = [FieldWidth |-> None, Width |-> 0, Pad |-> pad, PadBefore |-> TRUE]
      <4> DEFINE a == IF 3 > 6 /\ s.field > 0 THEN s.field ELSE None
                 b == IF 3 > 4 THEN s.width ELSE 0
                 c == IF 3 > 2 /\ s.zero THEN "0" ELSE "sp"
                 d == ~ (3 > 3 /\ s.left)
      <4>1. ItemAt(s, 3) = [FieldWidth |-> a, Width |-> b, Pad |-> c, PadBefore |-> d]
        BY DEF ItemAt
      <4>2. a = None /\ b = 0 /\ c = pad
        OBVIOUS
      <4>3. d = TRUE
        BY <3>0
      <4> HIDE DEF a, b, c, d, pad
      <4> QED BY <4>1, <4>2, <4>3
    <3>3. to1 = ItemAt(s, 4) /\ item = ItemAt(s, 3)
      BY <1>3, <3>0
    <3> HIDE DEF pad, to1, item
    <3> QED BY <3>1, <3>2, <3>3
  <2>3. ParseAt(s, stage + 1) = field
    BY <1>3 DEF ParseAt
  <2> QED BY <2>1, <2>2, <2>3 DEF Tok, Stepped
<1>4. CASE stage = 4
  <2>1. t = <<"w", s.width>>
    BY <1>4 DEF Token
  <2>2. field = "Width" /\ to1 = [item EXCEPT !["Width"] = s.width] /\ ParseAt(s, stage + 1) = field
    BY <1>4 DEF ItemAt, ParseAt
  <2> QED BY <2>1, <2>2 DEF Stepped
<1>5. CASE stage = 5
  <2>1. s.field > 0 /\ t = Tok(".")
    BY <1>5 DEF Has, Token
  <2>2. to1 = item /\ ParseAt(s, stage + 1) = "FieldWidth"
    BY <1>5, <2>1 DEF ItemAt, ParseAt
  <2> QED BY <2>1, <2>2 DEF Tok, Stepped
<1>6. CASE stage = 6
  <2>1. s.field > 0 /\ t = <<"w", s.field>>
    BY <1>6 DEF Has, Token
  <2>2. field = "FieldWidth" /\ to1 = [item EXCEPT !["FieldWidth"] = s.field]
        /\ ParseAt(s, stage + 1) = field
    BY <1>6, <2>1 DEF ItemAt, ParseAt
  <2> QED BY <2>1, <2>2 DEF Stepped
<1> QED BY <1>2, <1>3, <1>4, <1>5, <1>6

-----------------------------------------------------------------------------
(* Characters put                                                          *)

(* What was sent and what comes next, when the buffer is handed over.      *)
LEMMA FlushSoFar ==
  ASSUME EfiPrintAssumption, PrintType, SoFar, Meant \in Seq(Chars \X Nat), Written <= Len(Meant),
         PFLUSH(Buffer),
         UNCHANGED <<to, segs, fmt, Written>>, todo' = << >>
  PROVE  SoFar'
<1> DEFINE f == Written - Len(Buffer)
<1>1. Buffer \in Seq(Chars) /\ Len(Buffer) \in Nat /\ Written \in Nat /\ Len(Buffer) <= Written
  <2>1. Buffer \in Seq(Chars) /\ Written \in Nat /\ Len(Buffer) <= Written
    BY DEF PrintType, SoFar
  <2> HIDE DEF Chars
  <2> QED BY <2>1
<1>2. f \in Nat /\ f + Len(Buffer) = Written
  BY <1>1
<1>3. Sent(f) /\ Ahead(f, Buffer)
  BY DEF SoFar
<1> HIDE DEF f
<1>4. PICK text, g : text = Buffer /\ g = f
  OBVIOUS
<1>5. text \in Seq(Chars) /\ g \in Nat /\ Output(text) /\ Sent(g) /\ g + Len(text) <= Len(Meant)
      /\ Ahead(g, text)
  BY <1>1, <1>2, <1>3, <1>4 DEF PFLUSH
<1>6. Sent(g + Len(text))'
  BY <1>5, Handed
<1>7. Buffer' = << >> /\ Written' = Written
  BY DEF PFLUSH
<1>8. Len(Buffer') = 0 /\ Written' - Len(Buffer') = g + Len(text)
  BY <1>1, <1>2, <1>4, <1>7
<1> DEFINE h == g + Len(text)
<1> HIDE DEF h
<1>9. Sent(h)' /\ h = Written' - Len(Buffer')
  BY <1>6, <1>8 DEF h
<1>10. Sent(Written - Len(Buffer))'
  BY <1>9 DEF Sent
<1>11. Ahead(Written - Len(Buffer), Buffer)' /\ Ahead(Written, todo)'
  <2>1. Len(<< >>) = 0 /\ 1 .. 0 = {}
    OBVIOUS
  <2> QED BY <1>7, <2>1 DEF Ahead
<1>12. Len(Buffer') <= Written'
  BY <1>1, <1>7, <1>8
<1> QED BY <1>10, <1>11, <1>12 DEF SoFar

(* When nothing is handed over.                                            *)
LEMMA SameSoFar ==
  ASSUME SoFar, UNCHANGED <<Buffer, Written, dest, len, to, segs, fmt>>, Ahead(Written, todo)',
         Attr' = Attr \/ Buffer = << >>
  PROVE  SoFar'
<1>1. UNCHANGED <<Meant, Glyphs, OnConsole>>
  BY SameFormat
<1>2. Sent(Written - Len(Buffer))'
  BY <1>1 DEF SoFar, Sent, dest
<1>3. Ahead(Written - Len(Buffer), Buffer)'
  <2>1. CASE Attr' = Attr
    BY <1>1, <2>1 DEF SoFar, Ahead
  <2>2. CASE Buffer = << >>
    <3>1. Len(<< >>) = 0 /\ 1 .. 0 = {}
      OBVIOUS
    <3> QED BY <2>2, <3>1 DEF Ahead
  <2> QED BY <2>1, <2>2
<1> QED BY <1>2, <1>3 DEF SoFar

(* A character more in the buffer.                                         *)
LEMMA PutSoFar ==
  ASSUME EfiPrintAssumption, PrintType, SoFar, Meant \in Seq(Chars \X Nat),
         Written + Len(todo) <= Len(Meant), PPUTC
  PROVE  SoFar'
<1> DEFINE text0 == Append(Buffer, Head(todo))
           f == Written - Len(Buffer)
<1>1. /\ Buffer \in Seq(Chars) /\ Len(Buffer) \in Nat /\ Written \in Nat /\ Len(Buffer) <= Written
      /\ todo \in Seq(Chars) /\ Len(todo) \in Nat
  <2>1. Buffer \in Seq(Chars) /\ Written \in Nat /\ Len(Buffer) <= Written /\ todo \in Seq(Chars)
    BY DEF PrintType, SoFar
  <2> HIDE DEF Chars
  <2> QED BY <2>1
<1>2. todo # << >> /\ todo' = Tail(todo) /\ Written' = Written + 1
      /\ UNCHANGED <<to, segs, fmt, Attr>>
  BY DEF PPUTC, attr
<1>3. /\ Head(todo) = todo[1] /\ Len(todo) >= 1 /\ Len(todo') = Len(todo) - 1 /\ todo[1] \in Chars
      /\ \A j \in 1 .. Len(todo) - 1 : todo'[j] = todo[j + 1]
  <2> HIDE DEF Chars
  <2> QED BY <1>1, <1>2
<1>4. text0 \in Seq(Chars) /\ Len(text0) = Len(Buffer) + 1 /\ text0[Len(Buffer) + 1] = todo[1]
      /\ \A j \in 1 .. Len(Buffer) : text0[j] = Buffer[j]
  <2> HIDE DEF Chars
  <2> QED BY <1>1, <1>3
<1>5. f \in Nat /\ f + Len(Buffer) = Written /\ f + Len(text0) = Written + 1
  BY <1>1, <1>4
<1>6. Sent(f) /\ Ahead(f, Buffer) /\ Ahead(Written, todo)
  BY DEF SoFar
<1>7. \/ Output(text0) /\ Buffer' = << >>
      \/ Buffer' = text0 /\ UNCHANGED <<dest, len>>
  BY DEF PPUTC, PFLUSH
<1> HIDE DEF f, text0
<1>8. Ahead(f, text0)
  <2> SUFFICES ASSUME NEW j \in 1 .. Len(text0)
               PROVE  Meant[f + j][1] = text0[j] /\ (OnConsole => Meant[f + j][2] = Attr)
    BY DEF Ahead
  <2>1. CASE j \in 1 .. Len(Buffer)
    BY <1>4, <1>6, <2>1 DEF Ahead
  <2>2. CASE j \notin 1 .. Len(Buffer)
    <3>1. j = Len(Buffer) + 1 /\ f + j = Written + 1 /\ 1 \in 1 .. Len(todo)
      <4>1. j \in 1 .. Len(Buffer) + 1 /\ j \notin 1 .. Len(Buffer)
        BY <1>4, <2>2
      <4>2. j = Len(Buffer) + 1
        BY <1>1, <4>1
      <4>3. 1 \in 1 .. Len(todo)
        BY <1>1, <1>3
      <4>4. f + j = Written + 1
        <5>1. f \in Nat /\ Len(Buffer) \in Nat /\ f + Len(Buffer) = Written /\ j = Len(Buffer) + 1
          BY <1>1, <1>5, <4>2
        <5> QED BY <5>1
      <4> QED BY <4>2, <4>3, <4>4
    <3>2. Meant[Written + 1][1] = todo[1] /\ (OnConsole => Meant[Written + 1][2] = Attr)
      BY <1>6, <3>1 DEF Ahead
    <3> QED BY <1>4, <3>1, <3>2
  <2> QED BY <2>1, <2>2
<1>9. UNCHANGED <<Meant, Glyphs, OnConsole>>
  BY <1>2, SameFormat
<1>10. Ahead(Written, todo)'
  <2> SUFFICES ASSUME NEW j \in 1 .. Len(todo')
               PROVE  Meant[Written' + j][1] = todo'[j]
                      /\ (OnConsole => Meant[Written' + j][2] = Attr)
    BY <1>2, <1>9 DEF Ahead
  <2>1. j + 1 \in 1 .. Len(todo) /\ Written' + j = Written + (j + 1) /\ todo'[j] = todo[j + 1]
    BY <1>1, <1>2, <1>3
  <2> QED BY <1>6, <2>1 DEF Ahead
<1>11. CASE Output(text0) /\ Buffer' = << >>
  <2>1. PICK text, g : text = text0 /\ g = f
    OBVIOUS
  <2>2. text \in Seq(Chars) /\ g \in Nat /\ Output(text) /\ Sent(g) /\ g + Len(text) <= Len(Meant)
        /\ Ahead(g, text)
    BY <1>1, <1>3, <1>4, <1>5, <1>6, <1>8, <1>11, <2>1
  <2>3. Sent(g + Len(text))'
    BY <1>2, <2>2, Handed
  <2>4. Len(Buffer') = 0 /\ Written' - Len(Buffer') = g + Len(text)
    BY <1>1, <1>2, <1>5, <1>11, <2>1
  <2> DEFINE h == g + Len(text)
  <2> HIDE DEF h
  <2>5. Sent(h)' /\ h = Written' - Len(Buffer')
    BY <2>3, <2>4 DEF h
  <2>6. Sent(Written - Len(Buffer))'
    BY <2>5 DEF Sent
  <2>7. Ahead(Written - Len(Buffer), Buffer)'
    <3>1. Len(<< >>) = 0 /\ 1 .. 0 = {}
      OBVIOUS
    <3> QED BY <1>11, <3>1 DEF Ahead
  <2>8. Len(Buffer') <= Written'
    BY <1>1, <1>2, <2>4
  <2> QED BY <1>10, <2>6, <2>7, <2>8 DEF SoFar
<1>12. CASE Buffer' = text0 /\ UNCHANGED <<dest, len>>
  <2>1. Written' - Len(Buffer') = f /\ Len(Buffer') <= Written'
    <3>1. Len(Buffer') = Len(text0) /\ Len(text0) = Len(Buffer) + 1 /\ Written' = Written + 1
      BY <1>2, <1>4, <1>12
    <3> QED BY <1>1, <1>5, <3>1
  <2>2. Sent(Written - Len(Buffer))'
    BY <1>6, <1>9, <1>12, <1>2, <2>1 DEF Sent, dest
  <2>3. Ahead(Written - Len(Buffer), Buffer)'
    BY <1>2, <1>8, <1>9, <1>12, <2>1 DEF Ahead
  <2> QED BY <1>10, <2>1, <2>2, <2>3 DEF SoFar
<1> QED BY <1>7, <1>11, <1>12

(* The next segment's characters are what is meant next.                   *)
LEMMA SegmentNext ==
  ASSUME NEW po, NEW mo, Mapped(po, mo), NEW i \in 1 .. Len(segs), Written = mo[i - 1],
         OnConsole => Attr = AttrIn(i),
         todo' = Plain(segs[i]), UNCHANGED <<to, segs, fmt, Written, Attr>>
  PROVE  Ahead(Written, todo)' /\ Written' + Len(todo') = mo[i]
<1>1. /\ \A k \in 1 .. Len(Plain(segs[i])) : Meant[mo[i - 1] + k] = <<Plain(segs[i])[k], AttrIn(i)>>
      /\ mo[i] = mo[i - 1] + Len(Plain(segs[i]))
  BY DEF Mapped
<1>2. UNCHANGED <<Meant, OnConsole>>
  BY SameFormat
<1>3. Ahead(Written, todo)'
  <2> SUFFICES ASSUME NEW j \in 1 .. Len(todo')
               PROVE  Meant[Written + j][1] = todo'[j]
                      /\ (OnConsole => Meant[Written + j][2] = Attr)
    BY <1>2 DEF Ahead
  <2>1. Meant[Written + j] = <<todo'[j], AttrIn(i)>>
    BY <1>1
  <2> QED BY <2>1
<1> QED BY <1>1, <1>3

-----------------------------------------------------------------------------
(* The actions                                                             *)

(* A format being printed, as its author meant it.                         *)
Going(po, mo) ==
  /\ PrintType /\ mode # "idle" /\ Good /\ SoFar /\ Layout(po, mo) /\ Located(po, mo)

(* What is known while a format is printed.                                *)
LEMMA GoingHas ==
  ASSUME EfiPrintAssumption, NEW po, NEW mo, Going(po, mo)
  PROVE  /\ Mapped(po, mo) /\ segs \in Seq(Segments) /\ Meant \in Seq(Chars \X Nat)
         /\ fmt = AllTokens(segs) /\ Len(fmt) = po[Len(segs)] /\ Len(Meant) = mo[Len(segs)]
         /\ Len(todo) \in Nat /\ Written \in Nat /\ Len(segs) \in Nat
<1>1. segs \in Seq(Segments) /\ todo \in Seq(Chars) /\ Written \in Nat
  BY DEF Going, PrintType
<1>2. Len(todo) \in Nat /\ Len(segs) \in Nat
  <2> HIDE DEF Chars
  <2> QED BY <1>1
<1>3. Mapped(po, mo) /\ Meant \in Seq(Chars \X Nat)
  BY <1>1, MappedBy, FormatIs DEF Going
<1>4. fmt = AllTokens(segs)
  BY DEF Going, Good, Whole
<1> QED BY <1>1, <1>2, <1>3, <1>4 DEF Mapped

(* No more is written than is meant.                                       *)
LEMMA GoingWithin ==
  ASSUME EfiPrintAssumption, NEW po, NEW mo, Going(po, mo)
  PROVE  Written + Len(todo) <= Len(Meant)
<1> DEFINE n == Len(segs)
<1>1. n \in Nat /\ Len(Meant) = mo[n] /\ \A i \in 0 .. n : mo[i] \in Nat /\ mo[i] <= mo[n]
  BY GoingHas DEF Mapped
<1>2. Len(todo) \in Nat /\ Written \in Nat
  BY GoingHas
<1>3. Located(po, mo) /\ mode \in {"text", "item", "put", "done"}
  BY DEF Going, PrintType, Located
<1>4. Len(<< >>) = 0
  OBVIOUS
<1> HIDE DEF n
<1>5. CASE mode = "text"
  <2>1. \E i \in 0 .. n : Written + Len(todo) = mo[i]
    BY <1>3, <1>5 DEF Located, InText, n
  <2> QED BY <1>1, <2>1
<1>6. CASE mode = "item"
  <2>1. todo = << >> /\ \E i \in 1 .. n : Written = mo[i - 1]
    BY <1>3, <1>6 DEF Located, InItem, n
  <2>2. \E i \in 0 .. n : Written = mo[i]
    <3>1. \A i \in 1 .. n : i - 1 \in 0 .. n
      BY <1>1
    <3> QED BY <2>1, <3>1
  <2> QED BY <1>1, <1>2, <1>4, <2>1, <2>2
<1>7. CASE mode = "put"
  <2>1. \E i \in 1 .. n : Written + Len(todo) = mo[i]
    BY <1>3, <1>7 DEF Located, InPut, n
  <2>2. \A i \in 1 .. n : i \in 0 .. n
    BY <1>1
  <2> QED BY <1>1, <2>1, <2>2
<1>8. CASE mode = "done"
  <2>1. todo = << >> /\ Written = Len(Meant)
    BY <1>3, <1>8 DEF Located, InDone
  <2> QED BY <1>1, <1>2, <1>4, <2>1
<1> QED BY <1>3, <1>5, <1>6, <1>7, <1>8

(* A character is put and the place in the format stays the same.          *)
LEMMA PutMeans ==
  ASSUME EfiPrintAssumption, NEW po, NEW mo, Going(po, mo), PPUTC
  PROVE  SoFar' /\ Located(po, mo)'
<1>1. SoFar'
  BY GoingHas, GoingWithin, PutSoFar DEF Going
<1>2. UNCHANGED <<to, segs, fmt, Index, mode, Attr, RestoreAttr>>
      /\ todo # << >> /\ todo' = Tail(todo) /\ Written' = Written + 1
  BY DEF PPUTC, attr
<1>3. Written' + Len(todo') = Written + Len(todo)
  <2>1. todo \in Seq(Chars) /\ Written \in Nat
    BY DEF Going, PrintType
  <2> HIDE DEF Chars
  <2>2. Len(todo) \in Nat /\ Len(todo') = Len(todo) - 1
    BY <1>2, <2>1
  <2> QED BY <1>2, <2>1, <2>2
<1>4. mode \in {"text", "put"} /\ Located(po, mo)
  <2>1. mode \in {"text", "item", "put", "done"} /\ Located(po, mo)
    BY DEF Going, PrintType, Located
  <2>2. mode # "item" /\ mode # "done"
    BY <1>2, <2>1 DEF Located, InItem, InDone
  <2> QED BY <2>1, <2>2
<1>5. /\ UNCHANGED OnConsole
      /\ \A i :
           AttrBefore(i)' = AttrBefore(i) /\ AttrIn(i)' = AttrIn(i) /\ AfterAttr(i)' = AfterAttr(i)
  BY <1>2, SameFormat
<1>6. CASE mode = "text"
  <2>1. InText(po, mo)
    BY <1>4, <1>6 DEF Located
  <2>2. InText(po, mo)'
    BY <1>2, <1>3, <1>5, <2>1 DEF InText
  <2>3. mode' = "text"
    BY <1>2, <1>6
  <2> QED BY <1>1, <2>2, <2>3 DEF Located
<1>7. CASE mode = "put"
  <2>1. InPut(po, mo)
    BY <1>4, <1>7 DEF Located
  <2>2. InPut(po, mo)'
    BY <1>2, <1>3, <1>5, <2>1 DEF InPut
  <2>3. mode' = "put"
    BY <1>2, <1>7
  <2> QED BY <1>1, <2>2, <2>3 DEF Located
<1> QED BY <1>1, <1>4, <1>6, <1>7

(* A new item is at its first stage.                                       *)
LEMMA FirstStage ==
  ASSUME NEW s
  PROVE  Pos(s, 1) = 2 /\ ItemAt(s, 1) = NewItem /\ ParseAt(s, 1) = "Width"
<1> DEFINE a == IF 1 > 6 /\ s.field > 0 THEN s.field ELSE None
           b == IF 1 > 4 THEN s.width ELSE 0
           c == IF 1 > 2 /\ s.zero THEN "0" ELSE "sp"
           d == ~ (1 > 3 /\ s.left)
           c1 == s.attr # ""
           c4 == s.width > 0
           c5 == s.field > 0
<1>1. ItemAt(s, 1) = [FieldWidth |-> a, Width |-> b, Pad |-> c, PadBefore |-> d]
  BY DEF ItemAt
<1>2. a = None /\ b = 0 /\ c = "sp"
  OBVIOUS
<1>3. d = TRUE
  OBVIOUS
<1>4. Pos(s, 1) = 2
  <2>1. Pos(s, 1) = 2 + (IF 1 > 1 THEN One(c1) ELSE 0) + (IF 1 > 2 THEN One(s.zero) ELSE 0)
          + (IF 1 > 3 THEN One(s.left) ELSE 0) + (IF 1 > 4 THEN One(c4) ELSE 0)
          + (IF 1 > 5 THEN One(c5) ELSE 0) + (IF 1 > 6 THEN One(c5) ELSE 0)
    BY DEF Pos
  <2> HIDE DEF c1, c4, c5
  <2> QED BY <2>1
<1>5. ParseAt(s, 1) = "Width"
  BY DEF ParseAt
<1> HIDE DEF a, b, c, d
<1>6. ItemAt(s, 1) = NewItem
  BY <1>1, <1>2, <1>3 DEF NewItem
<1> QED BY <1>4, <1>5, <1>6

(* The next segment begins.                                                *)
LEMMA TextMeans ==
  ASSUME EfiPrintAssumption, NEW po, NEW mo, Going(po, mo), Text
  PROVE  SoFar' /\ Located(po, mo)'
<1>1. /\ Index \in 1 .. Len(fmt) /\ Index' = Index + 1 /\ todo = << >>
      /\ UNCHANGED <<to, segs, fmt>>
      /\ mode = "text" /\ Quiet
      /\ IF fmt[Index][1] = "%"
         THEN mode' = "item" /\ Item' = NewItem /\ parse' = "Width" /\ RestoreAttr' = 0
         /\ UNCHANGED todo
         ELSE todo' = WithReturns(<<fmt[Index][1]>>) /\ UNCHANGED <<mode, Item, parse, RestoreAttr>>
  BY ReadIs DEF Text, Going
<1>2. UNCHANGED <<Attr, Buffer, Written, dest, len>>
  BY <1>1 DEF Quiet
<1>3. /\ UNCHANGED OnConsole
      /\ \A i :
           AttrBefore(i)' = AttrBefore(i) /\ AttrIn(i)' = AttrIn(i) /\ AfterAttr(i)' = AfterAttr(i)
  BY <1>1, SameFormat
<1> DEFINE n == Len(segs)
<1>4. InText(po, mo) /\ SoFar /\ Mapped(po, mo)
  BY <1>1, GoingHas DEF Going, Located
<1>5. PICK j \in 0 .. n : Index = po[j] + 1 /\ Written + Len(todo) = mo[j]
           /\ (OnConsole => Attr = AttrBefore(j + 1))
  BY <1>4 DEF InText
<1>6. n \in Nat /\ Len(fmt) = po[n] /\ po[j] \in Nat /\ po[n] \in Nat /\ Written \in Nat
      /\ mo[j] \in Nat
  BY <1>4, GoingHas DEF Mapped
<1>7. j # n /\ Written = mo[j]
  <2>1. Len(todo) = 0
    BY <1>1
  <2> HIDE DEF n
  <2> QED BY <1>1, <1>5, <1>6, <2>1
<1> DEFINE i == j + 1
           s == segs[i]
<1>8. i \in 1 .. n /\ i - 1 = j
  BY <1>6, <1>7
<1>9. /\ s \in Segments /\ po[i] = po[i - 1] + Len(Tokens(s)) /\ mo[i] = mo[i - 1] + Len(Plain(s))
      /\ \A k \in 1 .. Len(Tokens(s)) : fmt[po[i - 1] + k] = Tokens(s)[k]
      /\ po[i] \in Nat
  BY <1>4, <1>8, GoingHas DEF Mapped
<1>10. i = j + 1
  OBVIOUS
<1> HIDE DEF i
<1>11. fmt[Index] = Tokens(s)[1] /\ Len(Tokens(s)) \in Nat /\ Len(Tokens(s)) > 0
  <2>1. Len(Tokens(s)) \in Nat /\ Len(Tokens(s)) > 0
    BY <1>9, TokensAre
  <2>2. 1 \in 1 .. Len(Tokens(s)) /\ Index = po[i - 1] + 1
    BY <1>5, <1>8, <2>1
  <2> QED BY <1>9, <2>1, <2>2
<1>12. CASE s.kind = "char"
  <2>1. Tokens(s)[1] = Tok(s.c) /\ Len(Tokens(s)) = 1 /\ s.c \in {"x", "nl"}
    BY <1>9, <1>12, TokensAre, SegmentIs
  <2>2. fmt[Index][1] = s.c /\ fmt[Index][1] # "%"
    BY <1>11, <2>1 DEF Tok
  <2>3. Plain(s) = WithReturns(<<s.c>>)
    BY <1>12 DEF Plain
  <2>4. todo' = Plain(s) /\ UNCHANGED <<mode, Item, parse, RestoreAttr>>
    BY <1>1, <2>2, <2>3
  <2>5. AttrIn(i) = AttrBefore(i) /\ AttrBefore(i + 1) = AttrBefore(i)
    <3>1. s.kind # "item" /\ s.kind # "attr"
      BY <1>12
    <3>2. AttrIn(i) = AttrBefore(i)
      BY Zenon, <3>1 DEF AttrIn
    <3> QED BY <1>8, <3>1, <3>2, GoingHas, AttrIs
  <2>6. Ahead(Written, todo)' /\ Written' + Len(todo') = mo[i]
    <3>1. Written = mo[i - 1] /\ (OnConsole => Attr = AttrIn(i))
          /\ UNCHANGED <<to, segs, fmt, Written, Attr>>
      BY <1>1, <1>2, <1>5, <1>7, <1>8, <1>10, <2>5
    <3> QED BY <1>4, <1>8, <2>4, <3>1, SegmentNext
  <2>7. SoFar'
    BY <1>1, <1>2, <1>4, <2>6, SameSoFar
  <2>8. InText(po, mo)'
    <3>1. Index' = po[i] + 1 /\ i \in 0 .. Len(segs')
      BY <1>1, <1>5, <1>6, <1>8, <1>9, <2>1
    <3>2. OnConsole' => Attr' = AttrBefore(i + 1)'
      BY <1>2, <1>3, <1>5, <1>10, <2>5
    <3> QED BY <2>6, <3>1, <3>2 DEF InText
  <2> QED BY <1>1, <2>4, <2>7, <2>8 DEF Located
<1>13. ASSUME s.kind # "char" PROVE fmt[Index][1] = "%" /\ s.kind \in {"attr", "item"}
  <2>1. s.kind \in {"attr", "item"}
    BY <1>9, <1>13, SegmentIs
  <2>2. Tokens(s)[1] = Tok("%")
    BY <1>9, <2>1, TokensAre, ItemTokens
  <2> QED BY <1>11, <2>1, <2>2 DEF Tok
<1>14. ASSUME s.kind # "char"
       PROVE SoFar' /\ mode' = "item" /\ (Reading(po, i)' => Located(po, mo)')
  <2>1. mode' = "item" /\ todo' = << >>
    BY <1>1, <1>13, <1>14
  <2>2. Ahead(Written, todo)'
    <3>1. Len(<< >>) = 0 /\ 1 .. 0 = {}
      OBVIOUS
    <3> QED BY <2>1, <3>1 DEF Ahead
  <2>3. SoFar'
    BY <1>1, <1>2, <1>4, <2>2, SameSoFar
  <2>4. Written' = mo[i - 1] /\ i \in 1 .. Len(segs')
    BY <1>1, <1>2, <1>7, <1>8
  <2>5. Reading(po, i)' => Located(po, mo)'
    BY <2>1, <2>4 DEF Located, InItem
  <2> QED BY <2>1, <2>3, <2>5
<1>15. CASE s.kind = "attr"
  <2>1. Index' = po[i - 1] + 2
    <3>1. Index' = Index + 1 /\ Index = po[i - 1] + 1 /\ po[i - 1] \in Nat
      BY <1>1, <1>5, <1>6, <1>8
    <3> QED BY <3>1
  <2>2. OnConsole' => Attr' = AttrBefore(i)'
    BY <1>2, <1>3, <1>5, <1>10
  <2>3. Reading(po, i)'
    BY <1>1, <1>15, <2>1, <2>2 DEF Reading
  <2> QED BY <1>14, <1>15, <2>3
<1>16. CASE s.kind = "item"
  <2>1. Pos(s, 1) = 2 /\ ItemAt(s, 1) = NewItem /\ ParseAt(s, 1) = "Width"
    BY FirstStage
  <2>2. Index' = po[i - 1] + Pos(s, 1)
    <3>1. Index' = Index + 1 /\ Index = po[i - 1] + 1 /\ po[i - 1] \in Nat
      BY <1>1, <1>5, <1>6, <1>8
    <3>2. Index' = po[i - 1] + 2
      BY <3>1
    <3> QED BY <2>1, <3>2
  <2>3. OnConsole' => Attr' = AttrBefore(i)' /\ RestoreAttr' = 0
    BY <1>1, <1>2, <1>3, <1>5, <1>10, <1>13, <1>16
  <2>4. Item' = ItemAt(s, 1) /\ parse' = ParseAt(s, 1) /\ segs' = segs
    BY <1>1, <1>13, <1>16, <2>1
  <2>5. At(po[i - 1], i, 1)'
    BY <2>2, <2>3, <2>4 DEF At
  <2>6. 1 \in 1 .. 7
    OBVIOUS
  <2>7. Reading(po, i)'
    BY <1>16, <2>4, <2>5, <2>6 DEF Reading
  <2> QED BY <1>14, <1>16, <2>7
<1> QED BY <1>12, <1>13, <1>15, <1>16

(* Where in an item, and with what next.                                   *)
AtColour(po, i) ==
  /\ segs[i].kind = "attr" /\ segs[i].c \in {"N", "H"}
  /\ Index = po[i - 1] + 2 /\ Index = po[i] /\ fmt[Index] = Tok(segs[i].c)
AtStage(po, i, stage) ==
  /\ segs[i].kind = "item" /\ At(po[i - 1], i, stage) /\ Has(segs[i], stage)
  /\ fmt[Index] = Token(segs[i], stage)
  /\ Pos(segs[i], stage) \in Nat /\ po[i - 1] \in Nat /\ po[i] = po[i - 1] + Pos(segs[i], 7)

(* While an item is read, the format stands at an attribute or at a stage. *)
LEMMA ItemPlace ==
  ASSUME EfiPrintAssumption, NEW po, NEW mo, Going(po, mo), mode = "item"
  PROVE  /\ todo = << >> /\ Index <= Len(fmt)
         /\ \E i \in 1 .. Len(segs) :
              /\ Written = mo[i - 1] /\ segs[i] \in Segments
              /\ AtColour(po, i) \/ \E stage \in 1 .. 7 : AtStage(po, i, stage)
<1>1. InItem(po, mo) /\ Mapped(po, mo) /\ segs \in Seq(Segments)
  BY GoingHas DEF Going, Located
<1>2. PICK i \in 1 .. Len(segs) : Written = mo[i - 1] /\ Reading(po, i)
  BY <1>1 DEF InItem
<1> DEFINE s == segs[i]
           n == Len(segs)
<1>3. /\ s \in Segments /\ po[i - 1] \in Nat /\ po[i] \in Nat /\ po[i] <= Len(fmt)
      /\ Len(fmt) \in Nat
      /\ po[i] = po[i - 1] + Len(Tokens(s))
      /\ \A k \in 1 .. Len(Tokens(s)) : fmt[po[i - 1] + k] = Tokens(s)[k]
  <2>1. Mapped(po, mo) /\ fmt = AllTokens(segs) /\ Len(fmt) = po[n]
    BY GoingHas
  <2>2. n \in Nat /\ n \in 0 .. n /\ i - 1 \in 0 .. n /\ i \in 0 .. n
    BY <2>1 DEF Mapped
  <2> QED BY <2>1, <2>2 DEF Mapped
<1>4. todo = << >>
  BY <1>1 DEF InItem
<1>5. CASE s.kind = "attr" /\ Index = po[i - 1] + 2
  <2>1. Len(Tokens(s)) = 2 /\ Tokens(s)[2] = Tok(s.c) /\ s.c \in {"N", "H"}
    BY <1>3, <1>5, TokensAre, SegmentIs
  <2>2. 2 \in 1 .. Len(Tokens(s)) /\ Index = po[i]
    BY <1>3, <1>5, <2>1
  <2>3. fmt[Index] = Tok(s.c)
    BY <1>3, <1>5, <2>1, <2>2
  <2>4. AtColour(po, i)
    BY <1>5, <2>1, <2>2, <2>3 DEF AtColour
  <2>5. Index <= Len(fmt)
    BY <1>3, <2>2
  <2> QED BY <1>2, <1>3, <1>4, <2>4, <2>5
<1>6. CASE s.kind = "item" /\ \E stage \in 1 .. 7 : At(po[i - 1], i, stage)
  <2>1. PICK stage \in 1 .. 7 : At(po[i - 1], i, stage) /\ Has(s, stage)
    BY <1>1, <1>3, <1>6, Settle
  <2>2. /\ Len(Tokens(s)) = Pos(s, 7) /\ Pos(s, stage) \in 2 .. Pos(s, 7)
        /\ Tokens(s)[Pos(s, stage)] = Token(s, stage)
    BY <1>3, <1>6, <2>1, ItemTokens
  <2>3. Pos(s, 7) \in 2 .. Pos(s, 7)
    <3>1. 7 \in 1 .. 7
      OBVIOUS
    <3> QED BY <1>3, <1>6, <3>1, ItemTokens
  <2>4. Pos(s, stage) \in 1 .. Len(Tokens(s)) /\ Pos(s, stage) \in Nat /\ Pos(s, 7) \in Int
    BY <2>2, <2>3
  <2>5. Index = po[i - 1] + Pos(s, stage)
    BY <2>1 DEF At
  <2>6. fmt[Index] = Token(s, stage)
    <3>1. fmt[po[i - 1] + Pos(s, stage)] = Tokens(s)[Pos(s, stage)]
      BY <1>3, <2>4
    <3> QED BY <2>2, <2>5, <3>1
  <2>7. AtStage(po, i, stage)
    BY <1>3, <1>6, <2>1, <2>2, <2>4, <2>6 DEF AtStage
  <2>8. Index <= Len(fmt)
    BY <1>3, <2>2, <2>4, <2>5
  <2> QED BY <1>2, <1>3, <1>4, <2>7, <2>8
<1> QED BY <1>2, <1>5, <1>6 DEF Reading

(* The first letters of the tokens of a stage.                             *)
Lettered(s, stage) ==
  /\ Token(s, stage)[1] \in {"0", "-", ".", "w"} <=> stage \in 2 .. 6
  /\ Token(s, stage)[1] \in {"n", "h"} =>
       stage = 1 /\ Token(s, stage)[1] = s.attr /\ s.attr # ""
  /\ Token(s, stage)[1] \in {"s", "x", "nl", "%"} =>
       stage = 7 /\ Token(s, stage) = <<"s", s.text>>
  /\ Token(s, stage)[1] \notin {"N", "H"}

(* Which letters there are at which stage,                                 *)
LEMMA StageLetters ==
  ASSUME EfiPrintAssumption, NEW s \in Segments, s.kind = "item", NEW stage \in 1 .. 7,
         Has(s, stage)
  PROVE  /\ Token(s, stage)[1] \in {"0", "-", ".", "w"} <=> stage \in 2 .. 6
         /\ Token(s, stage)[1] \in {"n", "h"} =>
              stage = 1 /\ Token(s, stage)[1] = s.attr /\ s.attr # ""
         /\ Token(s, stage)[1] \in {"s", "x", "nl", "%"} =>
              stage = 7 /\ Token(s, stage) = <<"s", s.text>>
         /\ Token(s, stage)[1] \notin {"N", "H"}
<1>1. stage \in {1, 2, 3, 4, 5, 6, 7}
  OBVIOUS
<1>2. CASE stage = 1
  <2>1. Token(s, stage)[1] = s.attr
    <3>1. Token(s, stage) = Tok(s.attr)
      BY <1>2 DEF Token
    <3> QED BY <3>1 DEF Tok
  <2>2. s.attr # ""
    BY <1>2, HasIs
  <2>3. s.attr \in {"", "n", "h"}
    BY SegmentIs
  <2>4. s.attr \in {"n", "h"}
    BY <2>2, <2>3
  <2>5. s.attr \notin {"0", "-", ".", "w"} /\ s.attr \notin {"s", "x", "nl", "%"}
        /\ s.attr \notin {"N", "H"}
        /\ stage \notin 2 .. 6
    BY <1>2, <2>4
  <2> QED BY Zenon, <1>2, <2>1, <2>2, <2>5
<1>3. CASE stage \in {2, 3, 4, 5, 6}
  <2>1. Token(s, stage)[1] \in {"0", "-", ".", "w"}
    <3>1. CASE stage = 2
      BY <3>1 DEF Token, Tok
    <3>2. CASE stage = 3
      BY <3>2 DEF Token, Tok
    <3>3. CASE stage = 4
      BY <3>3 DEF Token
    <3>4. CASE stage = 5
      BY <3>4 DEF Token, Tok
    <3>5. CASE stage = 6
      BY <3>5 DEF Token
    <3> QED BY <1>3, <3>1, <3>2, <3>3, <3>4, <3>5
  <2>2. Token(s, stage)[1] \notin {"n", "h"} /\ Token(s, stage)[1] \notin {"s", "x", "nl", "%"}
        /\ Token(s, stage)[1] \notin {"N", "H"} /\ stage \in 2 .. 6
    BY <1>3, <2>1
  <2> QED BY Zenon, <2>1, <2>2
<1>4. CASE stage = 7
  <2>1. Token(s, stage) = <<"s", s.text>>
    BY <1>4 DEF Token
  <2>2. Token(s, stage)[1] = "s" /\ stage \notin 2 .. 6
    BY <1>4, <2>1
  <2>3. "s" \notin {"0", "-", ".", "w"} /\ "s" \notin {"n", "h"} /\ "s" \notin {"N", "H"}
    OBVIOUS
  <2> QED BY Zenon, <1>4, <2>1, <2>2, <2>3
<1> QED BY Zenon, <1>1, <1>2, <1>3, <1>4

(* in one word.                                                            *)
LEMMA StageLetter ==
  ASSUME EfiPrintAssumption, NEW s \in Segments, s.kind = "item", NEW stage \in 1 .. 7,
         Has(s, stage)
  PROVE  Lettered(s, stage)
BY StageLetters, Zenon DEF Lettered

(* An item read further stays in its segment.                              *)
LEMMA StillInItem ==
  ASSUME NEW po, NEW mo, NEW i \in 1 .. Len(segs), segs' = segs, mode' = "item", todo' = << >>,
         Written' = mo[i - 1], NEW stage \in 1 .. 7, segs[i].kind = "item", At(po[i - 1], i, stage)'
  PROVE  Located(po, mo)'
<1>1. i \in 1 .. Len(segs') /\ segs'[i].kind = "item"
  OBVIOUS
<1>2. Reading(po, i)'
  BY <1>1 DEF Reading
<1>3. InItem(po, mo)'
  BY <1>1, <1>2 DEF InItem
<1> QED BY <1>3 DEF Located

(* Every action keeps to what is meant: flags and widths,                  *)
LEMMA FlagMeans ==
  ASSUME EfiPrintAssumption, NEW po, NEW mo, Going(po, mo), Flag
  PROVE  SoFar' /\ Located(po, mo)'
<1> DEFINE t == fmt[Index]
<1>1. /\ Index' = Index + 1 /\ todo = << >> /\ UNCHANGED <<to, segs, fmt>>
      /\ t[1] \in {"0", "-", ".", "w"}
      /\ mode = "item" /\ Quiet /\ UNCHANGED <<mode, todo, RestoreAttr>>
      /\ parse' = IF t[1] = "." THEN "FieldWidth" ELSE parse
      /\ Item' = CASE t[1] = "0" -> [Item EXCEPT !.Pad = "0"]
                   [] t[1] = "-" -> [Item EXCEPT !.PadBefore = FALSE]
                   [] t[1] = "." -> Item
                   [] t[1] = "w" -> [Item EXCEPT ![parse] = t[2]]
  BY ReadIs DEF Flag, Going
<1>2. UNCHANGED <<Attr, Buffer, Written, dest, len>>
  BY <1>1 DEF Quiet
<1>3. PICK i \in 1 .. Len(segs) :
        /\ Written = mo[i - 1] /\ segs[i] \in Segments
        /\ AtColour(po, i) \/ \E stage \in 1 .. 7 : AtStage(po, i, stage)
  BY <1>1, ItemPlace
<1> DEFINE s == segs[i]
<1>4. ~ AtColour(po, i)
  BY <1>1 DEF AtColour, Tok
<1>5. PICK stage \in 1 .. 7 : AtStage(po, i, stage)
  BY <1>3, <1>4
<1>6. s.kind = "item" /\ At(po[i - 1], i, stage) /\ Has(s, stage) /\ t = Token(s, stage)
      /\ Pos(s, stage) \in Nat /\ po[i - 1] \in Nat
  BY <1>5 DEF AtStage
<1>7. stage \in 2 .. 6 /\ stage \in 1 .. 6 /\ stage # 1 /\ stage + 1 # 1 /\ stage + 1 \in 1 .. 7
  <2>1. stage \in 2 .. 6
    <3>1. Lettered(s, stage)
      BY <1>3, <1>6, StageLetter
    <3> QED BY <1>1, <1>6, <3>1 DEF Lettered
  <2> QED BY <2>1
<1>8. Item = ItemAt(s, stage) /\ parse = ParseAt(s, stage) /\ Index = po[i - 1] + Pos(s, stage)
      /\ (OnConsole => Attr = AttrIn(i) /\ RestoreAttr = AfterAttr(i))
  BY <1>6, <1>7 DEF At
<1>9. Index' = po[i - 1] + Pos(s, stage + 1)
  <2>1. Pos(s, stage + 1) = Pos(s, stage) + 1
    BY <1>3, <1>6, <1>7, PosSteps
  <2> QED BY <1>1, <1>6, <1>8, <2>1
<1>10. /\ t[1] = "0" => ItemAt(s, stage + 1) = [Item EXCEPT !.Pad = "0"]
       /\ t[1] = "-" => ItemAt(s, stage + 1) = [Item EXCEPT !.PadBefore = FALSE]
       /\ t[1] = "." => ItemAt(s, stage + 1) = Item
       /\ t[1] = "w" => ItemAt(s, stage + 1) = [Item EXCEPT ![parse] = t[2]]
       /\ ParseAt(s, stage + 1) = IF t[1] = "." THEN "FieldWidth" ELSE parse
  <2>1. Stepped(Token(s, stage), ItemAt(s, stage), ParseAt(s, stage),
                ItemAt(s, stage + 1), ParseAt(s, stage + 1))
    <3>1. stage \in 2 .. 6
      BY <1>7
    <3> QED BY <1>3, <1>6, <3>1, FlagStep
  <2>2. Stepped(t, Item, parse, ItemAt(s, stage + 1), ParseAt(s, stage + 1))
    BY <1>6, <1>8, <2>1, Zenon
  <2> QED BY <2>2, Zenon DEF Stepped
<1> HIDE DEF t
<1>11. Item' = ItemAt(s, stage + 1) /\ parse' = ParseAt(s, stage + 1)
  <2>1. CASE t[1] = "0"
    BY <1>1, <1>10, <2>1
  <2>2. CASE t[1] = "-"
    BY <1>1, <1>10, <2>2
  <2>3. CASE t[1] = "."
    BY <1>1, <1>10, <2>3
  <2>4. CASE t[1] = "w"
    BY <1>1, <1>10, <2>4
  <2> QED BY <1>1, <2>1, <2>2, <2>3, <2>4
<1>12. /\ UNCHANGED OnConsole
       /\ AttrIn(i)' = AttrIn(i) /\ AfterAttr(i)' = AfterAttr(i)
  BY <1>1, SameFormat
<1>13. At(po[i - 1], i, stage + 1)'
  BY <1>1, <1>2, <1>7, <1>8, <1>9, <1>11, <1>12 DEF At
<1>14. Located(po, mo)'
  <2>1. segs' = segs /\ mode' = "item" /\ todo' = << >> /\ Written' = mo[i - 1]
    BY <1>1, <1>2, <1>3
  <2> DEFINE after == stage + 1
  <2>2. after \in 1 .. 7 /\ At(po[i - 1], i, after)'
    BY <1>7, <1>13
  <2> HIDE DEF after
  <2> QED BY <1>6, <2>1, <2>2, StillInItem
<1>15. SoFar'
  <2>1. todo' = << >> /\ Ahead(Written, todo)'
    <3>1. todo' = << >>
      BY <1>1
    <3>2. Len(<< >>) = 0 /\ 1 .. 0 = {}
      OBVIOUS
    <3> QED BY <3>1, <3>2 DEF Ahead
  <2> QED BY <1>1, <1>2, <2>1, SameSoFar DEF Going
<1> QED BY <1>14, <1>15

(* an item's attribute,                                                    *)
LEMMA ItemAttrMeans ==
  ASSUME EfiPrintAssumption, NEW po, NEW mo, Going(po, mo), ItemAttr
  PROVE  SoFar' /\ Located(po, mo)'
<1> DEFINE t == fmt[Index]
<1>1. /\ Index' = Index + 1 /\ todo = << >> /\ UNCHANGED <<to, segs, fmt>> /\ t[1] \in {"n", "h"}
      /\ mode = "item" /\ UNCHANGED <<mode, Item, parse, todo>>
      /\ PFLUSH(Buffer) /\ RestoreAttr' = Attr /\ Attr' = AttrOf(t[1]) /\ UNCHANGED Written
  BY ReadIs DEF ItemAttr, PSETATTR, Going
<1>2. PICK i \in 1 .. Len(segs) :
        /\ Written = mo[i - 1] /\ segs[i] \in Segments
        /\ AtColour(po, i) \/ \E stage \in 1 .. 7 : AtStage(po, i, stage)
  BY <1>1, ItemPlace
<1> DEFINE s == segs[i]
<1>3. ~ AtColour(po, i)
  BY <1>1 DEF AtColour, Tok
<1>4. PICK stage \in 1 .. 7 : AtStage(po, i, stage)
  BY <1>2, <1>3
<1>5. s.kind = "item" /\ At(po[i - 1], i, stage) /\ Has(s, stage) /\ t = Token(s, stage)
      /\ Pos(s, stage) \in Nat /\ po[i - 1] \in Nat
  BY <1>4 DEF AtStage
<1>18. Lettered(s, stage)
  BY <1>2, <1>5, StageLetter
<1>6. stage = 1
  BY <1>1, <1>5, <1>18, Zenon DEF Lettered
<1>16. t[1] = s.attr /\ s.attr # ""
  BY <1>1, <1>5, <1>18, Zenon DEF Lettered
<1>17. Has(s, 1) /\ Pos(s, 1) \in Nat
  BY <1>5, <1>6
<1>7. Item = ItemAt(s, 1) /\ parse = ParseAt(s, 1) /\ Index = po[i - 1] + Pos(s, 1)
      /\ (OnConsole => Attr = AttrBefore(i))
  BY <1>5, <1>6 DEF At
<1>8. Pos(s, 2) = Pos(s, 1) + 1
  <2>1. 1 \in 1 .. 6 /\ 1 + 1 = 2
    OBVIOUS
  <2> QED BY <1>2, <1>5, <1>17, <2>1, PosSteps
<1>9. ItemAt(s, 2) = ItemAt(s, 1) /\ ParseAt(s, 2) = ParseAt(s, 1)
  BY DEF ItemAt, ParseAt
<1>10. AttrIn(i) = AttrOf(t[1]) /\ AfterAttr(i) = AttrBefore(i)
  BY <1>5, <1>16, FirstAttr
<1>11. /\ UNCHANGED OnConsole
       /\ AttrIn(i)' = AttrIn(i) /\ AfterAttr(i)' = AfterAttr(i)
  BY <1>1, SameFormat
<1>12. At(po[i - 1], i, 2)'
  <2>1. Index' = po[i - 1] + Pos(s, 2)
    <3>1. Index' = Index + 1 /\ Index = po[i - 1] + Pos(s, 1) /\ po[i - 1] \in Nat
      BY <1>1, <1>5, <1>7
    <3>2. Pos(s, 1) \in Nat /\ Pos(s, 2) = Pos(s, 1) + 1
      BY <1>8, <1>17
    <3> DEFINE o == po[i - 1]
               p == Pos(s, 1)
    <3>3. Index' = (o + p) + 1 /\ o \in Nat /\ p \in Nat /\ Pos(s, 2) = p + 1
      BY <3>1, <3>2
    <3> HIDE DEF s, o, p
    <3>4. Index' = o + Pos(s, 2)
      BY <3>3
    <3> QED BY <3>4 DEF o
  <2>2. OnConsole' => Attr' = AttrIn(i)' /\ RestoreAttr' = AfterAttr(i)'
    BY <1>1, <1>7, <1>10, <1>11
  <2>3. Item' = ItemAt(s, 2) /\ parse' = ParseAt(s, 2) /\ segs' = segs
    BY <1>1, <1>7, <1>9
  <2> QED BY <2>1, <2>2, <2>3 DEF At
<1>13. Located(po, mo)'
  <2>1. 2 \in 1 .. 7 /\ segs' = segs /\ mode' = "item" /\ todo' = << >> /\ Written' = mo[i - 1]
    BY <1>1, <1>2
  <2> QED BY <1>5, <1>12, <2>1, StillInItem
<1>14. SoFar'
  <2>1. Written <= Len(Meant) /\ Meant \in Seq(Chars \X Nat)
    <3>1. Len(<< >>) = 0
      OBVIOUS
    <3> QED BY <1>1, <3>1, GoingHas, GoingWithin
  <2>2. todo' = << >>
    BY <1>1
  <2> QED BY <1>1, <2>1, <2>2, FlushSoFar DEF Going
<1> QED BY <1>13, <1>14

(* an attribute that stays,                                                *)
LEMMA SetAttrMeans ==
  ASSUME EfiPrintAssumption, NEW po, NEW mo, Going(po, mo), SetAttr
  PROVE  SoFar' /\ Located(po, mo)'
<1> DEFINE t == fmt[Index]
<1>1. /\ Index' = Index + 1 /\ todo = << >> /\ UNCHANGED <<to, segs, fmt>> /\ t[1] \in {"N", "H"}
      /\ mode = "item" /\ UNCHANGED <<Item, parse, todo>>
      /\ AttrOf(t[1]) # 0 =>
           PFLUSH(Buffer) /\ Attr' = AttrOf(t[1]) /\ RestoreAttr' = 0 /\ mode' = "text"
           /\ UNCHANGED Written
  BY ReadIs DEF SetAttr, Going
<1>2. PICK i \in 1 .. Len(segs) :
        /\ Written = mo[i - 1] /\ segs[i] \in Segments
        /\ AtColour(po, i) \/ \E stage \in 1 .. 7 : AtStage(po, i, stage)
  BY <1>1, ItemPlace
<1> DEFINE s == segs[i]
<1>3. \A stage \in 1 .. 7 : ~ AtStage(po, i, stage)
  <2> SUFFICES ASSUME NEW stage \in 1 .. 7, AtStage(po, i, stage) PROVE FALSE
    OBVIOUS
  <2>1. s.kind = "item" /\ Has(s, stage) /\ t = Token(s, stage)
    BY DEF AtStage
  <2>2. Lettered(s, stage)
    BY <1>2, <2>1, StageLetter
  <2> QED BY <1>1, <2>1, <2>2 DEF Lettered
<1>4. s.kind = "attr" /\ Index = po[i] /\ t = Tok(s.c) /\ t[1] = s.c
  BY <1>2, <1>3 DEF AtColour, Tok
<1>5. OnConsole /\ segs \in Seq(Segments) /\ Mapped(po, mo)
  <2>1. Colours
    BY <1>4 DEF Colours
  <2> QED BY <2>1, GoingHas DEF Going, Good
<1>6. AttrOf(t[1]) # 0 /\ AttrBefore(i + 1) = AttrOf(t[1])
  BY <1>4, <1>5, AttrIs
<1>7. mo[i] = mo[i - 1] /\ i \in 0 .. Len(segs) /\ po[i] \in Nat
  <2>1. /\ mo[i] = mo[i - 1] + Len(Plain(s)) /\ i \in 0 .. Len(segs) /\ po[i] \in Nat
        /\ mo[i - 1] \in Nat
    BY <1>5 DEF Mapped
  <2>2. Plain(s) = << >>
    BY <1>4 DEF Plain
  <2>3. Len(<< >>) = 0
    OBVIOUS
  <2> HIDE DEF s
  <2> QED BY <2>1, <2>2, <2>3
<1>8. Written' + Len(todo') = mo[i]
  <2>1. Len(<< >>) = 0 /\ Written \in Nat
    BY GoingHas
  <2> QED BY <1>1, <1>2, <1>6, <1>7, <2>1
<1>9. AttrBefore(i + 1)' = AttrBefore(i + 1)
  BY <1>1, SameFormat
<1>10. Located(po, mo)'
  <2>1. i \in 0 .. Len(segs') /\ Index' = po[i] + 1 /\ Attr' = AttrBefore(i + 1)'
    BY <1>1, <1>4, <1>6, <1>7, <1>9
  <2>2. InText(po, mo)'
    BY <1>8, <2>1 DEF InText
  <2>3. mode' = "text"
    BY <1>1, <1>6
  <2> QED BY <2>2, <2>3 DEF Located
<1>11. SoFar'
  <2>1. Written <= Len(Meant) /\ Meant \in Seq(Chars \X Nat)
    <3>1. Len(<< >>) = 0
      OBVIOUS
    <3> QED BY <1>1, <3>1, GoingHas, GoingWithin
  <2>2. todo' = << >>
    BY <1>1
  <2> QED BY <1>1, <1>6, <2>1, <2>2, FlushSoFar DEF Going
<1> QED BY <1>10, <1>11

(* the conversion,                                                         *)
LEMMA ConvertMeans ==
  ASSUME EfiPrintAssumption, NEW po, NEW mo, Going(po, mo), Convert
  PROVE  SoFar' /\ Located(po, mo)'
<1> DEFINE t == fmt[Index]
<1>1. /\ Index' = Index + 1 /\ todo = << >> /\ UNCHANGED <<to, segs, fmt>>
      /\ t[1] \in {"s", "x", "nl", "%"}
      /\ mode = "item" /\ Quiet /\ mode' = "put" /\ UNCHANGED <<Item, parse, RestoreAttr>>
      /\ t[1] = "s" => todo' = WithReturns(PITEM(Item, t[2]))
  BY ReadIs DEF Convert, Going
<1>2. UNCHANGED <<Attr, Buffer, Written, dest, len>>
  BY <1>1 DEF Quiet
<1>3. PICK i \in 1 .. Len(segs) :
        /\ Written = mo[i - 1] /\ segs[i] \in Segments
        /\ AtColour(po, i) \/ \E stage \in 1 .. 7 : AtStage(po, i, stage)
  BY <1>1, ItemPlace
<1> DEFINE s == segs[i]
<1>4. ~ AtColour(po, i)
  BY <1>1 DEF AtColour, Tok
<1>5. PICK stage \in 1 .. 7 : AtStage(po, i, stage)
  BY <1>3, <1>4
<1>6. /\ s.kind = "item" /\ At(po[i - 1], i, stage) /\ Has(s, stage) /\ t = Token(s, stage)
      /\ Pos(s, stage) \in Nat /\ po[i - 1] \in Nat /\ po[i] = po[i - 1] + Pos(s, 7)
  BY <1>5 DEF AtStage
<1>7. stage = 7 /\ t = <<"s", s.text>>
  <2>1. Lettered(s, stage)
    BY <1>3, <1>6, StageLetter
  <2> QED BY <1>1, <1>6, <2>1 DEF Lettered
<1>8. Item = ItemAt(s, 7) /\ Index = po[i]
      /\ (OnConsole => Attr = AttrIn(i) /\ RestoreAttr = AfterAttr(i))
  BY <1>6, <1>7 DEF At
<1>9. todo' = Plain(s)
  <2>1. todo' = WithReturns(PITEM(ItemAt(s, 7), s.text))
    BY <1>1, <1>7, <1>8
  <2>2. PITEM(ItemAt(s, 7), s.text) = Laid(s)
    BY <1>3, <1>6, LaidOut
  <2> QED BY <1>6, <2>1, <2>2 DEF Plain
<1>10. /\ UNCHANGED OnConsole
       /\ AttrIn(i)' = AttrIn(i) /\ AfterAttr(i)' = AfterAttr(i)
  BY <1>1, SameFormat
<1>11. Ahead(Written, todo)' /\ Written' + Len(todo') = mo[i]
  <2>1. Mapped(po, mo)
    BY GoingHas
  <2>2. (OnConsole => Attr = AttrIn(i)) /\ UNCHANGED <<to, segs, fmt, Written, Attr>>
    BY <1>1, <1>2, <1>8
  <2> QED BY <1>3, <1>9, <2>1, <2>2, SegmentNext
<1>12. SoFar'
  BY <1>1, <1>2, <1>11, SameSoFar DEF Going
<1>13. Located(po, mo)'
  <2>1. i \in 1 .. Len(segs') /\ segs'[i].kind = "item" /\ Index' = po[i] + 1
    BY <1>1, <1>6, <1>8
  <2>2. OnConsole' => Attr' = AttrIn(i)' /\ RestoreAttr' = AfterAttr(i)'
    BY <1>1, <1>2, <1>8, <1>10
  <2>3. InPut(po, mo)'
    BY <1>11, <2>1, <2>2 DEF InPut
  <2> QED BY <1>1, <2>3 DEF Located
<1> QED BY <1>12, <1>13

(* the end of an item,                                                     *)
LEMMA ItemDoneMeans ==
  ASSUME EfiPrintAssumption, NEW po, NEW mo, Going(po, mo), ItemDone
  PROVE  SoFar' /\ Located(po, mo)'
<1>1. /\ mode = "put" /\ todo = << >> /\ mode' = "text"
      /\ UNCHANGED <<to, segs, fmt, Index, Item, parse, todo>>
      /\ IF RestoreAttr # 0
         THEN PFLUSH(Buffer) /\ RestoreAttr' = Attr /\ Attr' = RestoreAttr /\ UNCHANGED Written
         ELSE UNCHANGED <<attr, Buffer, Written, dest, len>>
  BY DEF ItemDone, Fixed, Restored, PSETATTR
<1>2. InPut(po, mo) /\ segs \in Seq(Segments)
  BY <1>1, GoingHas DEF Going, Located
<1>3. PICK i \in 1 .. Len(segs) :
        /\ segs[i].kind = "item" /\ Index = po[i] + 1 /\ Written + Len(todo) = mo[i]
        /\ OnConsole => Attr = AttrIn(i) /\ RestoreAttr = AfterAttr(i)
  BY <1>2 DEF InPut
<1>4. AttrBefore(i + 1) = AttrBefore(i) /\ (OnConsole => AttrBefore(i) # 0)
  <2>1. i \in Int /\ segs[i].kind # "attr"
    BY <1>3
  <2> QED BY <1>2, <2>1, AttrIs
<1>5. UNCHANGED OnConsole /\ AttrBefore(i + 1)' = AttrBefore(i + 1)
  BY <1>1, SameFormat
<1>6. OnConsole => Attr' = AttrBefore(i + 1)
  <2> SUFFICES ASSUME OnConsole PROVE Attr' = AttrBefore(i)
    BY <1>4
  <2>1. CASE segs[i].attr = ""
    <3>1. AttrIn(i) = AttrBefore(i) /\ AfterAttr(i) = 0
      BY <1>3, <2>1, FirstAttr
    <3>2. Attr = AttrBefore(i) /\ RestoreAttr = 0
      BY <1>3, <3>1
    <3> QED BY <1>1, <3>2 DEF attr
  <2>2. CASE segs[i].attr # ""
    <3>1. AfterAttr(i) = AttrBefore(i)
      BY <1>3, <2>2, FirstAttr
    <3>2. RestoreAttr = AttrBefore(i) /\ RestoreAttr # 0
      BY <1>3, <1>4, <3>1
    <3> QED BY <1>1, <3>2
  <2> QED BY <2>1, <2>2
<1>7. Located(po, mo)'
  <2>1. Written' = Written /\ i \in 0 .. Len(segs')
    BY <1>1
  <2>2. InText(po, mo)'
    BY <1>1, <1>3, <1>5, <1>6, <2>1 DEF InText
  <2> QED BY <1>1, <2>2 DEF Located
<1>8. SoFar'
  <2>1. Written <= Len(Meant) /\ Meant \in Seq(Chars \X Nat)
    <3>1. Len(<< >>) = 0
      OBVIOUS
    <3> QED BY <1>1, <3>1, GoingHas, GoingWithin
  <2>2. todo' = << >>
    BY <1>1
  <2>3. CASE RestoreAttr # 0
    BY <1>1, <2>1, <2>2, <2>3, FlushSoFar DEF Going
  <2>4. CASE RestoreAttr = 0
    <3>1. UNCHANGED <<Attr, Buffer, Written, dest, len>>
      BY <1>1, <2>4 DEF attr
    <3>2. Ahead(Written, todo)'
      <4>1. Len(<< >>) = 0 /\ 1 .. 0 = {}
        OBVIOUS
      <4> QED BY <2>2, <4>1 DEF Ahead
    <3> QED BY <1>1, <3>1, <3>2, SameSoFar DEF Going
  <2> QED BY <2>3, <2>4
<1> QED BY <1>7, <1>8

(* and the end of the format.                                              *)
LEMMA FinishMeans ==
  ASSUME EfiPrintAssumption, NEW po, NEW mo, Going(po, mo), Finish
  PROVE  SoFar' /\ Located(po, mo)'
<1>1. /\ todo = << >> /\ Index > Len(fmt) /\ UNCHANGED <<to, segs, fmt, Index, Item, parse, todo>>
      /\ \/ /\ mode = "text" /\ mode' = "done" /\ PFLUSH(Buffer)
            /\ UNCHANGED <<Attr, RestoreAttr, Written>>
         \/ mode = "item"
  BY DEF Finish, Fixed, attr
<1> DEFINE n == Len(segs)
<1>2. /\ Index \in Int /\ Len(fmt) \in Nat /\ Len(fmt) = po[n] /\ Mapped(po, mo) /\ n \in Nat
      /\ Len(Meant) = mo[n]
  <2>1. Mapped(po, mo) /\ Len(fmt) = po[n] /\ Len(Meant) = mo[n]
    BY GoingHas
  <2>2. n \in Nat /\ po[n] \in Nat
    BY <2>1 DEF Mapped
  <2>3. Index \in Int
    BY DEF Going, PrintType
  <2> QED BY <2>1, <2>2, <2>3
<1>3. mode # "item"
  BY <1>1, <1>2, ItemPlace
<1>4. InText(po, mo)
  BY <1>1, <1>3 DEF Going, Located
<1>5. PICK i \in 0 .. n : Index = po[i] + 1 /\ Written + Len(todo) = mo[i]
           /\ (OnConsole => Attr = AttrBefore(i + 1))
  BY <1>4 DEF InText
<1>6. i = n
  <2> SUFFICES ASSUME i # n PROVE FALSE
    OBVIOUS
  <2> DEFINE j == i + 1
  <2>1. j \in 1 .. n /\ j - 1 = i /\ j \in 0 .. n
    BY <1>2
  <2> HIDE DEF j, n
  <2>2. segs[j] \in Segments /\ po[j] = po[i] + Len(Tokens(segs[j])) /\ po[j] <= po[n]
        /\ po[i] \in Nat
    BY <1>2, <2>1 DEF Mapped, n
  <2>3. Len(Tokens(segs[j])) \in Nat /\ Len(Tokens(segs[j])) > 0
    BY <2>2, TokensAre
  <2> QED BY <1>1, <1>2, <1>5, <2>2, <2>3
<1>7. Written = Len(Meant)
  <2>1. Len(<< >>) = 0 /\ Written \in Nat
    BY GoingHas
  <2> QED BY <1>1, <1>2, <1>5, <1>6, <2>1
<1>8. UNCHANGED <<OnConsole, Meant>> /\ AttrBefore(n + 1)' = AttrBefore(n + 1)
  BY <1>1, SameFormat
<1>9. Buffer' = << >> /\ PFLUSH(Buffer)
  BY <1>1, <1>3 DEF PFLUSH
<1>10. InDone'
  <2>1. Attr' = Attr /\ Written' = Written /\ todo' = << >> /\ Len(segs') + 1 = n + 1
        /\ segs' = segs
    BY <1>1, <1>3
  <2>2. OnConsole' => Attr' = AttrBefore(Len(segs) + 1)'
    BY <1>5, <1>6, <1>8, <2>1
  <2> QED BY <1>7, <1>8, <1>9, <2>1, <2>2 DEF InDone
<1>11. Located(po, mo)'
  <2>1. mode' = "done"
    BY <1>1, <1>3
  <2> QED BY <1>10, <2>1 DEF Located
<1>12. SoFar'
  <2>1. Written <= Len(Meant) /\ Meant \in Seq(Chars \X Nat) /\ todo' = << >> /\ UNCHANGED Written
    <3>1. Written <= Written
      <4>1. Written \in Nat
        BY GoingHas
      <4> QED BY <4>1
    <3> QED BY <1>1, <1>3, <1>7, <3>1, GoingHas
  <2> QED BY <1>1, <1>9, <2>1, FlushSoFar DEF Going
<1> QED BY <1>11, <1>12

-----------------------------------------------------------------------------
(* The beginning                                                           *)

(* Every format can be laid out.                                           *)
LEMMA FormatStands ==
  ASSUME EfiPrintAssumption
  PROVE  segs \in Seq(Segments) =>
           /\ Meant \in Seq(Chars \X Nat)
           /\ \E po, mo : Layout(po, mo) /\ po[0] = 0 /\ mo[0] = 0
<1> SUFFICES ASSUME segs \in Seq(Segments)
             PROVE  Meant \in Seq(Chars \X Nat) /\ \E po, mo :
                      Layout(po, mo) /\ po[0] = 0 /\ mo[0] = 0
  OBVIOUS
<1>1. PICK po, mo : Layout(po, mo)
  BY FormatIs
<1>2. po[0] = 0 /\ mo[0] = 0
  BY <1>1 DEF Layout, Places
<1> QED BY <1>1, <1>2, FormatIs

(* The same of the next state.                                             *)
LEMMA NextStands ==
  ASSUME EfiPrintAssumption
  PROVE  (segs \in Seq(Segments) =>
            /\ Meant \in Seq(Chars \X Nat)
            /\ \E po, mo : Layout(po, mo) /\ po[0] = 0 /\ mo[0] = 0)'
BY FormatStands, PTL

(* The part of no items.                                                   *)
LEMMA NoPart == ASSUME NEW m PROVE SubSeq(m, 1, 0) = << >>
  OBVIOUS

(* The front of two sequences joined.                                      *)
LEMMA FrontOf ==
  ASSUME NEW S, NEW h \in Seq(S), NEW g \in Seq(S)
  PROVE  SubSeq(h \o g, 1, Len(h)) = h
<1> DEFINE m == h \o g
           n == Len(h)
<1>1. m \in Seq(S) /\ n \in Nat /\ 0 \in Nat /\ 0 <= n /\ n <= Len(m) /\ \A i \in 1 .. n :
        m[i] = h[i]
  OBVIOUS
<1> HIDE DEF m
<1>2. /\ SubSeq(m, 0 + 1, n) \in Seq(S) /\ Len(SubSeq(m, 0 + 1, n)) = n - 0
      /\ \A i \in 1 .. n - 0 : SubSeq(m, 0 + 1, n)[i] = m[0 + i]
  BY <1>1, PartOf
<1>3. n - 0 = n /\ 0 + 1 = 1 /\ \A i \in 1 .. n : 0 + i = i
  BY <1>1
<1> DEFINE p == SubSeq(m, 1, n)
<1>4. p \in Seq(S) /\ Len(p) = n /\ \A i \in 1 .. Len(p) : p[i] = h[i]
  BY <1>1, <1>2, <1>3
<1> HIDE DEF p
<1>5. p = h
  BY <1>4, SameItems
<1> QED BY <1>5 DEF p, m

(* The glyphs of what is meant.                                            *)
LEMMA GlyphsAre ==
  Meant \in Seq(Chars \X Nat) => Glyphs \in Seq(Chars) /\ Len(Glyphs) = Len(Meant)
<1> SUFFICES ASSUME Meant \in Seq(Chars \X Nat)
             PROVE Glyphs \in Seq(Chars) /\ Len(Glyphs) = Len(Meant)
  OBVIOUS
<1> DEFINE M == Meant
           n == Len(M)
<1> HIDE DEF Chars, M
<1>1. n \in Nat /\ DOMAIN M = 1 .. n /\ \A i \in 1 .. n : M[i] \in Chars \X Nat
  BY DEF M
<1>2. Glyphs = [i \in 1 .. n |-> M[i][1]]
  BY <1>1 DEF Glyphs, M
<1>3. \A i \in 1 .. n : M[i][1] \in Chars
  BY <1>1
<1>4. Glyphs \in [1 .. n -> Chars]
  BY <1>2, <1>3
<1> HIDE DEF n
<1>5. PICK f : f = Glyphs
  OBVIOUS
<1>6. f \in Seq(Chars) /\ Len(f) = n
  <2>1. n \in Nat /\ f \in [1 .. n -> Chars]
    BY <1>1, <1>4, <1>5
  <2> QED BY <2>1
<1> QED BY <1>5, <1>6 DEF n, M

(* The same of the next state.                                             *)
LEMMA NextGlyphs ==
  (Meant \in Seq(Chars \X Nat) => Glyphs \in Seq(Chars) /\ Len(Glyphs) = Len(Meant))'
BY GlyphsAre, PTL

(* A format begins with nothing printed.                                   *)
LEMMA FormatMeans ==
  ASSUME EfiPrintAssumption, PrintType, AtRest, mode = "idle",
         ConsolePrint \/ StringPrint \/ CatPrint
  PROVE  SoFar' /\ \E po, mo : Layout(po, mo)' /\ Located(po, mo)'
<1>1. /\ Format /\ mode' = "text" /\ Index' = 1 /\ todo' = << >> /\ Buffer' = << >> /\ Written' = 0
      /\ out' = << >> /\ lost' = 0 /\ PrintType'
  BY FormatsTyped DEF ConsolePrint, StringPrint, CatPrint, Format, AtRest
<1>2. /\ to' = "console" => Attr' = START
      /\ to' = "string" => str' = << >>
      /\ to' = "pool" => str' = had' /\ len' = Len(had')
  BY DEF ConsolePrint, StringPrint, CatPrint, AtRest
<1>3. /\ segs' \in Seq(Segments) /\ had' \in Seq(Chars) /\ maxlen' \in Nat
  BY <1>1 DEF PrintType
<1>4. PICK po, mo : Layout(po, mo)' /\ po[0] = 0 /\ mo[0] = 0 /\ Meant' \in Seq(Chars \X Nat)
  BY <1>3, NextStands
<1>5. Glyphs' \in Seq(Chars) /\ Len(Glyphs') = Len(Meant')
  BY <1>4, NextGlyphs
<1>6. Len(<< >>) = 0 /\ 1 .. 0 = {} /\ 0 + 1 = 1 /\ 0 - 0 = 0 /\ 0 + 0 = 0
  OBVIOUS
<1>7. Len(segs') \in Nat /\ 0 \in 0 .. Len(segs')
  BY <1>3
<1>8. AttrBefore(0 + 1)' = START
  <2>1. 1 .. (0 + 1) - 1 = {}
    OBVIOUS
  <2> QED BY <2>1 DEF AttrBefore
<1>9. Located(po, mo)'
  <2>1. Index' = po[0] + 1 /\ Written' + Len(todo') = mo[0]
    BY <1>1, <1>4, <1>6
  <2>2. InText(po, mo)'
    BY <1>2, <1>7, <1>8, <2>1 DEF InText, OnConsole
  <2> QED BY <1>1, <2>2 DEF Located
<1>10. Sent(0)'
  <2>1. Len(Meant') \in Nat /\ 0 \in 0 .. Len(Meant') /\ Len(had') \in Nat
    <3> HIDE DEF Chars
    <3>1. PICK m, h : m = Meant' /\ h = had'
      OBVIOUS
    <3>2. m \in Seq(Chars \X Nat) /\ h \in Seq(Chars)
      BY <1>3, <1>4, <3>1
    <3>3. Len(m) \in Nat /\ Len(h) \in Nat /\ 0 \in 0 .. Len(m)
      BY <3>2
    <3> QED BY <3>1, <3>3
  <2>2. SubSeq(Meant', 1, 0) = << >> /\ SubSeq(Glyphs', 1, 0) = << >>
    BY NoPart
  <2>3. (IF 0 > maxlen' THEN maxlen' ELSE 0) = 0
    BY <1>3
  <2>4. SubSeq(had' \o Glyphs', 1, Len(had')) = had'
    BY <1>3, <1>5, FrontOf
  <2>5. 0 \in 0 .. Len(had') + 0 /\ Len(had') + 0 = Len(had')
    BY <2>1
  <2>6. to' = "string" => str' = SubSeq(Glyphs', 1, IF 0 > maxlen' THEN maxlen' ELSE 0)
    BY <1>2, <2>2, <2>3
  <2>7. to' = "pool" => /\ lost' \in 0 .. Len(had') + 0 /\ len' = Len(str')
                        /\ str' = SubSeq(had' \o Glyphs', lost' + 1, Len(had') + 0)
    BY <1>1, <1>2, <1>6, <2>4, <2>5
  <2>8. OnConsole' => out' = SubSeq(Meant', 1, 0)
    BY <1>1, <2>2
  <2> QED BY <2>1, <2>6, <2>7, <2>8 DEF Sent
<1>11. SoFar'
  <2>1. Sent(Written - Len(Buffer))'
    <3>1. Written' - Len(Buffer') = 0
      BY <1>1, <1>6
    <3> QED BY <1>10, <3>1 DEF Sent
  <2>2. Ahead(Written - Len(Buffer), Buffer)' /\ Ahead(Written, todo)'
    BY <1>1, <1>6 DEF Ahead
  <2>3. Len(Buffer') <= Written'
    BY <1>1, <1>6
  <2> QED BY <2>1, <2>2, <2>3 DEF SoFar
<1> QED BY <1>4, <1>9, <1>11

-----------------------------------------------------------------------------
(* The invariant                                                           *)

(* A step on a format that is being printed.                               *)
LEMMA StepMeans ==
  ASSUME EfiPrintAssumption, NEW po, NEW mo, Going(po, mo), Next
  PROVE  /\ mode' # "idle"
         /\ Good' => SoFar' /\ \E po1, mo1 : Layout(po1, mo1)' /\ Located(po1, mo1)'
<1>1. ~ Format
  BY DEF Going, Format
<1>2. PPUTC \/ Text \/ Flag \/ ItemAttr \/ SetAttr \/ Convert \/ ItemDone \/ Finish \/ Stop
  BY <1>1 DEF Next, ConsolePrint, StringPrint, CatPrint
<1>3. UNCHANGED <<to, segs, fmt>> /\ mode' # "idle"
  <2>1. CASE PPUTC
    BY <2>1 DEF PPUTC, Going
  <2>2. CASE Text \/ Flag \/ ItemAttr \/ SetAttr \/ Convert
    BY <2>2 DEF Text, Flag, ItemAttr, SetAttr, Convert, Read, Fixed
  <2>3. CASE ItemDone \/ Finish \/ Stop
    BY <2>3 DEF ItemDone, Finish, Stop, Fixed, vars, ps
  <2> QED BY <1>2, <2>1, <2>2, <2>3
<1>4. SoFar' /\ Located(po, mo)'
  <2>1. CASE Stop
    <3>1. UNCHANGED <<Index, mode, Item, parse, todo, Attr, RestoreAttr, Buffer, Written, dest, len>>
      BY <2>1 DEF Stop, vars, ps, attr
    <3>2. UNCHANGED <<out, str, maxlen, lost, had>>
      BY <3>1 DEF dest
    <3>3. UNCHANGED <<Meant, Glyphs, OnConsole>>
      BY <1>3, SameFormat
    <3>4. SoFar'
      BY <3>1, <3>2, <3>3, <1>3 DEF Going, SoFar, Sent, Ahead
    <3>5. mode = "done" /\ InDone
      BY <2>1 DEF Stop, Going, Located
    <3>6. AttrBefore(Len(segs) + 1)' = AttrBefore(Len(segs) + 1)
      BY <1>3, SameFormat
    <3>7. InDone'
      BY <1>3, <3>1, <3>3, <3>5, <3>6 DEF InDone
    <3> QED BY <3>1, <3>4, <3>5, <3>7 DEF Located
  <2> QED BY <1>2, <2>1, PutMeans, TextMeans, FlagMeans, ItemAttrMeans, SetAttrMeans, ConvertMeans,
             ItemDoneMeans, FinishMeans
<1>5. Layout(po, mo)'
  BY <1>3, SameFormat DEF Going
<1> QED BY <1>3, <1>4, <1>5

(* The invariant holds at first,                                           *)
LEMMA PrintInit ==
  ASSUME EfiPrintAssumption
  PROVE  Init => PrintInv
<1> SUFFICES ASSUME Init PROVE PrintInv
  OBVIOUS
<1>1. Len(<< >>) = 0 /\ << >> \in Seq(Segments) /\ << >> \in Seq(TokenSet) /\ << >> \in Seq(Chars)
  OBVIOUS
<1>2. mode = "idle" /\ AtRest
  BY DEF Init, AtRest
<1>3. PrintType
  BY <1>1, Numbers, NewItemTyped DEF Init, PrintType
<1> QED BY <1>2, <1>3 DEF PrintInv

(* after every step,                                                       *)
LEMMA PrintNext ==
  ASSUME EfiPrintAssumption
  PROVE  PrintInv /\ Next => PrintInv'
<1> SUFFICES ASSUME PrintInv, Next PROVE PrintInv'
  OBVIOUS
<1>1. PrintType /\ PrintType'
  BY PrintTypeKept DEF PrintInv
<1>2. CASE mode = "idle"
  <2>1. AtRest
    BY <1>2 DEF PrintInv
  <2>2. ConsolePrint \/ StringPrint \/ CatPrint
    BY <1>2, <2>1 DEF Next, AtRest, PPUTC, Text, Flag, ItemAttr, SetAttr, Convert, ItemDone,
       Finish, Stop
  <2>3. mode' # "idle"
    BY <2>2 DEF ConsolePrint, StringPrint, CatPrint, Format
  <2>4. SoFar' /\ \E po, mo : Layout(po, mo)' /\ Located(po, mo)'
    BY <1>1, <1>2, <2>1, <2>2, FormatMeans
  <2> QED BY <1>1, <2>3, <2>4 DEF PrintInv
<1>3. CASE mode # "idle" /\ Good
  <2>1. PICK po, mo : Layout(po, mo) /\ Located(po, mo)
    BY <1>3 DEF PrintInv
  <2>2. Going(po, mo)
    BY <1>1, <1>3, <2>1 DEF Going, PrintInv
  <2> QED BY <1>1, <2>2, StepMeans DEF PrintInv
<1>4. CASE mode # "idle" /\ ~ Good
  <2>1. ~ Format
    BY <1>4 DEF Format
  <2>2. PPUTC \/ Text \/ Flag \/ ItemAttr \/ SetAttr \/ Convert \/ ItemDone \/ Finish \/ Stop
    BY <2>1 DEF Next, ConsolePrint, StringPrint, CatPrint
  <2>3. UNCHANGED <<to, segs, fmt>> /\ mode' # "idle"
    <3>1. CASE PPUTC
      BY <1>4, <3>1 DEF PPUTC
    <3>2. CASE Text \/ Flag \/ ItemAttr \/ SetAttr \/ Convert
      BY <3>2 DEF Text, Flag, ItemAttr, SetAttr, Convert, Read, Fixed
    <3>3. CASE ItemDone \/ Finish \/ Stop
      BY <3>3 DEF ItemDone, Finish, Stop, Fixed, vars, ps
    <3> QED BY <2>2, <3>1, <3>2, <3>3
  <2>4. ~ Good'
    BY <1>4, <2>3, SameFormat
  <2> QED BY <1>1, <2>3, <2>4 DEF PrintInv
<1> QED BY <1>2, <1>3, <1>4

(* and while nothing is printed,                                           *)
LEMMA PrintRest == PrintInv /\ UNCHANGED vars => PrintInv'
<1> SUFFICES ASSUME PrintInv, UNCHANGED vars PROVE PrintInv'
  OBVIOUS
<1>1. UNCHANGED <<to, segs, fmt, Index, mode, Item, parse, todo, Attr, RestoreAttr, Buffer, Written,
                  out, str, maxlen, lost, had, len>>
  BY DEF vars, ps, attr, dest
<1>2. PrintType'
  BY <1>1 DEF PrintInv, PrintType
<1>3. mode' = "idle" => AtRest'
  BY <1>1 DEF PrintInv, AtRest
<1>4. ASSUME mode' # "idle" /\ Good'
      PROVE  SoFar' /\ \E po, mo : Layout(po, mo)' /\ Located(po, mo)'
  <2>1. /\ UNCHANGED <<Meant, Glyphs, OnConsole>> /\ Good
        /\ \A i : AttrBefore(i)' = AttrBefore(i)
        /\ \A i : AttrIn(i)' = AttrIn(i) /\ AfterAttr(i)' = AfterAttr(i)
        /\ \A po, mo : Layout(po, mo)' = Layout(po, mo)
    BY <1>1, <1>4, SameFormat
  <2>2. PICK po, mo : Layout(po, mo) /\ Located(po, mo)
    BY <1>1, <1>4, <2>1 DEF PrintInv
  <2>3. SoFar'
    BY <1>1, <1>4, <2>1 DEF PrintInv, SoFar, Sent, Ahead
  <2>4. InText(po, mo)' = InText(po, mo) /\ InPut(po, mo)' = InPut(po, mo) /\ InDone' = InDone
    BY <1>1, <2>1 DEF InText, InPut, InDone
  <2>5. \A i : Reading(po, i)' = Reading(po, i)
    BY <1>1, <2>1 DEF Reading, At
  <2>6. InItem(po, mo)' = InItem(po, mo)
    BY <1>1, <2>5 DEF InItem
  <2>7. Located(po, mo)'
    BY <1>1, <2>2, <2>4, <2>6 DEF Located
  <2> QED BY <2>1, <2>2, <2>3, <2>7
<1> QED BY <1>2, <1>3, <1>4 DEF PrintInv

(* and it says what is to be shown.                                        *)
LEMMA PrintMeant ==
  ASSUME EfiPrintAssumption
  PROVE  PrintInv => PrintExact
<1> SUFFICES ASSUME PrintInv PROVE PrintExact
  OBVIOUS
<1>1. Len(Buffer) < PRINT_STRING_LEN /\ Written \in Nat /\ segs \in Seq(Segments)
  BY DEF PrintInv, PrintType
<1>2. mode = "undefined" => ~ Good
  BY DEF PrintInv, Located
<1>3. ASSUME mode = "done", Good
      PROVE  /\ Written = Len(Meant)
             /\ to = "console" => out = Meant /\ Attr = AttrBefore(Len(segs) + 1)
             /\ to = "string" =>
                  str = SubSeq(Glyphs, 1, IF Written > maxlen THEN maxlen ELSE Written)
             /\ to = "pool" => str = SubSeq(had \o Glyphs, lost + 1, Len(had) + Written)
  <2>1. SoFar /\ InDone
    BY <1>3 DEF PrintInv, Located
  <2>2. Written - Len(Buffer) = Written
    <3>1. Len(<< >>) = 0
      OBVIOUS
    <3> QED BY <1>1, <2>1, <3>1 DEF InDone
  <2>3. Sent(Written) /\ Written = Len(Meant)
    BY <2>1, <2>2 DEF SoFar, InDone
  <2>4. SubSeq(Meant, 1, Len(Meant)) = Meant
    BY <1>1, FormatIs, WholeOf
  <2>5. to = "console" => out = Meant /\ Attr = AttrBefore(Len(segs) + 1)
    BY <2>1, <2>3, <2>4 DEF Sent, OnConsole, InDone
  <2>6. /\ to = "string" => str = SubSeq(Glyphs, 1, IF Written > maxlen THEN maxlen ELSE Written)
        /\ to = "pool" => str = SubSeq(had \o Glyphs, lost + 1, Len(had) + Written)
    BY <2>3 DEF Sent
  <2> QED BY <2>3, <2>5, <2>6
<1> QED BY <1>1, <1>2, <1>3 DEF PrintExact, Good, OnConsole

(* Whatever the format, its author gets what was meant: a whole format     *)
(* comes out character by character, with its attributes, widths and       *)
(* padding, through a buffer of any size that is handed over at any place; *)
(* and printing on its own never reads a whole format past its end.        *)
THEOREM PrintsAsMeant ==
  ASSUME EfiPrintAssumption
  PROVE  Spec => []PrintExact
<1>1. PrintInv /\ [Next]_vars => PrintInv'
  BY PrintNext, PrintRest
<1> QED BY <1>1, PrintInit, PrintMeant, PTL DEF Spec

-----------------------------------------------------------------------------
(* Device paths                                                            *)

(* A piece of a sequence that may be empty, wherever it is.                *)
LEMMA PieceOf ==
  ASSUME NEW S, NEW s \in Seq(S), NEW m \in Nat \ {0}, NEW n \in Nat, n <= Len(s), m <= n + 1
  PROVE  /\ SubSeq(s, m, n) \in Seq(S) /\ Len(SubSeq(s, m, n)) = n - m + 1
         /\ \A k \in 1 .. n - m + 1 : SubSeq(s, m, n)[k] = s[m + k - 1]
<1>1. \A k \in m .. n : s[k] \in S
  OBVIOUS
<1>2. /\ SubSeq(s, m, n) \in Seq(S)
      /\ Len(SubSeq(s, m, n)) = IF m <= n THEN n - m + 1 ELSE 0
      /\ \A k \in 1 .. n - m + 1 : SubSeq(s, m, n)[k] = s[m + k - 1]
  <2>1. m \in Int /\ n \in Int
    OBVIOUS
  <2> QED BY <1>1, <2>1, SubSeqProperties
<1>3. (IF m <= n THEN n - m + 1 ELSE 0) = n - m + 1
  OBVIOUS
<1> QED BY <1>2, <1>3, Zenon

(* Two parts, one after the other.                                         *)
LEMMA TwoParts ==
  ASSUME NEW S, NEW a \in Seq(S), NEW b \in Seq(S)
  PROVE  /\ a \o b \in Seq(S) /\ Len(a \o b) = Len(a) + Len(b)
         /\ \A k \in 1 .. Len(a) : (a \o b)[k] = a[k]
         /\ \A k \in 1 .. Len(b) : (a \o b)[Len(a) + k] = b[k]
<1>1. /\ a \o b \in Seq(S) /\ Len(a \o b) = Len(a) + Len(b)
      /\ \A k \in 1 .. Len(a) + Len(b) : (a \o b)[k] = IF k <= Len(a) THEN a[k] ELSE b[k - Len(a)]
  BY ConcatProperties
<1>2. PICK p \in Nat, q \in Nat : Len(a) = p /\ Len(b) = q
  OBVIOUS
<1>3. \A k \in 1 .. p : k \in 1 .. p + q /\ k <= p
  OBVIOUS
<1>4. \A k \in 1 .. q : p + k \in 1 .. p + q /\ ~ (p + k <= p) /\ (p + k) - p = k
  OBVIOUS
<1>5. \A k \in 1 .. p + q : (a \o b)[k] = IF k <= p THEN a[k] ELSE b[k - p]
  BY <1>1, <1>2, Zenon
<1>6. \A k \in 1 .. p : (a \o b)[k] = a[k]
  BY <1>3, <1>5, Zenon
<1>7. \A k \in 1 .. q : (a \o b)[p + k] = b[k]
  BY <1>4, <1>5, Zenon
<1> QED BY <1>1, <1>2, <1>6, <1>7, Zenon

(* A sequence of a set is one of any larger set.                           *)
LEMMA OfLarger ==
  ASSUME NEW S, NEW T, S \subseteq T, NEW s \in Seq(S)
  PROVE  s \in Seq(T)
OBVIOUS

(* Steps that are taken one after the other lead somewhere, and to one     *)
(* place only.                                                             *)
Leads(g, first, n, step) == g[0] = first /\ \A k \in 1 .. n : g[k] = step[k][g[k - 1]]
Alike(g, h, n) == g[0] = h[0] /\ \A k \in 1 .. n : g[k - 1] = h[k - 1] => g[k] = h[k]

(* Whatever the steps are, they can be taken.                              *)
LEMMA StepsLead ==
  ASSUME NEW S, NEW first \in S, NEW n \in Nat, NEW step \in [1 .. n -> [S -> S]]
  PROVE  \E g \in [0 .. n -> S] : Leads(g, first, n, step)
<1> DEFINE T == {m \in Nat : m <= n => \E g \in [0 .. m -> S] : Leads(g, first, m, step)}
<1>1. 0 \in T
  <2>1. Leads([k \in 0 .. 0 |-> first], first, 0, step)
    BY DEF Leads
  <2> QED BY <2>1
<1>2. ASSUME NEW m \in Nat, m \in T PROVE m + 1 \in T
  <2> SUFFICES ASSUME m + 1 <= n PROVE \E g \in [0 .. m + 1 -> S] : Leads(g, first, m + 1, step)
    OBVIOUS
  <2>1. PICK g \in [0 .. m -> S] : g[0] = first /\ \A k \in 1 .. m : g[k] = step[k][g[k - 1]]
    BY <1>2 DEF Leads
  <2> DEFINE h == [k \in 0 .. m + 1 |-> IF k = m + 1 THEN step[m + 1][g[m]] ELSE g[k]]
  <2>2. step[m + 1][g[m]] \in S
    <3>1. m + 1 \in 1 .. n /\ m \in 0 .. m
      OBVIOUS
    <3> QED BY <3>1
  <2>3. h \in [0 .. m + 1 -> S]
    BY <2>2
  <2>4. h[0] = first
    BY <2>1
  <2>5. ASSUME NEW k \in 1 .. m + 1 PROVE h[k] = step[k][h[k - 1]]
    <3>1. CASE k = m + 1
      <4>1. h[k] = step[k][g[m]] /\ h[k - 1] = g[m]
        BY <3>1
      <4> QED BY <4>1
    <3>2. CASE k # m + 1
      <4>1. k \in 1 .. m /\ h[k] = g[k] /\ h[k - 1] = g[k - 1]
        BY <3>2
      <4> QED BY <2>1, <4>1
    <3> QED BY <3>1, <3>2
  <2> HIDE DEF h
  <2>6. Leads(h, first, m + 1, step)
    BY <2>4, <2>5, Zenon DEF Leads
  <2> QED BY <2>3, <2>6
<1> HIDE DEF T
<1>3. n \in T
  BY <1>1, <1>2, AllOf
<1> QED BY <1>3 DEF T

(* Two walks that begin alike and step alike are the same walk.            *)
LEMMA SameSteps ==
  ASSUME NEW n \in Nat, NEW g, NEW h, Alike(g, h, n)
  PROVE  \A k \in 0 .. n : g[k] = h[k]
<1> DEFINE T == {m \in Nat : m <= n => g[m] = h[m]}
<1>1. 0 \in T
  BY DEF Alike
<1>2. ASSUME NEW m \in Nat, m \in T PROVE m + 1 \in T
  <2> SUFFICES ASSUME m + 1 <= n PROVE g[m + 1] = h[m + 1]
    OBVIOUS
  <2>1. m + 1 \in 1 .. n /\ (m + 1) - 1 = m /\ g[m] = h[m]
    BY <1>2
  <2>2. g[(m + 1) - 1] = h[(m + 1) - 1] => g[m + 1] = h[m + 1]
    BY <2>1, Zenon DEF Alike
  <2> QED BY <2>1, <2>2
<1> HIDE DEF T
<1>3. Nat \subseteq T
  BY <1>1, <1>2, AllOf
<1>4. \A m \in 0 .. n : m \in Nat /\ m <= n
  OBVIOUS
<1> QED BY <1>3, <1>4 DEF T

(* Induction on sequences, for a set in place of a predicate.              *)
LEMMA AllSequences ==
  ASSUME NEW S, NEW T, <<>> \in T, \A s \in Seq(S), e \in S : s \in T => Append(s, e) \in T
  PROVE  Seq(S) \subseteq T
<1> DEFINE L == {m \in Nat : \A s \in Seq(S) : Len(s) = m => s \in T}
<1>1. 0 \in L
  <2>1. ASSUME NEW s \in Seq(S), Len(s) = 0 PROVE s \in T
    <3>1. s = <<>>
      BY <2>1, EmptySeq
    <3> QED BY <3>1
  <2> QED BY <2>1
<1>2. ASSUME NEW m \in Nat, m \in L PROVE m + 1 \in L
  <2>1. ASSUME NEW s \in Seq(S), Len(s) = m + 1 PROVE s \in T
    <3>1. s # <<>>
      BY <2>1, EmptySeq
    <3>2. PICK r \in Seq(S), e \in S : s = Append(r, e)
      BY <3>1, SequenceEmptyOrAppend
    <3>3. Len(s) = Len(r) + 1 /\ Len(r) \in Nat
      BY <3>2, AppendProperties, LenProperties
    <3>4. Len(r) = m
      BY <2>1, <3>3
    <3> QED BY <1>2, <3>2, <3>4
  <2> QED BY <2>1
<1> HIDE DEF L
<1>3. Nat \subseteq L
  BY <1>1, <1>2, AllOf
<1>4. ASSUME NEW s \in Seq(S) PROVE s \in T
  <2>1. Len(s) \in Nat
    BY LenProperties
  <2> QED BY <1>3, <2>1 DEF L
<1> QED BY <1>4

(* The bytes of a path are the sizes of its nodes, one after the other.    *)
LEMMA BytesSteps ==
  ASSUME NEW S, \A x \in S : x.size \in Nat, NEW s \in Seq(S)
  PROVE  \E g \in [0 .. Len(s) -> Nat] :
           /\ g[0] = 0 /\ \A k \in 1 .. Len(s) : g[k] = g[k - 1] + s[k].size
           /\ dpath!Bytes(s) = g[Len(s)]
<1> DEFINE F(f) == [k \in 0 .. Len(s) |-> IF k = 0 THEN 0 ELSE f[k - 1] + s[k].size]
           sum == CHOOSE f : f = F(f)
           step == [k \in 1 .. Len(s) |-> [x \in Nat |-> x + s[k].size]]
<1>0. PICK n \in Nat : n = Len(s) /\ \A k \in 1 .. n : s[k].size \in Nat
  <2>1. Len(s) \in Nat /\ \A k \in 1 .. Len(s) : s[k] \in S
    BY LenProperties, ElementOfSeq
  <2> QED BY <2>1
<1>1. dpath!Bytes(s) = sum[n]
  BY <1>0 DEF dpath!Bytes
<1>2. step \in [1 .. n -> [Nat -> Nat]]
  BY <1>0
<1>3. PICK g \in [0 .. n -> Nat] : g[0] = 0 /\ \A k \in 1 .. n : g[k] = step[k][g[k - 1]]
  <2> HIDE DEF step
  <2>1. 0 \in Nat
    OBVIOUS
  <2>2. \E g \in [0 .. n -> Nat] : Leads(g, 0, n, step)
    BY <1>2, <2>1, StepsLead
  <2> QED BY <2>2, Zenon DEF Leads
<1>4. \A k \in 1 .. n : g[k] = g[k - 1] + s[k].size
  <2>1. ASSUME NEW k \in 1 .. n PROVE g[k] = g[k - 1] + s[k].size
    <3>1. g[k - 1] \in Nat
      BY <1>3
    <3>2. step[k][g[k - 1]] = g[k - 1] + s[k].size
      BY <1>0, <3>1
    <3> QED BY <1>3, <3>2
  <2> QED BY <2>1
<1>5. g = F(g)
  <2>1. ASSUME NEW k \in 0 .. n PROVE g[k] = IF k = 0 THEN 0 ELSE g[k - 1] + s[k].size
    <3>1. k # 0 => k \in 1 .. n
      OBVIOUS
    <3> QED BY <1>3, <1>4, <3>1
  <2> QED BY <1>0, <2>1
<1>6. sum = F(sum)
  <2> HIDE DEF F
  <2> QED BY <1>5
<1>7. \A k \in 0 .. n : sum[k] = g[k]
  <2> HIDE DEF sum
  <2>1. sum[0] = g[0]
    BY <1>0, <1>3, <1>6
  <2>2. ASSUME NEW k \in 1 .. n, sum[k - 1] = g[k - 1] PROVE sum[k] = g[k]
    <3>1. k \in 0 .. n /\ k # 0
      OBVIOUS
    <3>2. sum[k] = sum[k - 1] + s[k].size
      BY <1>0, <1>6, <3>1
    <3> QED BY <1>4, <2>2, <3>2
  <2> HIDE DEF F
  <2>3. Alike(sum, g, n)
    BY <2>1, <2>2, Zenon DEF Alike
  <2> QED BY <2>3, SameSteps
<1>8. dpath!Bytes(s) = g[n]
  <2>1. n \in 0 .. n
    OBVIOUS
  <2> QED BY <1>1, <1>7, <2>1
<1> QED BY <1>0, <1>3, <1>4, <1>8

(* What is appended stays last when something is put before it.            *)
LEMMA AppendedLast ==
  ASSUME NEW S, NEW a \in Seq(S), NEW b \in Seq(S), NEW e \in S
  PROVE  a \o Append(b, e) = Append(a \o b, e)
<1>1. Append(b, e) = b \o <<e>> /\ Append(a \o b, e) = (a \o b) \o <<e>>
  BY ConcatProperties, AppendIsConcat
<1>2. <<e>> \in Seq(S)
  OBVIOUS
<1>3. (a \o b) \o <<e>> = a \o (b \o <<e>>)
  BY <1>2, ConcatAssociative
<1> QED BY <1>1, <1>3

Sized(S) == \A x \in S : x.size \in Nat

(* One more element adds its size.                                         *)
LEMMA BytesOfAppend ==
  ASSUME NEW S, Sized(S), NEW s \in Seq(S), NEW e \in S
  PROVE  /\ dpath!Bytes(s) \in Nat
         /\ dpath!Bytes(Append(s, e)) = dpath!Bytes(s) + e.size
<1>1. PICK n \in Nat : n = Len(s)
  BY LenProperties
<1>2. /\ Append(s, e) \in Seq(S) /\ Len(Append(s, e)) = n + 1
      /\ Append(s, e)[n + 1] = e /\ \A k \in 1 .. n : Append(s, e)[k] = s[k]
  BY <1>1, AppendProperties
<1>3. PICK g \in [0 .. n -> Nat] :
        /\ g[0] = 0 /\ \A k \in 1 .. n : g[k] = g[k - 1] + s[k].size
        /\ dpath!Bytes(s) = g[n]
  BY <1>1, BytesSteps DEF Sized
<1>4. PICK h \in [0 .. n + 1 -> Nat] :
        /\ h[0] = 0 /\ \A k \in 1 .. n + 1 : h[k] = h[k - 1] + Append(s, e)[k].size
        /\ dpath!Bytes(Append(s, e)) = h[n + 1]
  BY <1>2, BytesSteps DEF Sized
<1>5. Alike(h, g, n)
  <2>1. ASSUME NEW k \in 1 .. n, h[k - 1] = g[k - 1] PROVE h[k] = g[k]
    <3>1. k \in 1 .. n + 1
      OBVIOUS
    <3> QED BY <1>2, <1>3, <1>4, <2>1, <3>1, Zenon
  <2> QED BY <1>3, <1>4, <2>1, Zenon DEF Alike
<1>6. h[n] = g[n]
  <2>1. n \in 0 .. n
    OBVIOUS
  <2> QED BY <1>5, <2>1, SameSteps
<1>7. n + 1 \in 1 .. n + 1 /\ (n + 1) - 1 = n /\ n \in 0 .. n
  OBVIOUS
<1> QED BY <1>2, <1>3, <1>4, <1>6, <1>7, Zenon

(* Nothing has no bytes.                                                   *)
LEMMA BytesOfNone == dpath!Bytes(<<>>) = 0
<1>1. \A x \in {} : x.size \in Nat
  OBVIOUS
<1>2. <<>> \in Seq({}) /\ Len(<<>>) = 0
  OBVIOUS
<1> QED BY <1>1, <1>2, BytesSteps

(* Two parts have the bytes of both.                                       *)
LEMMA BytesOfTwo ==
  ASSUME NEW S, Sized(S), NEW a \in Seq(S), NEW b \in Seq(S)
  PROVE  dpath!Bytes(a \o b) = dpath!Bytes(a) + dpath!Bytes(b)
<1> DEFINE T == {x \in Seq(S) : dpath!Bytes(a \o x) = dpath!Bytes(a) + dpath!Bytes(x)}
<1>0. \A x \in Seq(S) : dpath!Bytes(x) \in Nat
  <2>1. ASSUME NEW x \in Seq(S) PROVE dpath!Bytes(x) \in Nat
    <3>1. PICK g \in [0 .. Len(x) -> Nat] : dpath!Bytes(x) = g[Len(x)]
      BY BytesSteps DEF Sized
    <3>2. Len(x) \in 0 .. Len(x)
      BY LenProperties
    <3> QED BY <3>1, <3>2
  <2> QED BY <2>1
<1>1. <<>> \in T
  <2>1. a \o <<>> = a /\ <<>> \in Seq(S)
    BY ConcatEmptySeq, EmptySeq
  <2> QED BY <1>0, <2>1, BytesOfNone
<1>2. ASSUME NEW x \in Seq(S), NEW e \in S, x \in T PROVE Append(x, e) \in T
  <2>1. a \o Append(x, e) = Append(a \o x, e)
    BY AppendedLast
  <2>2. a \o x \in Seq(S) /\ Append(x, e) \in Seq(S)
    BY ConcatProperties, AppendProperties
  <2>3. /\ dpath!Bytes(Append(a \o x, e)) = dpath!Bytes(a \o x) + e.size
        /\ dpath!Bytes(Append(x, e)) = dpath!Bytes(x) + e.size
    BY <2>2, BytesOfAppend
  <2>4. dpath!Bytes(a \o x) = dpath!Bytes(a) + dpath!Bytes(x)
    BY <1>2
  <2>5. e.size \in Nat /\ dpath!Bytes(a) \in Nat /\ dpath!Bytes(x) \in Nat
    BY <1>0, Zenon DEF Sized
  <2>6. \A p, q, r \in Nat : (p + q) + r = p + (q + r)
    OBVIOUS
  <2>7. dpath!Bytes(a \o Append(x, e)) = (dpath!Bytes(a) + dpath!Bytes(x)) + e.size
    BY <2>1, <2>3, <2>4, Zenon
  <2>8. dpath!Bytes(a) + dpath!Bytes(Append(x, e))
        = dpath!Bytes(a) + (dpath!Bytes(x) + e.size)
    BY <2>3, Zenon
  <2>9. dpath!Bytes(a \o Append(x, e)) = dpath!Bytes(a) + dpath!Bytes(Append(x, e))
    BY <2>5, <2>6, <2>7, <2>8, Zenon
  <2> QED BY <2>2, <2>9
<1> HIDE DEF T
<1>3. Seq(S) \subseteq T
  BY <1>1, <1>2, AllSequences
<1> QED BY <1>3 DEF T

(* Nodes, and what a walk has found of a path's instances.                 *)
End == dpath!End
EndInstance == dpath!EndInstance
AnyNode == Nodes \union {End, EndInstance}
Walks == [done : Seq(Seq(Nodes)), inst : Seq(Nodes)]
Nothing == [done |-> <<>>, inst |-> <<>>]

(* What EfiPathsAssumption says of the nodes.                              *)
LEMMA NodeFacts ==
  ASSUME dpath!EfiPathsAssumption
  PROVE  /\ Sized(AnyNode) /\ dpath!Memory = Seq(AnyNode)
         /\ End.size = HEADER /\ EndInstance.size = HEADER /\ HEADER \in Nat /\ End # EndInstance
         /\ \A n \in AnyNode : dpath!IsDevicePathEndType(n) <=> n \notin Nodes
<1>1. /\ HEADER \in Nat \ {0}
      /\ \A n \in Nodes \union {dpath!End} : n.size \in Nat
      /\ \A n \in Nodes : n.kind \notin {"end", "end_instance"}
  BY Zenon DEF dpath!EfiPathsAssumption
<1>2. HEADER \in Nat
  BY <1>1
<1>3. \A n \in Nodes : n.size \in Nat
  BY <1>1
<1>4. End = [kind |-> "end", size |-> HEADER] /\ EndInstance = [kind |-> "end_instance", size |-> HEADER]
  BY Zenon DEF End, EndInstance, dpath!End, dpath!EndInstance
<1>5. /\ End.size = HEADER /\ EndInstance.size = HEADER
      /\ End.kind = "end" /\ EndInstance.kind = "end_instance"
  BY <1>4
<1>6. Sized(AnyNode)
  BY <1>2, <1>3, <1>5 DEF Sized, AnyNode
<1>7. End \notin Nodes /\ EndInstance \notin Nodes
  BY <1>1, <1>5, Zenon
<1>8. "end" # "end_instance"
  OBVIOUS
<1>9. End # EndInstance
  BY <1>5, <1>8, Zenon
<1>10. dpath!Memory = Seq(AnyNode)
  BY Zenon DEF dpath!Memory, AnyNode, End, EndInstance
<1>11. \A n \in AnyNode : dpath!IsDevicePathEndType(n) <=> n \notin Nodes
  BY <1>7, Zenon DEF AnyNode, dpath!IsDevicePathEndType, End, EndInstance
<1> QED BY <1>2, <1>5, <1>6, <1>9, <1>10, <1>11, Zenon

(* Nodes, and instances, put behind others.                                *)
LEMMA NodeBehind == \A a, b \in Seq(Nodes), e \in Nodes : a \o Append(b, e) = Append(a \o b, e)
BY AppendedLast

(* The same of the nodes in memory,                                        *)
LEMMA AnyBehind == \A a, b \in Seq(AnyNode), e \in AnyNode : a \o Append(b, e) = Append(a \o b, e)
BY AppendedLast

(* and of instances.                                                       *)
LEMMA InstanceBehind ==
  \A a, b \in Seq(Seq(Nodes)), e \in Seq(Nodes) :
    a \o Append(b, e) = Append(a \o b, e) /\ Append(b, e) # <<>>
<1> DEFINE I == Seq(Nodes)
<1> HIDE DEF I
<1>1. \A a, b \in Seq(I), e \in I : a \o Append(b, e) = Append(a \o b, e)
  BY AppendedLast
<1>2. \A b \in Seq(I), e \in I : Append(b, e) # <<>>
  BY AppendProperties
<1> QED BY <1>1, <1>2, Zenon DEF I

(* Where they are joined first does not matter.                            *)
LEMMA JoinedAlike == \A a, b, c \in Seq(AnyNode) : (a \o b) \o c = a \o (b \o c)
BY ConcatAssociative

(* DevicePathInstance collects instances, node by node,                    *)
LEMMA WalkedOn ==
  ASSUME dpath!EfiPathsAssumption, NEW st \in Walks, NEW n \in AnyNode
  PROVE  dpath!Walked(st, n) \in Walks
<1>1. st.done \in Seq(Seq(Nodes)) /\ st.inst \in Seq(Nodes)
  BY DEF Walks
<1>2. CASE n \in Nodes
  <2>1. dpath!Walked(st, n) = [done |-> st.done, inst |-> Append(st.inst, n)]
    BY <1>2, NodeFacts DEF dpath!Walked
  <2>2. Append(st.inst, n) \in Seq(Nodes)
    BY <1>1, <1>2, AppendProperties
  <2> QED BY <1>1, <2>1, <2>2 DEF Walks
<1>3. CASE n \notin Nodes
  <2>1. dpath!Walked(st, n) = [done |-> Append(st.done, st.inst), inst |-> <<>>]
    BY <1>3, NodeFacts DEF dpath!Walked
  <2>2. Append(st.done, st.inst) \in Seq(Seq(Nodes)) /\ <<>> \in Seq(Nodes)
    BY <1>1, AppendProperties
  <2> QED BY <2>1, <2>2 DEF Walks
<1> QED BY <1>2, <1>3

(* from the first node of the memory to the last;                          *)
LEMMA WalkSteps ==
  ASSUME dpath!EfiPathsAssumption, NEW s \in Seq(AnyNode)
  PROVE  \E g \in [0 .. Len(s) -> Walks] :
           /\ g[0] = Nothing
           /\ \A k \in 1 .. Len(s) : g[k] = dpath!Walked(g[k - 1], s[k])
           /\ dpath!Walk(s) = g[Len(s)]
<1> DEFINE F(f) == [k \in 0 .. Len(s) |->
                      IF k = 0 THEN Nothing ELSE dpath!Walked(f[k - 1], s[k])]
           walk == CHOOSE f : f = F(f)
           step == [k \in 1 .. Len(s) |-> [x \in Walks |-> dpath!Walked(x, s[k])]]
<1>0. PICK n \in Nat : n = Len(s) /\ \A k \in 1 .. n : s[k] \in AnyNode
  <2>1. Len(s) \in Nat /\ \A k \in 1 .. Len(s) : s[k] \in AnyNode
    BY LenProperties, ElementOfSeq
  <2> QED BY <2>1
<1>1. dpath!Walk(s) = walk[n]
  BY <1>0 DEF dpath!Walk, Nothing
<1>2. step \in [1 .. n -> [Walks -> Walks]]
  BY <1>0, WalkedOn
<1>3. PICK g \in [0 .. n -> Walks] : g[0] = Nothing /\ \A k \in 1 .. n : g[k] = step[k][g[k - 1]]
  <2> HIDE DEF step
  <2>1. Nothing \in Walks
    BY DEF Walks, Nothing
  <2>2. \E g \in [0 .. n -> Walks] : Leads(g, Nothing, n, step)
    BY <1>2, <2>1, StepsLead
  <2> QED BY <2>2, Zenon DEF Leads
<1>4. \A k \in 1 .. n : g[k] = dpath!Walked(g[k - 1], s[k])
  <2>1. ASSUME NEW k \in 1 .. n PROVE g[k] = dpath!Walked(g[k - 1], s[k])
    <3>1. g[k - 1] \in Walks
      BY <1>3
    <3>2. step[k][g[k - 1]] = dpath!Walked(g[k - 1], s[k])
      BY <1>0, <3>1
    <3> QED BY <1>3, <3>2
  <2> QED BY <2>1
<1>5. g = F(g)
  <2>1. ASSUME NEW k \in 0 .. n
        PROVE  g[k] = IF k = 0 THEN Nothing ELSE dpath!Walked(g[k - 1], s[k])
    <3>1. k # 0 => k \in 1 .. n
      OBVIOUS
    <3> QED BY <1>3, <1>4, <3>1, Zenon
  <2> QED BY <1>0, <2>1
<1>6. walk = F(walk)
  <2> HIDE DEF F
  <2> QED BY <1>5
<1>7. \A k \in 0 .. n : walk[k] = g[k]
  <2> HIDE DEF walk
  <2>1. walk[0] = g[0]
    BY <1>0, <1>3, <1>6
  <2>2. ASSUME NEW k \in 1 .. n, walk[k - 1] = g[k - 1] PROVE walk[k] = g[k]
    <3>1. k \in 0 .. n /\ k # 0
      OBVIOUS
    <3>2. walk[k] = dpath!Walked(walk[k - 1], s[k])
      BY <1>0, <1>6, <3>1
    <3> QED BY <1>4, <2>2, <3>2, Zenon
  <2> HIDE DEF F
  <2>3. Alike(walk, g, n)
    BY <2>1, <2>2, Zenon DEF Alike
  <2> QED BY <2>3, SameSteps
<1>8. dpath!Walk(s) = g[n]
  <2>1. n \in 0 .. n
    OBVIOUS
  <2> QED BY <1>1, <1>7, <2>1
<1> QED BY <1>0, <1>3, <1>4, <1>8

(* one node more is one more step;                                         *)
LEMMA WalkOfAppend ==
  ASSUME dpath!EfiPathsAssumption, NEW s \in Seq(AnyNode), NEW e \in AnyNode
  PROVE  /\ dpath!Walk(s) \in Walks
         /\ dpath!Walk(Append(s, e)) = dpath!Walked(dpath!Walk(s), e)
<1>1. PICK n \in Nat : n = Len(s)
  BY LenProperties
<1>2. /\ Append(s, e) \in Seq(AnyNode) /\ Len(Append(s, e)) = n + 1
      /\ Append(s, e)[n + 1] = e /\ \A k \in 1 .. n : Append(s, e)[k] = s[k]
  BY <1>1, AppendProperties
<1>3. PICK g \in [0 .. n -> Walks] :
        /\ g[0] = Nothing /\ \A k \in 1 .. n : g[k] = dpath!Walked(g[k - 1], s[k])
        /\ dpath!Walk(s) = g[n]
  BY <1>1, WalkSteps
<1>4. PICK h \in [0 .. n + 1 -> Walks] :
        /\ h[0] = Nothing
        /\ \A k \in 1 .. n + 1 : h[k] = dpath!Walked(h[k - 1], Append(s, e)[k])
        /\ dpath!Walk(Append(s, e)) = h[n + 1]
  BY <1>2, WalkSteps
<1>5. Alike(h, g, n)
  <2>1. ASSUME NEW k \in 1 .. n, h[k - 1] = g[k - 1] PROVE h[k] = g[k]
    <3>1. k \in 1 .. n + 1
      OBVIOUS
    <3> QED BY <1>2, <1>3, <1>4, <2>1, <3>1, Zenon
  <2> QED BY <1>3, <1>4, <2>1, Zenon DEF Alike
<1>6. h[n] = g[n]
  <2>1. n \in 0 .. n
    OBVIOUS
  <2> QED BY <1>5, <2>1, SameSteps
<1>7. n + 1 \in 1 .. n + 1 /\ (n + 1) - 1 = n /\ n \in 0 .. n
  OBVIOUS
<1>8. h[n + 1] = dpath!Walked(h[(n + 1) - 1], e)
  BY <1>2, <1>4, <1>7, Zenon
<1> QED BY <1>3, <1>4, <1>6, <1>7, <1>8, Zenon

(* without nodes there are no instances;                                   *)
LEMMA WalkOfNone ==
  ASSUME dpath!EfiPathsAssumption
  PROVE  dpath!Walk(<<>>) = Nothing
<1>1. <<>> \in Seq(AnyNode) /\ Len(<<>>) = 0
  OBVIOUS
<1> QED BY <1>1, WalkSteps

(* a node that ends nothing joins the instance begun, any other ends it.   *)
LEMMA WalkedNode ==
  ASSUME dpath!EfiPathsAssumption, NEW st, NEW n \in AnyNode
  PROVE  /\ n \in Nodes => dpath!Walked(st, n) = [done |-> st.done, inst |-> Append(st.inst, n)]
         /\ n \notin Nodes => dpath!Walked(st, n) = [done |-> Append(st.done, st.inst), inst |-> <<>>]
  BY NodeFacts, Zenon DEF dpath!Walked

(* Nodes that end nothing are the beginning of an instance.                *)
LEMMA WalkOfNodes ==
  ASSUME dpath!EfiPathsAssumption, NEW s \in Seq(Nodes)
  PROVE  dpath!Walk(s) = [done |-> <<>>, inst |-> s]
<1> DEFINE T == {x \in Seq(Nodes) : dpath!Walk(x) = [done |-> <<>>, inst |-> x]}
<1>1. <<>> \in T
  BY WalkOfNone DEF Nothing
<1>2. ASSUME NEW x \in Seq(Nodes), NEW e \in Nodes, x \in T PROVE Append(x, e) \in T
  <2>1. e \in AnyNode /\ x \in Seq(AnyNode)
    BY OfLarger DEF AnyNode
  <2>2. dpath!Walk(Append(x, e)) = dpath!Walked(dpath!Walk(x), e)
    BY <2>1, WalkOfAppend
  <2>3. dpath!Walk(x) = [done |-> <<>>, inst |-> x]
    BY <1>2
  <2>4. [done |-> <<>>, inst |-> x].done = <<>> /\ [done |-> <<>>, inst |-> x].inst = x
    OBVIOUS
  <2>5. dpath!Walked(dpath!Walk(x), e) = [done |-> <<>>, inst |-> Append(x, e)]
    BY <2>1, <2>3, <2>4, WalkedNode, Zenon
  <2>6. Append(x, e) \in Seq(Nodes)
    BY AppendProperties
  <2> QED BY <2>2, <2>5, <2>6
<1> HIDE DEF T
<1>3. Seq(Nodes) \subseteq T
  BY <1>1, <1>2, AllSequences
<1> QED BY <1>3 DEF T

(* A walk over two paths, the first of which ends with the end of an       *)
(* instance: the second one's instances follow the first one's.            *)
LEMMA WalkAfterEnd ==
  ASSUME dpath!EfiPathsAssumption, NEW x \in Seq(AnyNode), NEW y \in Seq(AnyNode),
         dpath!Walk(x).inst = <<>>
  PROVE  dpath!Walk(x \o y) =
           [done |-> dpath!Walk(x).done \o dpath!Walk(y).done, inst |-> dpath!Walk(y).inst]
<1> DEFINE d == dpath!Walk(x).done
           Both(w) == [done |-> d \o w.done, inst |-> w.inst]
           T == {z \in Seq(AnyNode) : dpath!Walk(x \o z) = Both(dpath!Walk(z))}
<1>0. dpath!Walk(x) = [done |-> d, inst |-> <<>>] /\ d \in Seq(Seq(Nodes))
  <2>1. dpath!Walk(x) \in Walks
    BY WalkSteps, LenProperties
  <2> QED BY <2>1 DEF Walks
<1>1. <<>> \in T
  <2>1. x \o <<>> = x /\ d \o <<>> = d /\ <<>> \in Seq(AnyNode)
    BY <1>0, ConcatEmptySeq, EmptySeq
  <2>2. Nothing.done = <<>> /\ Nothing.inst = <<>>
    BY DEF Nothing
  <2> QED BY <1>0, <2>1, <2>2, WalkOfNone, Zenon
<1>2. ASSUME NEW z \in Seq(AnyNode), NEW e \in AnyNode, z \in T PROVE Append(z, e) \in T
  <2> DEFINE w == dpath!Walk(z)
  <2>1. x \o Append(z, e) = Append(x \o z, e)
    BY AnyBehind, Zenon
  <2>2. x \o z \in Seq(AnyNode) /\ Append(z, e) \in Seq(AnyNode)
    BY ConcatProperties, AppendProperties
  <2>3. /\ dpath!Walk(Append(x \o z, e)) = dpath!Walked(dpath!Walk(x \o z), e)
        /\ dpath!Walk(Append(z, e)) = dpath!Walked(w, e) /\ w \in Walks
    BY <2>2, WalkOfAppend
  <2>4. w.done \in Seq(Seq(Nodes)) /\ w.inst \in Seq(Nodes)
    BY <2>3 DEF Walks
  <2>5. dpath!Walk(x \o z) = Both(w)
    BY <1>2
  <2>6. Both(w).done = d \o w.done /\ Both(w).inst = w.inst
    OBVIOUS
  <2> HIDE DEF d, w
  <2>7. dpath!Walked(Both(w), e) = Both(dpath!Walked(w, e))
    <3>1. CASE e \in Nodes
      <4>1. dpath!Walked(w, e) = [done |-> w.done, inst |-> Append(w.inst, e)]
        BY <3>1, WalkedNode
      <4>2. dpath!Walked(Both(w), e) = [done |-> d \o w.done, inst |-> Append(w.inst, e)]
        BY <2>6, <3>1, WalkedNode
      <4> QED BY <4>1, <4>2
    <3>2. CASE e \notin Nodes
      <4>1. dpath!Walked(w, e) = [done |-> Append(w.done, w.inst), inst |-> <<>>]
        BY <3>2, WalkedNode
      <4>2. dpath!Walked(Both(w), e) = [done |-> Append(d \o w.done, w.inst), inst |-> <<>>]
        BY <2>6, <3>2, WalkedNode
      <4>3. d \o Append(w.done, w.inst) = Append(d \o w.done, w.inst)
        BY <1>0, <2>4, InstanceBehind, Zenon
      <4>4. /\ dpath!Walked(w, e).done = Append(w.done, w.inst)
            /\ dpath!Walked(w, e).inst = <<>>
        BY <4>1
      <4> QED BY <4>2, <4>3, <4>4, Zenon
    <3> QED BY <3>1, <3>2
  <2> HIDE DEF Both
  <2>8. dpath!Walk(x \o Append(z, e)) = Both(dpath!Walk(Append(z, e)))
    BY <2>1, <2>3, <2>5, <2>7, Zenon
  <2> QED BY <2>2, <2>8
<1> HIDE DEF T
<1>3. Seq(AnyNode) \subseteq T
  BY <1>1, <1>2, AllSequences
<1> QED BY <1>3 DEF T

(* What a walk has found once the path it walked over ends, and what it    *)
(* finds when nodes come before that path.                                 *)
Found(w) == Append(w.done, w.inst)
Behind(p, w) ==
  IF w.done = <<>> THEN [done |-> <<>>, inst |-> p \o w.inst]
  ELSE [done |-> [w.done EXCEPT ![1] = p \o @], inst |-> w.inst]

First(s, v) == [s EXCEPT ![1] = v]

(* One element, and it changed.                                            *)
LEMMA FirstOfOne ==
  ASSUME NEW e, NEW v
  PROVE  First(<<e>>, v) = <<v>>
  BY DEF First

(* Changing the first element and appending one do not interfere.          *)
LEMMA FirstChanged ==
  ASSUME NEW S, NEW d \in Seq(S), NEW e \in S, NEW v \in S
  PROVE  /\ d # <<>> => Append(First(d, v), e) = First(Append(d, e), v)
         /\ d # <<>> => First(d, v) \in Seq(S)
<1>1. PICK n \in Nat : n = Len(d)
  BY LenProperties
<1>2. /\ Append(d, e) \in Seq(S) /\ Len(Append(d, e)) = n + 1
      /\ Append(d, e)[n + 1] = e /\ \A k \in 1 .. n : Append(d, e)[k] = d[k]
  BY <1>1, AppendProperties
<1>3. 1 \in 1 .. n + 1
  OBVIOUS
<1>4. /\ [Append(d, e) EXCEPT ![1] = v] \in Seq(S) /\ Len([Append(d, e) EXCEPT ![1] = v]) = n + 1
      /\ \A k \in 1 .. n + 1 : [Append(d, e) EXCEPT ![1] = v][k] = IF k = 1 THEN v ELSE Append(d, e)[k]
  <2> DEFINE a == Append(d, e)
  <2>1. a \in Seq(S) /\ Len(a) = n + 1 /\ 1 \in 1 .. Len(a)
    BY <1>2, <1>3
  <2> HIDE DEF a
  <2>2. /\ [a EXCEPT ![1] = v] \in Seq(S) /\ Len([a EXCEPT ![1] = v]) = Len(a)
        /\ \A k \in 1 .. Len(a) : [a EXCEPT ![1] = v][k] = IF k = 1 THEN v ELSE a[k]
    BY <2>1, ExceptSeq
  <2> QED BY <2>1, <2>2, Zenon DEF a
<1>5. CASE d # <<>>
  <2>1. n \in Nat \ {0} /\ 1 \in 1 .. Len(d)
    BY <1>1, <1>5, EmptySeq
  <2>2. /\ [d EXCEPT ![1] = v] \in Seq(S) /\ Len([d EXCEPT ![1] = v]) = n
        /\ \A k \in 1 .. n : [d EXCEPT ![1] = v][k] = IF k = 1 THEN v ELSE d[k]
    BY <1>1, <2>1, ExceptSeq
  <2> DEFINE x == [d EXCEPT ![1] = v]
             y == [Append(d, e) EXCEPT ![1] = v]
  <2> HIDE DEF x, y
  <2>3. x \in Seq(S) /\ Len(x) = n /\ \A k \in 1 .. n : x[k] = IF k = 1 THEN v ELSE d[k]
    BY <2>2 DEF x
  <2>4. /\ y \in Seq(S) /\ Len(y) = n + 1
        /\ \A k \in 1 .. n + 1 : y[k] = IF k = 1 THEN v ELSE Append(d, e)[k]
    BY <1>4 DEF y
  <2>5. /\ Append(x, e) \in Seq(S) /\ Len(Append(x, e)) = n + 1
        /\ Append(x, e)[n + 1] = e /\ \A k \in 1 .. n : Append(x, e)[k] = x[k]
    BY <2>3, AppendProperties
  <2>6. ASSUME NEW k \in 1 .. n + 1 PROVE Append(x, e)[k] = y[k]
    <3>1. CASE k = n + 1
      <4>1. k # 1
        BY <2>1, <3>1
      <4> QED BY <1>2, <2>4, <2>5, <3>1, <4>1
    <3>2. CASE k # n + 1
      <4>1. k \in 1 .. n
        BY <3>2
      <4> QED BY <1>2, <2>3, <2>4, <2>5, <4>1, Zenon
    <3> QED BY <3>1, <3>2
  <2>7. Append(x, e) = y
    BY <2>4, <2>5, <2>6, SeqEqual
  <2> QED BY <1>5, <2>3, <2>7, Zenon DEF x, y, First
<1> QED BY <1>5

(* Nodes before a path come before its first instance,                     *)
LEMMA FoundBehind ==
  ASSUME NEW p \in Seq(Nodes), NEW w \in Walks
  PROVE  /\ Behind(p, w) \in Walks
         /\ Found(w) \in Seq(Seq(Nodes)) /\ Len(Found(w)) \in Nat \ {0} /\ Found(w)[1] \in Seq(Nodes)
         /\ Found(Behind(p, w)) = [Found(w) EXCEPT ![1] = p \o @]
<1>1. w.done \in Seq(Seq(Nodes)) /\ w.inst \in Seq(Nodes)
  BY DEF Walks
<1>2. /\ Found(w) \in Seq(Seq(Nodes)) /\ Len(Found(w)) = Len(w.done) + 1
      /\ Found(w)[Len(w.done) + 1] = w.inst
      /\ \A k \in 1 .. Len(w.done) : Found(w)[k] = w.done[k]
  BY <1>1, AppendProperties DEF Found
<1>3. PICK n \in Nat : n = Len(w.done)
  BY <1>1, LenProperties
<1>4. Found(w)[1] \in Seq(Nodes)
  <2>1. 1 \in 1 .. Len(Found(w))
    BY <1>2, <1>3
  <2> QED BY <1>2, <2>1, ElementOfSeq
<1>5. [Found(w) EXCEPT ![1] = p \o @] = [Found(w) EXCEPT ![1] = p \o Found(w)[1]]
  OBVIOUS
<1>6. CASE w.done = <<>>
  <2>1. Behind(p, w) = [done |-> <<>>, inst |-> p \o w.inst]
    BY <1>6 DEF Behind
  <2>2. p \o w.inst \in Seq(Nodes) /\ <<>> \in Seq(Seq(Nodes))
    BY <1>1, ConcatProperties, EmptySeq
  <2>3. Found(w)[1] = w.inst
    BY <1>1, <1>6 DEF Found
  <2>4. Found(Behind(p, w)) = Append(<<>>, p \o w.inst)
    BY <2>1 DEF Found
  <2>5. Append(<<>>, p \o w.inst) = First(Append(w.done, w.inst), p \o w.inst)
    <3>1. First(<<w.inst>>, p \o w.inst) = <<p \o w.inst>>
      BY FirstOfOne
    <3>2. Append(w.done, w.inst) = <<w.inst>> /\ Append(<<>>, p \o w.inst) = <<p \o w.inst>>
      BY <1>6
    <3> QED BY <3>1, <3>2, Zenon
  <2>6. Found(Behind(p, w)) = [Found(w) EXCEPT ![1] = p \o Found(w)[1]]
    BY <2>3, <2>4, <2>5, Zenon DEF Found, First
  <2>7. Behind(p, w) \in Walks
    BY <2>1, <2>2 DEF Walks
  <2> QED BY <1>2, <1>3, <1>4, <1>5, <2>6, <2>7
<1>7. CASE w.done # <<>>
  <2>1. Behind(p, w) = [done |-> [w.done EXCEPT ![1] = p \o w.done[1]], inst |-> w.inst]
    BY <1>7 DEF Behind
  <2>2. n # 0 /\ 1 \in 1 .. n
    BY <1>1, <1>3, <1>7, EmptySeq
  <2>3. Found(w)[1] = w.done[1]
    BY <1>2, <1>3, <2>2
  <2>4. p \o w.done[1] \in Seq(Nodes)
    BY <1>4, <2>3, ConcatProperties
  <2>5. /\ [w.done EXCEPT ![1] = p \o w.done[1]] \in Seq(Seq(Nodes))
        /\ Append([w.done EXCEPT ![1] = p \o w.done[1]], w.inst)
           = [Append(w.done, w.inst) EXCEPT ![1] = p \o w.done[1]]
    <3> DEFINE v == p \o w.done[1]
               d == w.done
               i == w.inst
    <3>1. v \in Seq(Nodes) /\ d \in Seq(Seq(Nodes)) /\ i \in Seq(Nodes) /\ d # <<>>
      BY <1>1, <1>7, <2>4
    <3> HIDE DEF v, d, i
    <3>2. Append(First(d, v), i) = First(Append(d, i), v) /\ First(d, v) \in Seq(Seq(Nodes))
      BY <3>1, FirstChanged
    <3> QED BY <3>2, Zenon DEF v, d, i, First
  <2>6. Found(Behind(p, w)) = Append([w.done EXCEPT ![1] = p \o w.done[1]], w.inst)
    BY <2>1 DEF Found
  <2>7. Found(Behind(p, w)) = [Found(w) EXCEPT ![1] = p \o Found(w)[1]]
    BY <2>3, <2>5, <2>6, Zenon DEF Found
  <2>8. Behind(p, w) \in Walks
    BY <1>1, <2>1, <2>5 DEF Walks
  <2> QED BY <1>2, <1>3, <1>4, <1>5, <2>7, <2>8
<1> QED BY <1>6, <1>7

(* which is how the walk finds them.                                       *)
LEMMA WalkBehind ==
  ASSUME dpath!EfiPathsAssumption, NEW p \in Seq(Nodes), NEW y \in Seq(AnyNode)
  PROVE  dpath!Walk(p \o y) = Behind(p, dpath!Walk(y))
<1> DEFINE T == {z \in Seq(AnyNode) : dpath!Walk(p \o z) = Behind(p, dpath!Walk(z))}
<1>0. p \in Seq(AnyNode)
  BY OfLarger DEF AnyNode
<1>1. <<>> \in T
  <2>1. p \o <<>> = p /\ <<>> \in Seq(AnyNode)
    BY ConcatEmptySeq, EmptySeq
  <2>2. Nothing.done = <<>> /\ Nothing.inst = <<>>
    BY DEF Nothing
  <2>3. Behind(p, Nothing) = [done |-> <<>>, inst |-> p]
    BY <2>1, <2>2, Zenon DEF Behind
  <2> QED BY <2>1, <2>3, WalkOfNone, WalkOfNodes, Zenon
<1>2. ASSUME NEW z \in Seq(AnyNode), NEW e \in AnyNode, z \in T PROVE Append(z, e) \in T
  <2> DEFINE w == dpath!Walk(z)
  <2>1. p \o Append(z, e) = Append(p \o z, e)
    BY <1>0, AnyBehind, Zenon
  <2>2. p \o z \in Seq(AnyNode) /\ Append(z, e) \in Seq(AnyNode)
    BY <1>0, ConcatProperties, AppendProperties
  <2>3. /\ dpath!Walk(Append(p \o z, e)) = dpath!Walked(dpath!Walk(p \o z), e)
        /\ dpath!Walk(Append(z, e)) = dpath!Walked(w, e) /\ w \in Walks
    BY <2>2, WalkOfAppend
  <2>4. w.done \in Seq(Seq(Nodes)) /\ w.inst \in Seq(Nodes)
    BY <2>3 DEF Walks
  <2>5. dpath!Walk(p \o z) = Behind(p, w)
    BY <1>2
  <2> HIDE DEF w
  <2>6. dpath!Walked(Behind(p, w), e) = Behind(p, dpath!Walked(w, e))
    <3>1. CASE e \in Nodes
      <4>1. dpath!Walked(w, e) = [done |-> w.done, inst |-> Append(w.inst, e)]
        BY <3>1, WalkedNode
      <4>2. dpath!Walked(w, e).done = w.done /\ dpath!Walked(w, e).inst = Append(w.inst, e)
        BY <4>1
      <4>3. dpath!Walked(Behind(p, w), e)
            = [done |-> Behind(p, w).done, inst |-> Append(Behind(p, w).inst, e)]
        BY <3>1, WalkedNode
      <4>4. CASE w.done = <<>>
        <5>1. Behind(p, w) = [done |-> <<>>, inst |-> p \o w.inst]
          BY <4>4 DEF Behind
        <5>2. Behind(p, w).done = <<>> /\ Behind(p, w).inst = p \o w.inst
          BY <5>1
        <5>3. p \o Append(w.inst, e) = Append(p \o w.inst, e)
          BY <2>4, <3>1, NodeBehind, Zenon
        <5>4. Behind(p, dpath!Walked(w, e)) = [done |-> <<>>, inst |-> p \o Append(w.inst, e)]
          BY <4>2, <4>4, Zenon DEF Behind
        <5> QED BY <4>3, <5>2, <5>3, <5>4, Zenon
      <4>5. CASE w.done # <<>>
        <5>1. Behind(p, w) = [done |-> [w.done EXCEPT ![1] = p \o @], inst |-> w.inst]
          BY <4>5 DEF Behind
        <5>2. Behind(p, w).done = [w.done EXCEPT ![1] = p \o @] /\ Behind(p, w).inst = w.inst
          BY <5>1
        <5>3. Behind(p, dpath!Walked(w, e))
              = [done |-> [w.done EXCEPT ![1] = p \o @], inst |-> Append(w.inst, e)]
          BY <4>2, <4>5 DEF Behind
        <5> QED BY <4>3, <5>2, <5>3
      <4> QED BY <4>4, <4>5
    <3>2. CASE e \notin Nodes
      <4>1. dpath!Walked(w, e) = [done |-> Found(w), inst |-> <<>>]
        BY <3>2, WalkedNode DEF Found
      <4>2. dpath!Walked(w, e).done = Found(w) /\ dpath!Walked(w, e).inst = <<>>
        BY <4>1
      <4>3. dpath!Walked(Behind(p, w), e) = [done |-> Found(Behind(p, w)), inst |-> <<>>]
        BY <3>2, WalkedNode DEF Found
      <4>4. Found(w) # <<>> /\ Found(Behind(p, w)) = [Found(w) EXCEPT ![1] = p \o @]
        <5>1. Found(w) \in Seq(Seq(Nodes)) /\ Len(Found(w)) \in Nat \ {0}
          BY <2>3, FoundBehind
        <5>2. Found(w) # <<>>
          BY <5>1
        <5> QED BY <2>3, <5>2, FoundBehind
      <4>5. Behind(p, dpath!Walked(w, e)) = [done |-> [Found(w) EXCEPT ![1] = p \o @], inst |-> <<>>]
        BY <4>2, <4>4 DEF Behind
      <4> QED BY <4>3, <4>4, <4>5
    <3> QED BY <3>1, <3>2
  <2>7. dpath!Walk(p \o Append(z, e)) = Behind(p, dpath!Walk(Append(z, e)))
    BY <2>1, <2>3, <2>5, <2>6, Zenon
  <2> QED BY <2>2, <2>7
<1> HIDE DEF T
<1>3. Seq(AnyNode) \subseteq T
  BY <1>1, <1>2, AllSequences
<1> QED BY <1>3 DEF T

(* A path in memory: its nodes, its end and whatever comes behind it.      *)
Inner == AnyNode \ {End}

(* Memory in which a path ends holds a path, its end and whatever else.    *)
LEMMA EndsSomewhere ==
  ASSUME NEW m \in Seq(AnyNode), \E i \in DOMAIN m : m[i] = End
  PROVE  \E p \in Seq(Inner), z \in Seq(AnyNode) : m = Append(p, End) \o z
<1>1. PICK n \in Nat : n = Len(m) /\ DOMAIN m = 1 .. n /\ \A k \in 1 .. n : m[k] \in AnyNode
  BY LenProperties, ElementOfSeq
<1> DEFINE I == {i \in 1 .. n : m[i] = End}
<1>2. I \subseteq 1 .. n /\ I # {}
  BY <1>1
<1>3. PICK i \in I : \A k \in I : i <= k
  <2>1. I \subseteq Nat
    BY <1>2
  <2> HIDE DEF I
  <2> QED BY <1>2, <2>1, LeastOf
<1>4. i \in 1 .. n /\ m[i] = End /\ i - 1 \in Nat /\ i - 1 <= n
  OBVIOUS
<1>5. \A k \in 1 .. i - 1 : k \in 1 .. n /\ m[k] \in Inner
  <2>1. ASSUME NEW k \in 1 .. i - 1 PROVE k \in 1 .. n /\ m[k] \in Inner
    <3>1. k \in 1 .. n /\ ~ (i <= k)
      BY <1>4
    <3>2. m[k] # End
      BY <1>3, <3>1
    <3> QED BY <1>1, <3>1, <3>2, Zenon DEF Inner
  <2> QED BY <2>1
<1> DEFINE p == SubSeq(m, 1, i - 1)
           z == SubSeq(m, i + 1, n)
<1>6. p \in Seq(Inner) /\ Len(p) = i - 1 /\ \A k \in 1 .. i - 1 : p[k] = m[k]
  <2>1. 1 \in Int /\ i - 1 \in Int
    BY <1>4
  <2>2. /\ SubSeq(m, 1, i - 1) \in Seq(Inner)
        /\ Len(SubSeq(m, 1, i - 1)) = IF 1 <= i - 1 THEN (i - 1) - 1 + 1 ELSE 0
        /\ \A k \in 1 .. (i - 1) - 1 + 1 : SubSeq(m, 1, i - 1)[k] = m[1 + k - 1]
    BY <1>5, <2>1, SubSeqProperties
  <2>3. (IF 1 <= i - 1 THEN (i - 1) - 1 + 1 ELSE 0) = i - 1 /\ (i - 1) - 1 + 1 = i - 1
    BY <1>4
  <2>4. \A k \in 1 .. i - 1 : 1 + k - 1 = k
    BY <1>4
  <2> QED BY <2>2, <2>3, <2>4
<1>7. z \in Seq(AnyNode) /\ Len(z) = n - i /\ \A k \in 1 .. n - i : z[k] = m[i + k]
  <2>1. i + 1 \in Nat \ {0} /\ i + 1 <= n + 1 /\ n <= Len(m)
    BY <1>1, <1>4
  <2>2. /\ z \in Seq(AnyNode) /\ Len(z) = n - (i + 1) + 1
        /\ \A k \in 1 .. n - (i + 1) + 1 : z[k] = m[(i + 1) + k - 1]
    BY <2>1, PieceOf
  <2>3. n - (i + 1) + 1 = n - i /\ \A k \in 1 .. n - i : (i + 1) + k - 1 = i + k
    BY <1>4
  <2> QED BY <2>2, <2>3
<1> HIDE DEF p, z
<1>8. p \in Seq(AnyNode) /\ End \in AnyNode
  BY <1>6, OfLarger DEF Inner, AnyNode
<1>9. /\ Append(p, End) \in Seq(AnyNode) /\ Len(Append(p, End)) = i
      /\ Append(p, End)[i] = End /\ \A k \in 1 .. i - 1 : Append(p, End)[k] = m[k]
  <2>1. /\ Append(p, End) \in Seq(AnyNode) /\ Len(Append(p, End)) = Len(p) + 1
        /\ Append(p, End)[Len(p) + 1] = End /\ \A k \in 1 .. Len(p) : Append(p, End)[k] = p[k]
    BY <1>8, AppendProperties
  <2>2. Len(p) + 1 = i
    BY <1>4, <1>6
  <2> QED BY <1>6, <2>1, <2>2
<1> DEFINE a == Append(p, End)
           c == a \o z
<1> HIDE DEF a
<1>10. a \in Seq(AnyNode) /\ Len(a) = i /\ \A k \in 1 .. i : a[k] = m[k]
  <2>1. \A k \in 1 .. i : k = i \/ k \in 1 .. i - 1
    BY <1>4
  <2> QED BY <1>4, <1>9, <2>1 DEF a
<1>11. /\ a \o z \in Seq(AnyNode) /\ Len(a \o z) = Len(a) + Len(z)
       /\ \A k \in 1 .. Len(a) : (a \o z)[k] = a[k]
       /\ \A k \in 1 .. Len(z) : (a \o z)[Len(a) + k] = z[k]
  <2>1. a \in Seq(AnyNode) /\ z \in Seq(AnyNode)
    BY <1>7, <1>10
  <2> QED BY <2>1, TwoParts
<1> HIDE DEF c
<1>12. /\ c \in Seq(AnyNode) /\ Len(c) = n
       /\ \A k \in 1 .. i : c[k] = m[k] /\ \A j \in 1 .. n - i : c[i + j] = m[i + j]
  <2>1. i + (n - i) = n
    BY <1>4
  <2> QED BY <1>7, <1>10, <1>11, <2>1, Zenon DEF c
<1>13. ASSUME NEW k \in 1 .. n PROVE c[k] = m[k]
  <2>1. CASE k <= i
    <3>1. k \in 1 .. i
      BY <2>1
    <3> QED BY <1>12, <3>1
  <2>2. CASE ~ (k <= i)
    <3>1. k - i \in 1 .. n - i /\ i + (k - i) = k /\ i \in 1 .. i
      BY <1>4, <2>2
    <3>2. c[i + (k - i)] = m[i + (k - i)]
      BY <1>12, <3>1, Zenon
    <3> QED BY <3>1, <3>2
  <2> QED BY <2>1, <2>2
<1>14. c = m
  BY <1>1, <1>12, <1>13, SeqEqual
<1> QED BY <1>6, <1>7, <1>14, Zenon DEF a, c

(* The path in such memory stops at its first end, whatever lies behind    *)
(* it.                                                                     *)
LEMMA PathOf ==
  ASSUME NEW p \in Seq(Inner), NEW z \in Seq(AnyNode)
  PROVE  /\ dpath!Path(Append(p, End) \o z) = Append(p, End)
         /\ Append(p, End) \o z \in Seq(AnyNode) /\ Append(p, End) \in Seq(AnyNode)
<1> DEFINE a == Append(p, End)
           m == a \o z
<1>1. p \in Seq(AnyNode) /\ End \in AnyNode
  BY OfLarger DEF Inner, AnyNode
<1>2. PICK n \in Nat : n = Len(p) /\ \A k \in 1 .. n : p[k] \in Inner
  BY LenProperties, ElementOfSeq
<1>3. /\ a \in Seq(AnyNode) /\ Len(a) = n + 1
      /\ a[n + 1] = End /\ \A k \in 1 .. n : a[k] = p[k]
  BY <1>1, <1>2, AppendProperties
<1> HIDE DEF a
<1>4. PICK l \in Nat : l = Len(z)
  BY LenProperties
<1>5. /\ m \in Seq(AnyNode) /\ Len(m) = (n + 1) + l
      /\ \A k \in 1 .. n + 1 : m[k] = a[k]
  <2>1. /\ m \in Seq(AnyNode) /\ Len(m) = Len(a) + Len(z)
        /\ \A k \in 1 .. Len(a) : m[k] = a[k]
    BY <1>3, TwoParts
  <2> QED BY <1>3, <1>4, <2>1
<1> HIDE DEF m
<1> DEFINE I == {i \in 1 .. Len(m) : dpath!IsEnd(m[i])}
<1>6. \A i \in 1 .. Len(m) : dpath!IsEnd(m[i]) <=> m[i] = End
  BY Zenon DEF dpath!IsEnd, End
<1>7. n + 1 \in I
  <2>1. n + 1 \in 1 .. Len(m) /\ n + 1 \in 1 .. n + 1
    BY <1>4, <1>5
  <2>2. m[n + 1] = End
    BY <1>3, <1>5, <2>1, Zenon
  <2> QED BY <1>6, <2>1, <2>2
<1>8. \A k \in I : ~ (k <= n)
  <2>1. ASSUME NEW k \in 1 .. n PROVE m[k] # End
    <3>1. k \in 1 .. n + 1
      OBVIOUS
    <3>2. m[k] = p[k]
      BY <1>3, <1>5, <3>1, Zenon
    <3> QED BY <1>2, <3>2 DEF Inner
  <2>2. \A k \in 1 .. Len(m) : k <= n => k \in 1 .. n
    BY <1>5
  <2> QED BY <1>6, <2>1, <2>2
<1>9. dpath!SelectInSeq(m, dpath!IsEnd) = IF I # {} THEN dpath!Min(I) ELSE 0
  BY DEF dpath!SelectInSeq
<1>10. dpath!Min(I) = n + 1
  <2>1. I \subseteq 1 .. (n + 1) + l /\ I # {}
    BY <1>5, <1>7
  <2> HIDE DEF I
  <2>2. \E x \in I : \A k \in I : x <= k
    <3>1. I \subseteq Nat
      BY <2>1
    <3> QED BY <2>1, <3>1, LeastOf
  <2>3. dpath!Min(I) \in I /\ \A k \in I : dpath!Min(I) <= k
    BY <2>2, Zenon DEF dpath!Min
  <2>4. PICK x \in I : x = dpath!Min(I) /\ \A k \in I : x <= k
    BY <2>3, Zenon
  <2>5. x \in 1 .. (n + 1) + l /\ x <= n + 1 /\ ~ (x <= n)
    BY <1>7, <1>8, <2>1, <2>4, Zenon
  <2>6. x = n + 1
    BY <2>5
  <2> QED BY <2>3, <2>4, <2>6
<1>11. dpath!Path(m) = SubSeq(m, 1, n + 1)
  <2>1. I # {}
    BY <1>7
  <2> HIDE DEF I
  <2> QED BY <1>9, <1>10, <2>1, Zenon DEF dpath!Path
<1>12. SubSeq(m, 1, n + 1) = a
  <2> DEFINE s == SubSeq(m, 1, n + 1)
  <2>1. n + 1 \in Nat /\ n + 1 <= Len(m) /\ 1 \in Nat \ {0} /\ 1 <= (n + 1) + 1
    BY <1>4, <1>5
  <2>2. /\ s \in Seq(AnyNode) /\ Len(s) = (n + 1) - 1 + 1
        /\ \A k \in 1 .. (n + 1) - 1 + 1 : s[k] = m[1 + k - 1]
    BY <1>5, <2>1, PieceOf
  <2> HIDE DEF s
  <2>3. (n + 1) - 1 + 1 = n + 1 /\ \A k \in 1 .. n + 1 : 1 + k - 1 = k
    OBVIOUS
  <2>4. Len(s) = n + 1 /\ \A k \in 1 .. n + 1 : s[k] = m[k]
    BY <2>2, <2>3
  <2>5. s = a
    BY <1>3, <1>5, <2>2, <2>4, SeqEqual
  <2> QED BY <2>5 DEF s
<1> QED BY <1>3, <1>5, <1>11, <1>12, Zenon DEF a, m

Known(m) == \E p \in Seq(Inner), z \in Seq(AnyNode) : m = Append(p, End) \o z

(* The end is the only node that is not within a path.                     *)
LEMMA NodeIsPlain ==
  ASSUME dpath!EfiPathsAssumption
  PROVE  Nodes \subseteq Inner /\ Nodes \subseteq AnyNode /\ Inner \subseteq AnyNode
         /\ End \in AnyNode /\ EndInstance \in Inner
<1>1. \A n \in AnyNode : n \in Nodes => n # End
  <2>1. dpath!IsDevicePathEndType(End)
    BY Zenon DEF dpath!IsDevicePathEndType, End
  <2> QED BY <2>1, NodeFacts, Zenon DEF AnyNode
<1> QED BY <1>1, NodeFacts, Zenon DEF Inner, AnyNode

(* The arguments of the calls are known to hold paths.                     *)
LEMMA PathsKnown ==
  ASSUME dpath!EfiPathsAssumption
  PROVE  /\ \A m \in Paths : Known(m)
         /\ \A n \in Nodes : Known(<<n, End>>)
<1>1. \A m \in Paths : m \in Seq(AnyNode) /\ \E i \in DOMAIN m : m[i] = End
  <2>1. \A m \in Paths : m \in dpath!Memory /\ \E i \in DOMAIN m : m[i] = dpath!End
    BY Zenon DEF dpath!EfiPathsAssumption
  <2> QED BY <2>1, NodeFacts, Zenon DEF End
<1>2. ASSUME NEW m \in Paths PROVE Known(m)
  BY <1>1, EndsSomewhere DEF Known
<1>3. ASSUME NEW n \in Nodes PROVE Known(<<n, End>>)
  <2>1. <<n>> \in Seq(Inner)
    BY NodeIsPlain
  <2>2. <<>> \in Seq(AnyNode) /\ <<n, End>> \in Seq(AnyNode)
    BY NodeIsPlain
  <2>3. <<n, End>> \o <<>> = <<n, End>>
    BY <2>2, ConcatEmptySeq
  <2>4. Append(<<n>>, End) = <<n, End>>
    <3> DEFINE a == Append(<<n>>, End)
               b == <<n, End>>
    <3>1. a \in Seq(AnyNode) /\ Len(a) = 2 /\ a[1] = n /\ a[2] = End
      BY NodeIsPlain
    <3>2. b \in Seq(AnyNode) /\ Len(b) = 2 /\ b[1] = n /\ b[2] = End
      BY <2>2
    <3> HIDE DEF a, b
    <3>3. \A k \in 1 .. 2 : a[k] = b[k]
      BY <3>1, <3>2
    <3>4. a = b
      BY <3>1, <3>2, <3>3, SeqEqual
    <3> QED BY <3>4 DEF a, b
  <2> QED BY <2>1, <2>2, <2>3, <2>4, Zenon DEF Known
<1> QED BY <1>2, <1>3

(* The instances of a path and its bytes are those that a walk over it     *)
(* finds, whatever is behind its end.                                      *)
LEMMA InstancesOf ==
  ASSUME dpath!EfiPathsAssumption, NEW p \in Seq(Inner), NEW z \in Seq(AnyNode)
  PROVE  /\ p \in Seq(AnyNode) /\ dpath!Walk(p) \in Walks
         /\ dpath!DevicePathInstances(Append(p, End) \o z) = Found(dpath!Walk(p))
         /\ dpath!Bytes(Append(p, End)) = dpath!Bytes(p) + HEADER
         /\ dpath!Bytes(p) \in Nat
<1>1. p \in Seq(AnyNode) /\ End \in AnyNode /\ End \notin Nodes
  BY OfLarger, NodeIsPlain DEF Inner
<1>2. /\ dpath!Walk(p) \in Walks
      /\ dpath!Walk(Append(p, End)) = dpath!Walked(dpath!Walk(p), End)
  BY <1>1, WalkOfAppend
<1>3. dpath!Walked(dpath!Walk(p), End) = [done |-> Found(dpath!Walk(p)), inst |-> <<>>]
  BY <1>1, WalkedNode, Zenon DEF Found
<1>4. dpath!Walk(Append(p, End)).done = Found(dpath!Walk(p))
  BY <1>2, <1>3
<1>5. dpath!Path(Append(p, End) \o z) = Append(p, End)
  BY PathOf
<1>6. dpath!DevicePathInstances(Append(p, End) \o z) = Found(dpath!Walk(p))
  BY <1>4, <1>5, Zenon DEF dpath!DevicePathInstances
<1>7. /\ dpath!Bytes(Append(p, End)) = dpath!Bytes(p) + End.size
      /\ dpath!Bytes(p) \in Nat
  BY <1>1, NodeFacts, BytesOfAppend
<1> QED BY <1>1, <1>2, <1>6, <1>7, NodeFacts, Zenon

(* A path with nothing behind it.                                          *)
LEMMA AsItEnds ==
  ASSUME NEW p \in Seq(Inner)
  PROVE  Append(p, End) \o <<>> = Append(p, End) /\ <<>> \in Seq(AnyNode)
<1>1. <<>> \in Seq(AnyNode)
  OBVIOUS
<1>2. Append(p, End) \in Seq(AnyNode)
  BY <1>1, PathOf
<1> QED BY <1>1, <1>2, ConcatEmptySeq

(* NULL holds no path and no instances.                                    *)
LEMMA NoInstances ==
  ASSUME dpath!EfiPathsAssumption
  PROVE  dpath!Path(<<>>) = <<>> /\ dpath!DevicePathInstances(<<>>) = <<>>
<1>1. dpath!SelectInSeq(<<>>, dpath!IsEnd) \in Int
      /\ dpath!SelectInSeq(<<>>, dpath!IsEnd) < 1
  <2> DEFINE I == {i \in 1 .. Len(<<>>) : dpath!IsEnd(<<>>[i])}
  <2>1. I = {}
    OBVIOUS
  <2>2. dpath!SelectInSeq(<<>>, dpath!IsEnd) = IF I # {} THEN dpath!Min(I) ELSE 0
    BY DEF dpath!SelectInSeq
  <2> HIDE DEF I
  <2>3. dpath!SelectInSeq(<<>>, dpath!IsEnd) = 0
    BY <2>1, <2>2, Zenon
  <2> QED BY <2>3
<1>2. dpath!Path(<<>>) = <<>>
  BY <1>1, SubSeqEmpty DEF dpath!Path
<1>3. Nothing.done = <<>>
  BY DEF Nothing
<1> QED BY <1>2, <1>3, WalkOfNone, Zenon DEF dpath!DevicePathInstances

(* The bytes of each instance with its end, one after the other, are those *)
(* of the path.                                                            *)
Lumps == [size : Nat]
Lump(inst) == [size |-> dpath!Bytes(inst) + HEADER]
LumpsOf(insts) == [k \in 1 .. Len(insts) |-> Lump(insts[k])]

(* One more instance adds its bytes and those of an end.                   *)
LEMMA LumpedBytes ==
  ASSUME dpath!EfiPathsAssumption, NEW d \in Seq(Seq(Nodes)), NEW i \in Seq(Nodes)
  PROVE  /\ Sized(Lumps) /\ Lump(i) \in Lumps /\ LumpsOf(d) \in Seq(Lumps)
         /\ dpath!Bytes(LumpsOf(d)) \in Nat /\ dpath!Bytes(i) \in Nat
         /\ dpath!Bytes(LumpsOf(Append(d, i)))
            = dpath!Bytes(LumpsOf(d)) + (dpath!Bytes(i) + HEADER)
<1>1. \A x \in Seq(Nodes) : dpath!Bytes(x) \in Nat /\ Lump(x) \in Lumps
  <2>1. ASSUME NEW x \in Seq(Nodes) PROVE dpath!Bytes(x) \in Nat /\ Lump(x) \in Lumps
    <3>1. x \in Seq(AnyNode) /\ End \in AnyNode
      BY OfLarger, NodeIsPlain
    <3>2. dpath!Bytes(x) \in Nat
      BY <3>1, NodeFacts, BytesOfAppend
    <3> QED BY <3>2, NodeFacts DEF Lump, Lumps
  <2> QED BY <2>1
<1>2. Sized(Lumps)
  BY DEF Sized, Lumps
<1>3. ASSUME NEW x \in Seq(Seq(Nodes))
      PROVE  /\ LumpsOf(x) \in Seq(Lumps) /\ Len(LumpsOf(x)) = Len(x)
             /\ \A k \in 1 .. Len(x) : LumpsOf(x)[k] = Lump(x[k])
  <2>1. PICK n \in Nat : n = Len(x) /\ \A k \in 1 .. n : x[k] \in Seq(Nodes)
    BY LenProperties, ElementOfSeq
  <2>2. LumpsOf(x) = [k \in 1 .. n |-> Lump(x[k])] /\ \A k \in 1 .. n : Lump(x[k]) \in Lumps
    BY <1>1, <2>1 DEF LumpsOf
  <2> QED BY <2>1, <2>2
<1>4. PICK n \in Nat : n = Len(d)
  BY LenProperties
<1>5. /\ Append(d, i) \in Seq(Seq(Nodes)) /\ Len(Append(d, i)) = n + 1
      /\ Append(d, i)[n + 1] = i /\ \A k \in 1 .. n : Append(d, i)[k] = d[k]
  BY <1>4, AppendProperties
<1> DEFINE a == LumpsOf(d)
           b == LumpsOf(Append(d, i))
           c == Append(a, Lump(i))
<1>6. a \in Seq(Lumps) /\ Len(a) = n /\ \A k \in 1 .. n : a[k] = Lump(d[k])
  BY <1>3, <1>4
<1>7. b \in Seq(Lumps) /\ Len(b) = n + 1 /\ \A k \in 1 .. n + 1 : b[k] = Lump(Append(d, i)[k])
  BY <1>3, <1>5
<1> HIDE DEF a, b
<1>8. /\ c \in Seq(Lumps) /\ Len(c) = n + 1
      /\ c[n + 1] = Lump(i) /\ \A k \in 1 .. n : c[k] = a[k]
  <2> DEFINE e == Lump(i)
  <2>1. e \in Lumps
    BY <1>1
  <2> HIDE DEF e
  <2>2. /\ Append(a, e) \in Seq(Lumps) /\ Len(Append(a, e)) = Len(a) + 1
        /\ Append(a, e)[Len(a) + 1] = e /\ \A k \in 1 .. Len(a) : Append(a, e)[k] = a[k]
    BY <1>6, <2>1, AppendProperties
  <2> QED BY <1>6, <2>2, Zenon DEF e
<1>9. ASSUME NEW k \in 1 .. n + 1 PROVE b[k] = c[k]
  <2>1. k = n + 1 \/ k \in 1 .. n
    OBVIOUS
  <2>2. b[k] = Lump(Append(d, i)[k])
    BY <1>7, Zenon
  <2>3. CASE k = n + 1
    <3>1. Append(d, i)[k] = i
      BY <1>5, <2>3, Zenon
    <3> QED BY <1>8, <2>2, <2>3, <3>1, Zenon
  <2>4. CASE k \in 1 .. n
    <3>1. Append(d, i)[k] = d[k]
      BY <1>5, <2>4, Zenon
    <3>2. c[k] = Lump(d[k])
      BY <1>6, <1>8, <2>4, Zenon
    <3> QED BY <2>2, <3>1, <3>2, Zenon
  <2> QED BY <2>1, <2>3, <2>4, Zenon
<1> HIDE DEF c
<1>10. b = c
  BY <1>7, <1>8, <1>9, SeqEqual
<1>11. /\ dpath!Bytes(a) \in Nat
       /\ dpath!Bytes(Append(a, Lump(i))) = dpath!Bytes(a) + Lump(i).size
  BY <1>1, <1>2, <1>6, BytesOfAppend
<1>12. Lump(i).size = dpath!Bytes(i) + HEADER
  BY DEF Lump
<1> QED BY <1>1, <1>2, <1>6, <1>10, <1>11, <1>12, Zenon DEF a, b, c

(* No byte is lost or counted twice on the walk.                           *)
LEMMA WalkBytes ==
  ASSUME dpath!EfiPathsAssumption, NEW s \in Seq(AnyNode)
  PROVE  dpath!Bytes(s) = dpath!Bytes(LumpsOf(dpath!Walk(s).done))
                                + dpath!Bytes(dpath!Walk(s).inst)
<1> DEFINE Sum(w) == dpath!Bytes(LumpsOf(w.done)) + dpath!Bytes(w.inst)
           T == {x \in Seq(AnyNode) : dpath!Bytes(x) = Sum(dpath!Walk(x))}
<1>1. <<>> \in T
  <2>1. Nothing.done = <<>> /\ Nothing.inst = <<>> /\ LumpsOf(<<>>) = <<>> /\ 0 + 0 = 0
    BY DEF Nothing, LumpsOf
  <2>2. <<>> \in Seq(AnyNode)
    OBVIOUS
  <2> QED BY <2>1, <2>2, WalkOfNone, BytesOfNone, Zenon
<1>2. ASSUME NEW x \in Seq(AnyNode), NEW e \in AnyNode, x \in T PROVE Append(x, e) \in T
  <2> DEFINE w == dpath!Walk(x)
  <2>1. w \in Walks /\ dpath!Walk(Append(x, e)) = dpath!Walked(w, e)
    BY WalkOfAppend
  <2>2. dpath!Bytes(Append(x, e)) = dpath!Bytes(x) + e.size
    BY NodeFacts, BytesOfAppend
  <2>3. dpath!Bytes(x) = Sum(w)
    BY <1>2
  <2> HIDE DEF w
  <2>4. w.done \in Seq(Seq(Nodes)) /\ w.inst \in Seq(Nodes)
    BY <2>1 DEF Walks
  <2>5. dpath!Bytes(LumpsOf(w.done)) \in Nat /\ dpath!Bytes(w.inst) \in Nat /\ e.size \in Nat
    BY <2>4, LumpedBytes, NodeFacts DEF Sized
  <2>6. Sum(dpath!Walked(w, e)) = Sum(w) + e.size
    <3>1. CASE e \in Nodes
      <4>1. dpath!Walked(w, e) = [done |-> w.done, inst |-> Append(w.inst, e)]
        BY <3>1, WalkedNode
      <4>2. dpath!Walked(w, e).done = w.done /\ dpath!Walked(w, e).inst = Append(w.inst, e)
        BY <4>1
      <4>3. dpath!Bytes(Append(w.inst, e)) = dpath!Bytes(w.inst) + e.size
        <5>1. w.inst \in Seq(AnyNode)
          BY <2>4, OfLarger, NodeIsPlain
        <5> QED BY <5>1, NodeFacts, BytesOfAppend
      <4>4. Sum(dpath!Walked(w, e))
            = dpath!Bytes(LumpsOf(w.done)) + (dpath!Bytes(w.inst) + e.size)
        BY <4>2, <4>3, Zenon
      <4>5. \A l, m, n \in Nat : l + (m + n) = (l + m) + n
        OBVIOUS
      <4> QED BY <2>5, <4>4, <4>5, Zenon
    <3>2. CASE e \notin Nodes
      <4>1. dpath!Walked(w, e) = [done |-> Append(w.done, w.inst), inst |-> <<>>]
        BY <3>2, WalkedNode
      <4>2. dpath!Walked(w, e).done = Append(w.done, w.inst) /\ dpath!Walked(w, e).inst = <<>>
        BY <4>1
      <4>3. e.size = HEADER
        BY <3>2, NodeFacts, Zenon DEF AnyNode
      <4>4. dpath!Bytes(LumpsOf(Append(w.done, w.inst)))
            = dpath!Bytes(LumpsOf(w.done)) + (dpath!Bytes(w.inst) + HEADER)
        BY <2>4, LumpedBytes
      <4>5. Sum(dpath!Walked(w, e))
            = (dpath!Bytes(LumpsOf(w.done)) + (dpath!Bytes(w.inst) + e.size)) + 0
        BY <4>2, <4>3, <4>4, BytesOfNone, Zenon
      <4>6. \A l, m, n \in Nat : (l + (m + n)) + 0 = (l + m) + n
        OBVIOUS
      <4> QED BY <2>5, <4>5, <4>6, Zenon
    <3> QED BY <3>1, <3>2
  <2>7. Append(x, e) \in Seq(AnyNode)
    BY AppendProperties
  <2> HIDE DEF Sum
  <2>8. dpath!Bytes(Append(x, e)) = Sum(dpath!Walk(Append(x, e)))
    BY <2>1, <2>2, <2>3, <2>6, Zenon
  <2> QED BY <2>7, <2>8
<1> HIDE DEF T
<1>3. Seq(AnyNode) \subseteq T
  BY <1>1, <1>2, AllSequences
<1> QED BY <1>3 DEF T

(* Nor with the end of the path.                                           *)
LEMMA FoundBytes ==
  ASSUME dpath!EfiPathsAssumption, NEW p \in Seq(Inner)
  PROVE  dpath!Bytes(LumpsOf(Found(dpath!Walk(p)))) = dpath!Bytes(Append(p, End))
<1> DEFINE w == dpath!Walk(p)
<1>1. /\ p \in Seq(AnyNode) /\ w \in Walks
      /\ dpath!Bytes(Append(p, End)) = dpath!Bytes(p) + HEADER
  BY AsItEnds, InstancesOf
<1>2. dpath!Bytes(p) = dpath!Bytes(LumpsOf(w.done)) + dpath!Bytes(w.inst)
  BY <1>1, WalkBytes
<1> HIDE DEF w
<1>3. w.done \in Seq(Seq(Nodes)) /\ w.inst \in Seq(Nodes)
  BY <1>1 DEF Walks
<1>4. /\ dpath!Bytes(LumpsOf(w.done)) \in Nat /\ dpath!Bytes(w.inst) \in Nat
      /\ dpath!Bytes(LumpsOf(Append(w.done, w.inst)))
         = dpath!Bytes(LumpsOf(w.done)) + (dpath!Bytes(w.inst) + HEADER)
  BY <1>3, LumpedBytes
<1>5. \A l, m, n \in Nat : l + (m + n) = (l + m) + n
  OBVIOUS
<1>6. dpath!Bytes(LumpsOf(Append(w.done, w.inst))) = dpath!Bytes(p) + HEADER
  <2>1. HEADER \in Nat
    BY NodeFacts
  <2> QED BY <1>2, <1>4, <1>5, <2>1
<1> QED BY <1>1, <1>6, Zenon DEF w, Found

(* What AppendDevicePath writes: instance after instance of one path, with *)
(* the other behind each, and an end behind that.                          *)
EndOf(k, n) == IF k = n THEN End ELSE EndInstance
StartsWith(mem, s) == \E z \in Seq(AnyNode) : mem = s \o z
NextOne(mem, inst, q, e) == mem \o inst \o q \o <<e>>

(* One round of the loop of AppendDevicePath: what it adds to the memory.  *)
LEMMA NextPart ==
  ASSUME dpath!EfiPathsAssumption, NEW mem \in Seq(AnyNode), NEW inst \in Seq(Nodes),
         NEW q \in Seq(AnyNode), NEW e \in {End, EndInstance}
  PROVE  /\ NextOne(mem, inst, q, e) \in Seq(AnyNode)
         /\ StartsWith(NextOne(mem, inst, q, e), mem)
         /\ dpath!Bytes(NextOne(mem, inst, q, e))
            = dpath!Bytes(mem) + dpath!Bytes(inst) + dpath!Bytes(q) + HEADER
<1> DEFINE f == <<e>>
<1>1. e \in AnyNode /\ e.size = HEADER
  BY NodeFacts, Zenon DEF AnyNode
<1>2. f \in Seq(AnyNode) /\ inst \in Seq(AnyNode) /\ <<>> \in Seq(AnyNode)
  BY <1>1, OfLarger, NodeIsPlain
<1>3. dpath!Bytes(f) = HEADER
  <2>1. Append(<<>>, e) = f
    OBVIOUS
  <2>2. dpath!Bytes(Append(<<>>, e)) = dpath!Bytes(<<>>) + e.size
    BY <1>1, <1>2, NodeFacts, BytesOfAppend
  <2>3. 0 + HEADER = HEADER
    BY NodeFacts
  <2> QED BY <1>1, <2>1, <2>2, <2>3, BytesOfNone, Zenon
<1> HIDE DEF f
<1>4. NextOne(mem, inst, q, e) = ((mem \o inst) \o q) \o f
  BY Zenon DEF NextOne, f
<1>5. /\ mem \o inst \in Seq(AnyNode) /\ (mem \o inst) \o q \in Seq(AnyNode)
      /\ ((mem \o inst) \o q) \o f \in Seq(AnyNode)
      /\ inst \o q \in Seq(AnyNode) /\ (inst \o q) \o f \in Seq(AnyNode)
  <2>1. mem \o inst \in Seq(AnyNode) /\ inst \o q \in Seq(AnyNode)
    BY <1>2, ConcatProperties
  <2>2. (mem \o inst) \o q \in Seq(AnyNode) /\ (inst \o q) \o f \in Seq(AnyNode)
    BY <1>2, <2>1, ConcatProperties
  <2>3. ((mem \o inst) \o q) \o f \in Seq(AnyNode)
    BY <1>2, <2>2, ConcatProperties
  <2> QED BY <2>1, <2>2, <2>3
<1>6. ((mem \o inst) \o q) \o f = mem \o ((inst \o q) \o f)
  BY <1>2
<1>7. StartsWith(NextOne(mem, inst, q, e), mem)
  BY <1>4, <1>5, <1>6, Zenon DEF StartsWith
<1>8. dpath!Bytes(((mem \o inst) \o q) \o f)
      = dpath!Bytes(mem) + dpath!Bytes(inst) + dpath!Bytes(q) + HEADER
  <2>1. dpath!Bytes(mem \o inst) = dpath!Bytes(mem) + dpath!Bytes(inst)
    BY <1>2, NodeFacts, BytesOfTwo
  <2>2. dpath!Bytes((mem \o inst) \o q) = dpath!Bytes(mem \o inst) + dpath!Bytes(q)
    BY <1>5, NodeFacts, BytesOfTwo
  <2>3. dpath!Bytes(((mem \o inst) \o q) \o f)
        = dpath!Bytes((mem \o inst) \o q) + dpath!Bytes(f)
    BY <1>2, <1>5, NodeFacts, BytesOfTwo
  <2> QED BY <1>3, <2>1, <2>2, <2>3, Zenon
<1> QED BY <1>4, <1>5, <1>7, <1>8, Zenon

EachGoes(g, insts, q, n) ==
  /\ g[0] = <<>>
  /\ \A k \in 1 .. n : g[k] = NextOne(g[k - 1], insts[k], q, EndOf(k, n))

(* The loop goes round once for each instance.                             *)
LEMMA EachSteps ==
  ASSUME dpath!EfiPathsAssumption, NEW insts \in Seq(Seq(Nodes)), NEW b,
         dpath!Path(b) \in Seq(AnyNode),
         NEW n \in Nat, n = Len(insts)
  PROVE  \E g \in [0 .. n -> Seq(AnyNode)] :
           EachGoes(g, insts, dpath!Path(b), n) /\ dpath!EachFollowed(insts, b) = g[n]
<1> DEFINE q == dpath!Path(b)
           F(f) == [k \in 0 .. n |-> IF k = 0 THEN <<>> ELSE NextOne(f[k - 1], insts[k], q, EndOf(k, n))]
           all == CHOOSE f : f = F(f)
           step == [k \in 1 .. n |-> [x \in Seq(AnyNode) |-> NextOne(x, insts[k], q, EndOf(k, n))]]
<1>0. \A k \in 1 .. n : insts[k] \in Seq(Nodes) /\ EndOf(k, n) \in {End, EndInstance}
  BY ElementOfSeq DEF EndOf
<1>1. dpath!EachFollowed(insts, b) = all[n]
  BY Zenon DEF dpath!EachFollowed, NextOne, EndOf, End, EndInstance
<1> HIDE DEF q
<1>2. step \in [1 .. n -> [Seq(AnyNode) -> Seq(AnyNode)]]
  <2>1. ASSUME NEW k \in 1 .. n, NEW x \in Seq(AnyNode)
        PROVE  NextOne(x, insts[k], q, EndOf(k, n)) \in Seq(AnyNode)
    BY <1>0, NextPart DEF q
  <2> QED BY <2>1
<1>3. PICK g \in [0 .. n -> Seq(AnyNode)] :
        g[0] = <<>> /\ \A k \in 1 .. n : g[k] = step[k][g[k - 1]]
  <2> HIDE DEF step
  <2>1. <<>> \in Seq(AnyNode)
    OBVIOUS
  <2>2. \E g \in [0 .. n -> Seq(AnyNode)] : Leads(g, <<>>, n, step)
    BY <1>2, <2>1, StepsLead
  <2> QED BY <2>2, Zenon DEF Leads
<1>4. \A k \in 1 .. n : g[k] = NextOne(g[k - 1], insts[k], q, EndOf(k, n))
  <2>1. ASSUME NEW k \in 1 .. n PROVE g[k] = NextOne(g[k - 1], insts[k], q, EndOf(k, n))
    <3>1. g[k - 1] \in Seq(AnyNode)
      <4>1. k - 1 \in 0 .. n
        OBVIOUS
      <4> HIDE DEF step
      <4> QED BY <1>3, <4>1
    <3>2. step[k][g[k - 1]] = NextOne(g[k - 1], insts[k], q, EndOf(k, n))
      BY <3>1
    <3> QED BY <1>3, <3>2
  <2> QED BY <2>1
<1>5. g = F(g)
  <2>1. ASSUME NEW k \in 0 .. n
        PROVE  g[k] = IF k = 0 THEN <<>> ELSE NextOne(g[k - 1], insts[k], q, EndOf(k, n))
    <3>1. k # 0 => k \in 1 .. n
      OBVIOUS
    <3> QED BY <1>3, <1>4, <3>1, Zenon
  <2> QED BY <2>1
<1>6. all = F(all)
  <2> HIDE DEF F
  <2> QED BY <1>5
<1>7. \A k \in 0 .. n : all[k] = g[k]
  <2> HIDE DEF all
  <2>1. all[0] = g[0]
    BY <1>3, <1>6
  <2>2. ASSUME NEW k \in 1 .. n, all[k - 1] = g[k - 1] PROVE all[k] = g[k]
    <3>1. k \in 0 .. n /\ k # 0
      OBVIOUS
    <3>2. all[k] = NextOne(all[k - 1], insts[k], q, EndOf(k, n))
      BY <1>6, <3>1
    <3> QED BY <1>4, <2>2, <3>2, Zenon
  <2> HIDE DEF F
  <2>3. Alike(all, g, n)
    BY <2>1, <2>2, Zenon DEF Alike
  <2> QED BY <2>3, SameSteps
<1>8. dpath!EachFollowed(insts, b) = g[n]
  <2>1. n \in 0 .. n
    OBVIOUS
  <2> QED BY <1>1, <1>7, <2>1
<1>9. EachGoes(g, insts, q, n)
  BY <1>3, <1>4, Zenon DEF EachGoes
<1> QED BY <1>3, <1>8, <1>9, Zenon DEF q

(* The first instance and the other path come first in it.                 *)
LEMMA EachStarts ==
  ASSUME dpath!EfiPathsAssumption, NEW insts \in Seq(Seq(Nodes)), NEW b,
         dpath!Path(b) \in Seq(AnyNode), insts # <<>>
  PROVE  StartsWith(dpath!EachFollowed(insts, b), insts[1] \o dpath!Path(b))
<1> DEFINE q == dpath!Path(b)
           start == insts[1] \o q
<1>0. \A u, v, w \in Seq(AnyNode) : (u \o v) \o w = u \o (v \o w)
  BY JoinedAlike, Zenon
<1>1. PICK n \in Nat : n = Len(insts) /\ n # 0 /\ \A k \in 1 .. n : insts[k] \in Seq(Nodes)
  BY LenProperties, ElementOfSeq, EmptySeq
<1>2. PICK g \in [0 .. n -> Seq(AnyNode)] :
        /\ g[0] = <<>> /\ \A k \in 1 .. n : g[k] = NextOne(g[k - 1], insts[k], q, EndOf(k, n))
        /\ dpath!EachFollowed(insts, b) = g[n]
  <2>1. \E g \in [0 .. n -> Seq(AnyNode)] :
          EachGoes(g, insts, dpath!Path(b), n) /\ dpath!EachFollowed(insts, b) = g[n]
    BY <1>1, EachSteps
  <2> QED BY <2>1, Zenon DEF EachGoes
<1>3. q \in Seq(AnyNode)
  OBVIOUS
<1> HIDE DEF q
<1>4. \A k \in 1 .. n : EndOf(k, n) \in {End, EndInstance}
  BY DEF EndOf
<1>5. insts[1] \in Seq(AnyNode) /\ start \in Seq(AnyNode)
  <2>1. insts[1] \in Seq(AnyNode)
    BY <1>1, OfLarger, NodeIsPlain
  <2> QED BY <1>3, <2>1, ConcatProperties
<1> HIDE DEF start
<1> DEFINE T == {m \in Nat : m + 1 <= n => StartsWith(g[m + 1], start)}
<1>6. 0 \in T
  <2>1. 1 \in 1 .. n /\ insts[1] \in Seq(Nodes) /\ 1 - 1 = 0
    BY <1>1
  <2>2. g[1] = NextOne(<<>>, insts[1], q, EndOf(1, n))
    BY <1>2, <2>1
  <2>3. NextOne(<<>>, insts[1], q, EndOf(1, n)) = start \o <<EndOf(1, n)>>
    <3>1. NextOne(<<>>, insts[1], q, EndOf(1, n)) = (insts[1] \o q) \o <<EndOf(1, n)>>
      <4>1. <<>> \o insts[1] = insts[1]
        BY <2>1, ConcatEmptySeq
      <4> QED BY <4>1, Zenon DEF NextOne
    <3> QED BY <3>1, Zenon DEF start
  <2>4. <<EndOf(1, n)>> \in Seq(AnyNode)
    <3>1. EndOf(1, n) \in AnyNode
      BY <1>4, <2>1 DEF AnyNode
    <3> QED BY <3>1
  <2>5. 0 + 1 = 1
    OBVIOUS
  <2>6. StartsWith(g[0 + 1], start)
    BY <2>2, <2>3, <2>4, <2>5, Zenon DEF StartsWith
  <2> QED BY <2>6
<1>7. ASSUME NEW m \in Nat, m \in T PROVE m + 1 \in T
  <2> SUFFICES ASSUME (m + 1) + 1 <= n PROVE StartsWith(g[(m + 1) + 1], start)
    OBVIOUS
  <2>1. PICK y \in Seq(AnyNode) : g[m + 1] = start \o y
    <3>1. m + 1 <= n
      OBVIOUS
    <3>2. StartsWith(g[m + 1], start)
      BY <1>7, <3>1
    <3> QED BY <3>2, Zenon DEF StartsWith
  <2>2. (m + 1) + 1 \in 1 .. n /\ ((m + 1) + 1) - 1 = m + 1 /\ m + 1 \in 0 .. n
    OBVIOUS
  <2>3. g[(m + 1) + 1] = NextOne(g[m + 1], insts[(m + 1) + 1], q, EndOf((m + 1) + 1, n))
    BY <1>2, <2>2
  <2>4. PICK x \in Seq(AnyNode) :
          NextOne(g[m + 1], insts[(m + 1) + 1], q, EndOf((m + 1) + 1, n)) = g[m + 1] \o x
    <3>1. /\ g[m + 1] \in Seq(AnyNode) /\ insts[(m + 1) + 1] \in Seq(Nodes)
          /\ EndOf((m + 1) + 1, n) \in {End, EndInstance}
      BY <1>1, <1>2, <1>4, <2>2
    <3> DEFINE u == g[m + 1]
               i == insts[(m + 1) + 1]
               e == EndOf((m + 1) + 1, n)
    <3>2. u \in Seq(AnyNode) /\ i \in Seq(Nodes) /\ e \in {End, EndInstance}
      BY <3>1
    <3> HIDE DEF u, i, e
    <3>3. StartsWith(NextOne(u, i, q, e), u)
      BY <1>3, <3>2, NextPart
    <3> QED BY <3>3, Zenon DEF u, i, e, StartsWith
  <2>5. y \o x \in Seq(AnyNode)
    BY ConcatProperties
  <2>6. (start \o y) \o x = start \o (y \o x)
    <3>1. start \in Seq(AnyNode)
      BY <1>5
    <3> QED BY <1>0, <3>1, Zenon
  <2> QED BY <2>1, <2>3, <2>4, <2>5, <2>6, Zenon DEF StartsWith
<1> HIDE DEF T
<1>8. n - 1 \in Nat /\ (n - 1) + 1 = n
  BY <1>1
<1>9. n - 1 \in T
  <2>1. Nat \subseteq T
    BY <1>6, <1>7, AllOf
  <2> QED BY <1>8, <2>1
<1>10. StartsWith(g[n], start)
  <2>1. (n - 1) + 1 <= n
    BY <1>8
  <2> QED BY <1>8, <1>9, <2>1, Zenon DEF T
<1> QED BY <1>2, <1>10, Zenon DEF start, q

(* It is as long as the one path, and the other for each of its instances. *)
LEMMA EachBytes ==
  ASSUME dpath!EfiPathsAssumption, NEW insts \in Seq(Seq(Nodes)), NEW b,
         dpath!Path(b) \in Seq(AnyNode)
  PROVE  dpath!Bytes(dpath!EachFollowed(insts, b))
         = dpath!Bytes(LumpsOf(insts)) + Len(insts) * dpath!Bytes(dpath!Path(b))
<1> DEFINE q == dpath!Path(b)
           size == dpath!Bytes(q)
<1>1. PICK n \in Nat : n = Len(insts) /\ \A k \in 1 .. n : insts[k] \in Seq(Nodes)
  BY LenProperties, ElementOfSeq
<1>2. PICK g \in [0 .. n -> Seq(AnyNode)] :
        /\ g[0] = <<>> /\ \A k \in 1 .. n : g[k] = NextOne(g[k - 1], insts[k], q, EndOf(k, n))
        /\ dpath!EachFollowed(insts, b) = g[n]
  <2>1. \E g \in [0 .. n -> Seq(AnyNode)] :
          EachGoes(g, insts, dpath!Path(b), n) /\ dpath!EachFollowed(insts, b) = g[n]
    BY <1>1, EachSteps
  <2> QED BY <2>1, Zenon DEF EachGoes
<1>3. q \in Seq(AnyNode) /\ size \in Nat
  <2>1. q \in Seq(AnyNode) /\ End \in AnyNode
    BY NodeIsPlain
  <2> HIDE DEF q
  <2> QED BY <2>1, NodeFacts, BytesOfAppend
<1> HIDE DEF q
<1>4. \A k \in 1 .. n : EndOf(k, n) \in {End, EndInstance}
  BY DEF EndOf
<1>5. /\ LumpsOf(insts) = [k \in 1 .. n |-> Lump(insts[k])]
      /\ \A k \in 1 .. n : Lump(insts[k]) \in Lumps /\ dpath!Bytes(insts[k]) \in Nat
      /\ Sized(Lumps)
  <2>1. <<>> \in Seq(Seq(Nodes)) /\ <<>> \in Seq(Nodes)
    OBVIOUS
  <2>2. \A i \in Seq(Nodes) : Lump(i) \in Lumps /\ dpath!Bytes(i) \in Nat
    BY <2>1, LumpedBytes
  <2>3. Sized(Lumps)
    BY <2>1, LumpedBytes
  <2> QED BY <1>1, <2>2, <2>3 DEF LumpsOf
<1> DEFINE l == LumpsOf(insts)
<1>6. l \in Seq(Lumps) /\ Len(l) = n /\ \A k \in 1 .. n : l[k].size = dpath!Bytes(insts[k]) + HEADER
  <2>1. l \in Seq(Lumps) /\ Len(l) = n /\ \A k \in 1 .. n : l[k] = Lump(insts[k])
    BY <1>5
  <2>2. \A k \in 1 .. n : Lump(insts[k]).size = dpath!Bytes(insts[k]) + HEADER
    BY DEF Lump
  <2> QED BY <2>1, <2>2, Zenon
<1> HIDE DEF l
<1>7. PICK h \in [0 .. n -> Nat] :
        /\ h[0] = 0 /\ \A k \in 1 .. n : h[k] = h[k - 1] + l[k].size
        /\ dpath!Bytes(l) = h[n]
  BY <1>5, <1>6, BytesSteps DEF Sized
<1> HIDE DEF size
<1> DEFINE T == {m \in Nat : m <= n => dpath!Bytes(g[m]) = h[m] + m * size}
<1>8. 0 \in T
  <2>1. 0 + 0 * size = 0
    BY <1>3
  <2>2. dpath!Bytes(g[0]) = h[0] + 0 * size
    BY <1>2, <1>7, <2>1, BytesOfNone, Zenon
  <2> QED BY <2>2
<1>9. ASSUME NEW m \in Nat, m \in T PROVE m + 1 \in T
  <2> SUFFICES ASSUME m + 1 <= n PROVE dpath!Bytes(g[m + 1]) = h[m + 1] + (m + 1) * size
    OBVIOUS
  <2>1. m + 1 \in 1 .. n /\ (m + 1) - 1 = m /\ m \in 0 .. n
    OBVIOUS
  <2>2. dpath!Bytes(g[m]) = h[m] + m * size
    BY <1>9
  <2>3. g[m + 1] = NextOne(g[m], insts[m + 1], q, EndOf(m + 1, n))
    BY <1>2, <2>1
  <2>4. dpath!Bytes(NextOne(g[m], insts[m + 1], q, EndOf(m + 1, n)))
        = dpath!Bytes(g[m]) + dpath!Bytes(insts[m + 1]) + dpath!Bytes(q) + HEADER
    <3>1. /\ g[m] \in Seq(AnyNode) /\ insts[m + 1] \in Seq(Nodes)
          /\ EndOf(m + 1, n) \in {End, EndInstance}
      BY <1>1, <1>2, <1>4, <2>1
    <3> QED BY <1>3, <3>1, NextPart
  <2>5. h[m + 1] = h[m] + (dpath!Bytes(insts[m + 1]) + HEADER)
    BY <1>6, <1>7, <2>1, Zenon
  <2>6. h[m] \in Nat /\ dpath!Bytes(insts[m + 1]) \in Nat /\ HEADER \in Nat
    BY <1>5, <1>7, <2>1, NodeFacts
  <2>7. \A u, i, e, y \in Nat : (u + m * y) + i + y + e = (u + (i + e)) + (m + 1) * y
    <3>1. \A y \in Nat : (m + 1) * y = m * y + y /\ m * y \in Nat
      OBVIOUS
    <3>2. \A u, i, e, y, v \in Nat : (u + v) + i + y + e = (u + (i + e)) + (v + y)
      OBVIOUS
    <3> QED BY <3>1, <3>2
  <2>8. dpath!Bytes(g[m + 1])
        = (h[m] + m * size) + dpath!Bytes(insts[m + 1]) + size + HEADER
    BY <2>2, <2>3, <2>4, Zenon DEF size
  <2>9. (h[m] + m * size) + dpath!Bytes(insts[m + 1]) + size + HEADER
        = (h[m] + (dpath!Bytes(insts[m + 1]) + HEADER)) + (m + 1) * size
    <3>1. size \in Nat
      BY <1>3 DEF size
    <3> DEFINE u == h[m]
               i == dpath!Bytes(insts[m + 1])
    <3>2. u \in Nat /\ i \in Nat /\ HEADER \in Nat
      BY <2>6
    <3> HIDE DEF u, i
    <3>3. (u + m * size) + i + size + HEADER = (u + (i + HEADER)) + (m + 1) * size
      BY <2>7, <3>1, <3>2
    <3> QED BY <3>3, Zenon DEF u, i
  <2> QED BY <2>5, <2>8, <2>9, Zenon
<1> HIDE DEF T
<1>10. n \in T
  BY <1>8, <1>9, AllOf
<1>11. dpath!Bytes(g[n]) = h[n] + n * size
  BY <1>10 DEF T
<1> QED BY <1>1, <1>2, <1>7, <1>11, Zenon DEF q, size, l

(* Sequences of the same length, joined, are the first one when there is   *)
(* no other.                                                               *)
LEMMA JoinedSame ==
  ASSUME NEW S, NEW g \in Seq(Seq(S)), NEW n \in Nat \ {0}, n = Len(g),
         NEW l \in Nat \ {0}, \A k \in 1 .. n : Len(g[k]) = l
  PROVE  dpath!FlattenSeq(g) = g[1] <=> n = 1
<1> DEFINE all == FlattenSeq(g)
<1>1. dpath!FlattenSeq(g) = all
  BY DEF dpath!FlattenSeq, FlattenSeq
<1>2. all \in Seq(S) /\ \E off : Places(off, g, all)
  BY Flattened
<1>3. 1 \in 1 .. n /\ g[1] \in Seq(S) /\ Len(g[1]) = l
  BY ElementOfSeq
<1> HIDE DEF all
<1>4. PICK off : Places(off, g, all)
  BY <1>2
<1>5. /\ off \in [0 .. n -> Nat] /\ off[0] = 0 /\ Len(all) = off[n]
      /\ \A i \in 1 .. n :
           /\ off[i] = off[i - 1] + Len(g[i]) /\ off[i] <= off[n]
           /\ \A k \in 1 .. Len(g[i]) : all[off[i - 1] + k] = g[i][k]
  BY <1>4, Zenon DEF Places
<1>6. \A i \in 1 .. n : off[i] = off[i - 1] + l /\ off[i] <= off[n]
  BY <1>5, Zenon
<1>7. off[1] = l
  <2>1. 1 - 1 = 0 /\ 0 + l = l
    OBVIOUS
  <2>2. off[1] = off[1 - 1] + l
    BY <1>3, <1>6, Zenon
  <2>3. off[0] = 0
    BY <1>5, Zenon
  <2> QED BY <2>1, <2>2, <2>3, Zenon
<1>8. ASSUME n = 1 PROVE all = g[1]
  <2>1. ASSUME NEW k \in 1 .. l PROVE all[k] = g[1][k]
    <3>1. 1 - 1 = 0 /\ 0 + k = k
      OBVIOUS
    <3>2. all[off[1 - 1] + k] = g[1][k]
      BY <1>3, <1>5, Zenon
    <3> QED BY <1>5, <3>1, <3>2, Zenon
  <2>2. Len(all) = l
    BY <1>5, <1>7, <1>8
  <2> QED BY <1>2, <1>3, <2>1, <2>2, SeqEqual
<1>9. ASSUME n # 1 PROVE all # g[1]
  <2>1. 2 \in 1 .. n /\ 2 - 1 = 1
    BY <1>9
  <2>2. off[2] = l + l
    BY <1>5, <1>7, <2>1, Zenon
  <2>3. off[2] <= Len(all)
    BY <1>5, <1>6, <2>1, Zenon
  <2>4. Len(all) # l
    BY <1>2, <2>2, <2>3
  <2> QED BY <1>3, <2>4
<1> QED BY <1>1, <1>8, <1>9

(* What was asked for is enough for one instance, or when it was enough    *)
(* for all.                                                                *)
LEMMA RoomFor ==
  ASSUME NEW n \in Nat \ {0}, NEW x \in Nat, NEW y \in Nat
  PROVE  x + n * y <= x * n + y <=> n = 1 \/ y <= x
<1>1. PICK m \in Nat : n = m + 1
  <2>1. n - 1 \in Nat /\ n = (n - 1) + 1
    OBVIOUS
  <2> QED BY <2>1
<1>2. m * x \in Nat /\ m * y \in Nat
  OBVIOUS
<1>3. n * y = m * y + y /\ x * n = m * x + x
  BY <1>1
<1>4. ASSUME y <= x PROVE m * y <= m * x
  <2>1. PICK d \in Nat : x = y + d
    <3>1. x - y \in Nat /\ x = y + (x - y)
      BY <1>4
    <3> QED BY <3>1
  <2>2. m * x = m * y + m * d /\ m * d \in Nat
    BY <2>1
  <2> QED BY <1>2, <2>2
<1>5. ASSUME ~ (y <= x), m # 0 PROVE ~ (m * y <= m * x)
  <2>1. PICK d \in Nat : y = x + (d + 1)
    <3>1. (y - x) - 1 \in Nat /\ y = x + (((y - x) - 1) + 1)
      BY <1>5
    <3> QED BY <3>1
  <2>2. m * y = m * x + (m * d + m) /\ m * d \in Nat
    BY <2>1
  <2> QED BY <1>2, <1>5, <2>2
<1>6. m = 0 => m * y <= m * x
  OBVIOUS
<1>7. x + n * y <= x * n + y <=> m * y <= m * x
  BY <1>2, <1>3
<1>8. n = 1 <=> m = 0
  BY <1>1
<1> QED BY <1>4, <1>5, <1>6, <1>7, <1>8, Zenon

(* AppendDevicePath, both paths given.                                     *)
Fronted(inst, insts) == [insts EXCEPT ![1] = inst \o @]

(* An instance put before a path comes before its first instance.          *)
LEMMA AfterNodes ==
  ASSUME dpath!EfiPathsAssumption, NEW i \in Seq(Nodes), NEW q \in Seq(Inner),
         NEW z \in Seq(AnyNode)
  PROVE  dpath!DevicePathInstances((i \o Append(q, End)) \o z)
         = Fronted(i, Found(dpath!Walk(q)))
<1>1. i \in Seq(Inner) /\ q \in Seq(AnyNode) /\ i \o q \in Seq(Inner)
  <2>1. i \in Seq(Inner) /\ q \in Seq(AnyNode)
    BY OfLarger, NodeIsPlain
  <2> QED BY <2>1, ConcatProperties
<1>2. i \o Append(q, End) = Append(i \o q, End)
  <2>1. i \in Seq(AnyNode) /\ End \in AnyNode
    BY OfLarger, NodeIsPlain
  <2> QED BY <1>1, <2>1, AnyBehind, Zenon
<1>3. dpath!DevicePathInstances(Append(i \o q, End) \o z) = Found(dpath!Walk(i \o q))
  BY <1>1, InstancesOf
<1>4. dpath!Walk(i \o q) = Behind(i, dpath!Walk(q)) /\ dpath!Walk(q) \in Walks
  BY <1>1, WalkBehind, InstancesOf, AsItEnds
<1>5. Found(Behind(i, dpath!Walk(q))) = [Found(dpath!Walk(q)) EXCEPT ![1] = i \o @]
  BY <1>4, FoundBehind
<1> QED BY <1>2, <1>3, <1>4, <1>5, Zenon DEF Fronted

(* What is known of a path, in terms of its nodes up to its end.           *)
Insts(m) == dpath!DevicePathInstances(m)
Size(m) == dpath!DevicePathSize(m)
Holds(m, p) ==
  /\ p \in Seq(Inner) /\ \E z \in Seq(AnyNode) : m = Append(p, End) \o z
  /\ dpath!Path(m) = Append(p, End)
  /\ Insts(m) = Found(dpath!Walk(p)) /\ dpath!Walk(p) \in Walks
  /\ Size(m) = dpath!Bytes(Append(p, End))

(* What follows for the memory of a call.                                  *)
LEMMA KnownHolds ==
  ASSUME dpath!EfiPathsAssumption, NEW m, Known(m)
  PROVE  /\ \E p : Holds(m, p)
         /\ Insts(m) \in Seq(Seq(Nodes)) /\ Len(Insts(m)) \in Nat \ {0}
         /\ dpath!Path(m) \in Seq(AnyNode) /\ Known(dpath!Path(m)) /\ m # <<>>
         /\ Insts(dpath!Path(m)) = Insts(m) /\ dpath!Path(dpath!Path(m)) = dpath!Path(m)
         /\ Size(m) \in Nat /\ Size(m) = dpath!Bytes(LumpsOf(Insts(m)))
         /\ Size(m) = dpath!Bytes(dpath!Path(m))
<1>1. PICK p \in Seq(Inner), z \in Seq(AnyNode) : m = Append(p, End) \o z
  BY Zenon DEF Known
<1>2. dpath!Path(m) = Append(p, End) /\ Append(p, End) \in Seq(AnyNode)
  BY <1>1, PathOf
<1>3. /\ Insts(m) = Found(dpath!Walk(p)) /\ dpath!Walk(p) \in Walks
      /\ dpath!Bytes(Append(p, End)) = dpath!Bytes(p) + HEADER
      /\ dpath!Bytes(p) \in Nat
  BY <1>1, InstancesOf DEF Insts
<1>4. Size(m) = dpath!Bytes(Append(p, End)) /\ Size(m) = dpath!Bytes(dpath!Path(m))
  BY <1>2, Zenon DEF Size, dpath!DevicePathSize
<1>5. Append(p, End) = Append(p, End) \o <<>> /\ <<>> \in Seq(AnyNode)
  BY AsItEnds
<1>6. Known(Append(p, End))
  BY <1>5, Zenon DEF Known
<1>7. dpath!Path(Append(p, End)) = Append(p, End)
  <2>1. dpath!Path(Append(p, End) \o <<>>) = Append(p, End)
    BY <1>5, PathOf
  <2> QED BY <1>5, <2>1, Zenon
<1>8. Insts(Append(p, End)) = Insts(m)
  BY <1>2, <1>7, Zenon DEF Insts, dpath!DevicePathInstances
<1>9. Insts(m) \in Seq(Seq(Nodes)) /\ Len(Insts(m)) \in Nat \ {0}
  <2>1. <<>> \in Seq(Nodes)
    OBVIOUS
  <2> QED BY <1>3, <2>1, FoundBehind
<1>10. Size(m) = dpath!Bytes(LumpsOf(Insts(m)))
  BY <1>3, <1>4, FoundBytes, Zenon
<1>11. Size(m) \in Nat
  BY <1>3, <1>4, NodeFacts
<1>12. m # <<>>
  <2>1. p \in Seq(AnyNode) /\ End \in AnyNode
    BY OfLarger, NodeIsPlain
  <2>2. Append(p, End) # <<>>
    BY <2>1, AppendProperties
  <2> QED BY <1>1, <1>2, <2>2, ConcatEqualIffEmpty
<1>13. Holds(m, p)
  BY <1>1, <1>2, <1>3, <1>4, Zenon DEF Holds
<1> QED BY <1>2, <1>4, <1>6, <1>7, <1>8, <1>9, <1>10, <1>11, <1>12, <1>13, Zenon

(* What each call promises of the memory d it writes and the n bytes it    *)
(* asks for, given the paths a and b.                                      *)
AppendPromise(a, b, d, n) ==
  /\ Insts(d) = dpath!FlattenSeq([k \in 1 .. Len(Insts(a)) |-> Fronted(Insts(a)[k], Insts(b))])
     <=> Len(Insts(a)) = 1
  /\ dpath!Bytes(d) <= n <=> Len(Insts(a)) = 1 \/ Size(b) <= Size(a)
InstancePromise(a, b, d, n) == Insts(d) = Insts(a) \o Insts(b) /\ dpath!Bytes(d) <= n
CopyPromise(a, d, n) == d = dpath!Path(a) /\ dpath!Bytes(d) <= n
FirstPromise(a, d, n) == dpath!Bytes(d) <= n /\ (Insts(d) = <<Insts(a)[1]>> <=> Len(Insts(a)[1]) = 1)
UnpackPromise(a, d, n) ==
  /\ [k \in 1 .. Len(d) |-> d[k].kind] = [k \in 1 .. Len(d) |-> a[k].kind]
  /\ \A k \in 1 .. Len(d) : dpath!Bytes(SubSeq(d, 1, k)) % ALIGNMENT = 0
  /\ dpath!Bytes(d) = n
MatchPromise(a, b, d) ==
  Len(Insts(b)) = 1 /\ (\A k \in 1 .. Len(Insts(a)) : ~ dpath!IsStrictPrefix(Insts(a)[k], Insts(b)[1]))
    => (d # <<>> <=> \E k \in 1 .. Len(Insts(a)) : Insts(a)[k] = Insts(b)[1])

(* AppendDevicePath: right for one instance only, and safe when the second *)
(* path is no longer than the first.                                       *)
LEMMA AppendKept ==
  ASSUME dpath!EfiPathsAssumption, NEW a, Known(a), NEW b, Known(b)
  PROVE  AppendPromise(a, b, dpath!EachFollowed(Insts(a), b), Size(a) * Len(Insts(a)) + Size(b))
<1> DEFINE r == dpath!EachFollowed(Insts(a), b)
<1>1. PICK n \in Nat \ {0} : n = Len(Insts(a)) /\ Insts(a) \in Seq(Seq(Nodes)) /\ Insts(a) # <<>>
  BY KnownHolds
<1>2. PICK l \in Nat \ {0} : l = Len(Insts(b)) /\ Insts(b) \in Seq(Seq(Nodes))
  BY KnownHolds
<1>3. \A k \in 1 .. n : Insts(a)[k] \in Seq(Nodes)
  BY <1>1, ElementOfSeq
<1>4. PICK q : Holds(b, q)
  BY KnownHolds
<1>5. dpath!Path(b) \in Seq(AnyNode) /\ dpath!Path(b) = Append(q, End) /\ q \in Seq(Inner)
      /\ Insts(b) = Found(dpath!Walk(q))
  BY <1>4, KnownHolds, Zenon DEF Holds
<1>6. Insts(r) = Fronted(Insts(a)[1], Insts(b))
  <2>1. StartsWith(r, Insts(a)[1] \o Append(q, End))
    BY <1>1, <1>5, EachStarts
  <2> DEFINE i == Insts(a)[1]
  <2>2. i \in Seq(Nodes)
    BY <1>3
  <2> HIDE DEF i, r
  <2>3. PICK z \in Seq(AnyNode) : r = (i \o Append(q, End)) \o z
    BY <2>1, Zenon DEF StartsWith, i
  <2>4. dpath!DevicePathInstances((i \o Append(q, End)) \o z) = Fronted(i, Found(dpath!Walk(q)))
    BY <1>5, <2>2, AfterNodes
  <2> QED BY <1>5, <2>3, <2>4, Zenon DEF Insts, i
<1> DEFINE g == [k \in 1 .. n |-> Fronted(Insts(a)[k], Insts(b))]
<1>7. \A i \in Seq(Nodes) : Fronted(i, Insts(b)) \in Seq(Seq(Nodes)) /\ Len(Fronted(i, Insts(b))) = l
  <2>1. ASSUME NEW i \in Seq(Nodes)
        PROVE  Fronted(i, Insts(b)) \in Seq(Seq(Nodes)) /\ Len(Fronted(i, Insts(b))) = l
    <3> DEFINE v == i \o Insts(b)[1]
    <3>1. 1 \in 1 .. Len(Insts(b)) /\ Insts(b)[1] \in Seq(Nodes)
      BY <1>2, ElementOfSeq
    <3>2. v \in Seq(Nodes)
      BY <3>1, ConcatProperties
    <3>3. Fronted(i, Insts(b)) = [Insts(b) EXCEPT ![1] = v]
      BY Zenon DEF Fronted
    <3> HIDE DEF v
    <3>4. [Insts(b) EXCEPT ![1] = v] \in Seq(Seq(Nodes)) /\ Len([Insts(b) EXCEPT ![1] = v]) = Len(Insts(b))
      BY <1>2, <3>1, <3>2, ExceptSeq
    <3> QED BY <1>2, <3>3, <3>4, Zenon
  <2> QED BY <2>1
<1>8. /\ g \in Seq(Seq(Seq(Nodes))) /\ Len(g) = n /\ g[1] = Fronted(Insts(a)[1], Insts(b))
      /\ \A k \in 1 .. n : Len(g[k]) = l
  <2>1. \A k \in 1 .. n : /\ Fronted(Insts(a)[k], Insts(b)) \in Seq(Seq(Nodes))
                          /\ Len(Fronted(Insts(a)[k], Insts(b))) = l
    BY <1>3, <1>7, Zenon
  <2>2. 1 \in 1 .. n
    OBVIOUS
  <2> QED BY <2>1, <2>2
<1> HIDE DEF g
<1>9. dpath!FlattenSeq(g) = g[1] <=> n = 1
  BY <1>8, JoinedSame
<1>10. dpath!Bytes(r) = Size(a) + n * Size(b)
  <2>1. /\ Size(a) = dpath!Bytes(LumpsOf(Insts(a)))
        /\ Size(b) = dpath!Bytes(dpath!Path(b))
    BY KnownHolds
  <2>2. dpath!Bytes(r) = dpath!Bytes(LumpsOf(Insts(a))) + Len(Insts(a)) * dpath!Bytes(dpath!Path(b))
    BY <1>1, <1>5, EachBytes
  <2> QED BY <1>1, <2>1, <2>2, Zenon
<1>11. Size(a) + n * Size(b) <= Size(a) * n + Size(b) <=> n = 1 \/ Size(b) <= Size(a)
  <2>1. Size(a) \in Nat /\ Size(b) \in Nat
    BY KnownHolds
  <2> QED BY <2>1, RoomFor
<1> HIDE DEF r
<1>12. Insts(r) = dpath!FlattenSeq(g) <=> n = 1
  BY <1>6, <1>8, <1>9, Zenon
<1>13. dpath!Bytes(r) <= Size(a) * n + Size(b) <=> n = 1 \/ Size(b) <= Size(a)
  BY <1>10, <1>11, Zenon
<1> QED BY <1>1, <1>12, <1>13, Zenon DEF AppendPromise, r, g

(* Whole numbers of ALIGNMENT bytes, and the bytes that are missing to one.*)
Parted(x, m) == \E q \in Nat, r \in 0 .. m - 1 : x = q * m + r

(* Every number is a quotient, times the divisor, and a remainder.         *)
LEMMA Divided ==
  ASSUME NEW x \in Nat, NEW m \in Nat \ {0}
  PROVE  \E q \in Nat, r \in 0 .. m - 1 : x = q * m + r /\ x % m = r
<1> DEFINE T == {y \in Nat : Parted(y, m)}
<1>1. 0 \in T
  <2>1. 0 = 0 * m + 0 /\ 0 \in 0 .. m - 1
    OBVIOUS
  <2>2. Parted(0, m)
    BY <2>1, Zenon DEF Parted
  <2> QED BY <2>2
<1>2. ASSUME NEW y \in Nat, y \in T PROVE y + 1 \in T
  <2> SUFFICES Parted(y + 1, m)
    OBVIOUS
  <2>1. PICK q \in Nat, r \in 0 .. m - 1 : y = q * m + r
    <3>1. Parted(y, m)
      BY <1>2
    <3> QED BY <3>1, Zenon DEF Parted
  <2>2. CASE r = m - 1
    <3>1. y + 1 = (q + 1) * m + 0 /\ q + 1 \in Nat /\ 0 \in 0 .. m - 1
      BY <2>1, <2>2
    <3> QED BY <3>1, Zenon DEF Parted
  <2>3. CASE r # m - 1
    <3>1. y + 1 = q * m + (r + 1) /\ r + 1 \in 0 .. m - 1
      BY <2>1, <2>3
    <3> QED BY <3>1, Zenon DEF Parted
  <2> QED BY <2>2, <2>3
<1> HIDE DEF T
<1>3. x \in T
  BY <1>1, <1>2, AllOf
<1>4. PICK q \in Nat, r \in 0 .. m - 1 : x = q * m + r
  <2>1. Parted(x, m)
    BY <1>3 DEF T
  <2> QED BY <2>1, Zenon DEF Parted
<1>5. (q * m + r) % m = r
  OBVIOUS
<1> QED BY <1>4, <1>5, Zenon

Multiple(x) == \E q \in Nat : x = q * ALIGNMENT

(* Multiples of the alignment add up to one.                               *)
LEMMA MultipleFacts ==
  ASSUME dpath!EfiPathsAssumption
  PROVE  /\ Multiple(0)
         /\ \A x \in Nat : Multiple(x) => x % ALIGNMENT = 0
         /\ \A x, y \in Nat : Multiple(x) /\ Multiple(y) => Multiple(x + y)
<1>1. ALIGNMENT \in Nat \ {0}
  BY Zenon DEF dpath!EfiPathsAssumption
<1>2. Multiple(0)
  <2>1. 0 = 0 * ALIGNMENT
    BY <1>1
  <2> QED BY <2>1 DEF Multiple
<1>3. ASSUME NEW x \in Nat, Multiple(x) PROVE x % ALIGNMENT = 0
  <2>1. PICK q \in Nat : x = q * ALIGNMENT
    BY <1>3, Zenon DEF Multiple
  <2>2. (q * ALIGNMENT + 0) % ALIGNMENT = 0 /\ q * ALIGNMENT + 0 = q * ALIGNMENT
    BY <1>1
  <2> QED BY <2>1, <2>2, Zenon
<1>4. ASSUME NEW x \in Nat, NEW y \in Nat, Multiple(x), Multiple(y) PROVE Multiple(x + y)
  <2>1. PICK q \in Nat : x = q * ALIGNMENT
    BY <1>4, Zenon DEF Multiple
  <2>2. PICK r \in Nat : y = r * ALIGNMENT
    BY <1>4, Zenon DEF Multiple
  <2>3. q + r \in Nat /\ x + y = (q + r) * ALIGNMENT
    BY <1>1, <2>1, <2>2
  <2> QED BY <2>3, Zenon DEF Multiple
<1> QED BY <1>2, <1>3, <1>4

(* Padding makes a multiple, which does not matter to what comes behind    *)
(* it.                                                                     *)
LEMMA AlignedMultiple ==
  ASSUME dpath!EfiPathsAssumption, NEW x \in Nat
  PROVE  /\ dpath!AlignSize(x) \in Nat /\ Multiple(x + dpath!AlignSize(x))
         /\ \A w \in Nat : Multiple(w) => dpath!AlignSize(w + x) = dpath!AlignSize(x)
<1>1. ALIGNMENT \in Nat \ {0}
  BY Zenon DEF dpath!EfiPathsAssumption
<1>2. PICK q \in Nat, r \in 0 .. ALIGNMENT - 1 : x = q * ALIGNMENT + r /\ x % ALIGNMENT = r
  BY <1>1, Divided
<1>3. dpath!AlignSize(x) = IF r # 0 THEN ALIGNMENT - r ELSE 0
  BY <1>2, Zenon DEF dpath!AlignSize
<1>4. dpath!AlignSize(x) \in Nat
  BY <1>1, <1>3
<1>5. Multiple(x + dpath!AlignSize(x))
  <2>1. CASE r = 0
    <3>1. x + dpath!AlignSize(x) = q * ALIGNMENT
      BY <1>1, <1>2, <1>3, <2>1
    <3> QED BY <3>1, Zenon DEF Multiple
  <2>2. CASE r # 0
    <3>1. x + dpath!AlignSize(x) = (q + 1) * ALIGNMENT /\ q + 1 \in Nat
      BY <1>1, <1>2, <1>3, <2>2
    <3> QED BY <3>1, Zenon DEF Multiple
  <2> QED BY <2>1, <2>2
<1>6. ASSUME NEW w \in Nat, Multiple(w) PROVE dpath!AlignSize(w + x) = dpath!AlignSize(x)
  <2>1. PICK p \in Nat : w = p * ALIGNMENT
    BY <1>6, Zenon DEF Multiple
  <2>2. w + x = (p + q) * ALIGNMENT + r /\ p + q \in Nat
    BY <1>1, <1>2, <2>1
  <2>3. ((p + q) * ALIGNMENT + r) % ALIGNMENT = r
    <3>1. \A m \in Nat \ {0} : \A c \in Nat, s \in 0 .. m - 1 : (c * m + s) % m = s
      OBVIOUS
    <3> QED BY <1>1, <2>2, <3>1, Zenon
  <2>4. (w + x) % ALIGNMENT = x % ALIGNMENT
    BY <1>2, <2>2, <2>3, Zenon
  <2> QED BY <2>4, Zenon DEF dpath!AlignSize
<1> QED BY <1>4, <1>5, <1>6

(* UnpackDevicePath: each node grows to whole units, and what was counted  *)
(* on the way is the size of the nodes grown.                              *)
GrownNodes == {dpath!Grow(n) : n \in AnyNode}
TotalGoes(g, s, n) ==
  /\ g[0] = 0
  /\ \A k \in 1 .. n :
       g[k] = g[k - 1] + s[k].size + dpath!AlignSize(g[k - 1] + s[k].size)

(* A node that UnpackDevicePath has padded.                                *)
LEMMA GrownNode ==
  ASSUME dpath!EfiPathsAssumption, NEW n \in AnyNode
  PROVE  /\ dpath!Grow(n).kind = n.kind
         /\ dpath!Grow(n).size = n.size + dpath!AlignSize(n.size)
         /\ dpath!Grow(n).size \in Nat /\ Multiple(dpath!Grow(n).size)
<1>1. n = [kind |-> n.kind, size |-> n.size]
  <2>1. \A x \in Nodes : x = [kind |-> x.kind, size |-> x.size]
    BY Zenon DEF dpath!EfiPathsAssumption
  <2>2. End = [kind |-> "end", size |-> HEADER] /\ EndInstance = [kind |-> "end_instance", size |-> HEADER]
    BY Zenon DEF End, EndInstance, dpath!End, dpath!EndInstance
  <2>3. End = [kind |-> End.kind, size |-> End.size]
        /\ EndInstance = [kind |-> EndInstance.kind, size |-> EndInstance.size]
    BY <2>2
  <2> QED BY <2>1, <2>3, Zenon DEF AnyNode
<1>2. n.size \in Nat
  BY NodeFacts, Zenon DEF Sized
<1>3. dpath!AlignSize(n.size) \in Nat /\ Multiple(n.size + dpath!AlignSize(n.size))
  BY <1>2, AlignedMultiple
<1> DEFINE v == n.size + dpath!AlignSize(n.size)
<1>4. dpath!Grow(n) = [n EXCEPT !.size = v]
  BY DEF dpath!Grow
<1>5. v \in Nat /\ Multiple(v)
  BY <1>2, <1>3
<1> HIDE DEF v
<1>6. [n EXCEPT !.size = v].kind = n.kind /\ [n EXCEPT !.size = v].size = v
  BY <1>1
<1> QED BY <1>4, <1>5, <1>6, Zenon DEF v

(* Padded nodes lie at multiples of the alignment.                         *)
LEMMA BytesMultiple ==
  ASSUME dpath!EfiPathsAssumption, NEW s \in Seq(GrownNodes)
  PROVE  dpath!Bytes(s) \in Nat /\ Multiple(dpath!Bytes(s))
<1> DEFINE T == {x \in Seq(GrownNodes) : dpath!Bytes(x) \in Nat /\ Multiple(dpath!Bytes(x))}
<1>0. \A e \in GrownNodes : e.size \in Nat /\ Multiple(e.size)
  BY GrownNode, Zenon DEF GrownNodes
<1>1. <<>> \in T
  <2>1. <<>> \in Seq(GrownNodes) /\ 0 \in Nat
    OBVIOUS
  <2> QED BY <2>1, BytesOfNone, MultipleFacts
<1>2. ASSUME NEW x \in Seq(GrownNodes), NEW e \in GrownNodes, x \in T PROVE Append(x, e) \in T
  <2>1. dpath!Bytes(Append(x, e)) = dpath!Bytes(x) + e.size
    BY <1>0, BytesOfAppend DEF Sized
  <2>2. dpath!Bytes(x) \in Nat /\ Multiple(dpath!Bytes(x)) /\ e.size \in Nat /\ Multiple(e.size)
    BY <1>0, <1>2
  <2>3. Multiple(dpath!Bytes(x) + e.size)
    BY <2>2, MultipleFacts, Zenon
  <2>4. dpath!Bytes(x) + e.size \in Nat
    BY <2>2
  <2>5. Append(x, e) \in Seq(GrownNodes)
    BY AppendProperties
  <2>6. dpath!Bytes(Append(x, e)) \in Nat /\ Multiple(dpath!Bytes(Append(x, e)))
    BY <2>1, <2>3, <2>4, Zenon
  <2> QED BY <2>5, <2>6
<1> HIDE DEF T
<1>3. Seq(GrownNodes) \subseteq T
  BY <1>1, <1>2, AllSequences
<1> QED BY <1>3 DEF T

(* The size that UnpackDevicePath computes, node by node,                  *)
LEMMA TotalSteps ==
  ASSUME dpath!EfiPathsAssumption, NEW s \in Seq(AnyNode), NEW n \in Nat, n = Len(s)
  PROVE  \E g \in [0 .. n -> Nat] : TotalGoes(g, s, n) /\ dpath!Total(s) = g[n]
<1> DEFINE With(x, k) == x + s[k].size + dpath!AlignSize(x + s[k].size)
           F(f) == [k \in 0 .. n |-> IF k = 0 THEN 0 ELSE With(f[k - 1], k)]
           sum == CHOOSE f : f = F(f)
           step == [k \in 1 .. n |-> [x \in Nat |-> With(x, k)]]
<1>0. \A k \in 1 .. n : s[k].size \in Nat
  BY NodeFacts, ElementOfSeq DEF Sized
<1>1. dpath!Total(s) = sum[n]
  BY Zenon DEF dpath!Total
<1>2. \A x \in Nat, k \in 1 .. n : With(x, k) \in Nat
  <2>1. ASSUME NEW x \in Nat, NEW k \in 1 .. n PROVE With(x, k) \in Nat
    <3>1. s[k].size \in Nat /\ x + s[k].size \in Nat
      BY <1>0
    <3>2. dpath!AlignSize(x + s[k].size) \in Nat
      BY <3>1, AlignedMultiple
    <3> QED BY <3>1, <3>2
  <2> QED BY <2>1
<1> HIDE DEF With
<1>3. PICK g \in [0 .. n -> Nat] : g[0] = 0 /\ \A k \in 1 .. n : g[k] = step[k][g[k - 1]]
  <2>1. step \in [1 .. n -> [Nat -> Nat]]
    BY <1>2
  <2> HIDE DEF step
  <2>2. 0 \in Nat
    OBVIOUS
  <2>3. \E g \in [0 .. n -> Nat] : Leads(g, 0, n, step)
    BY <2>1, <2>2, StepsLead
  <2> QED BY <2>3, Zenon DEF Leads
<1>4. \A k \in 1 .. n : g[k] = With(g[k - 1], k)
  <2>1. ASSUME NEW k \in 1 .. n PROVE g[k] = With(g[k - 1], k)
    <3>1. g[k - 1] \in Nat
      <4>1. k - 1 \in 0 .. n
        OBVIOUS
      <4> HIDE DEF step
      <4> QED BY <1>3, <4>1
    <3>2. step[k][g[k - 1]] = With(g[k - 1], k)
      BY <3>1
    <3> QED BY <1>3, <3>2
  <2> QED BY <2>1
<1>5. g = F(g)
  <2>1. ASSUME NEW k \in 0 .. n PROVE g[k] = IF k = 0 THEN 0 ELSE With(g[k - 1], k)
    <3>1. k # 0 => k \in 1 .. n
      OBVIOUS
    <3> QED BY <1>3, <1>4, <3>1, Zenon
  <2> QED BY <2>1
<1>6. sum = F(sum)
  <2> HIDE DEF F
  <2> QED BY <1>5
<1>7. \A k \in 0 .. n : sum[k] = g[k]
  <2> HIDE DEF sum
  <2>1. sum[0] = g[0]
    BY <1>3, <1>6
  <2>2. ASSUME NEW k \in 1 .. n, sum[k - 1] = g[k - 1] PROVE sum[k] = g[k]
    <3>1. k \in 0 .. n /\ k # 0
      OBVIOUS
    <3>2. sum[k] = With(sum[k - 1], k)
      BY <1>6, <3>1
    <3> QED BY <1>4, <2>2, <3>2, Zenon
  <2> HIDE DEF F
  <2>3. Alike(sum, g, n)
    BY <2>1, <2>2, Zenon DEF Alike
  <2> QED BY <2>3, SameSteps
<1>8. dpath!Total(s) = g[n]
  <2>1. n \in 0 .. n
    OBVIOUS
  <2> QED BY <1>1, <1>7, <2>1
<1>9. TotalGoes(g, s, n)
  BY <1>3, <1>4, Zenon DEF TotalGoes, With
<1> QED BY <1>3, <1>8, <1>9, Zenon

(* is that of the nodes it writes.                                         *)
LEMMA UnpackedBytes ==
  ASSUME dpath!EfiPathsAssumption, NEW s \in Seq(AnyNode), NEW n \in Nat, n = Len(s),
         NEW d, d = [k \in 1 .. n |-> dpath!Grow(s[k])]
  PROVE  d \in Seq(GrownNodes) /\ Len(d) = n /\ dpath!Bytes(d) = dpath!Total(s)
<1>1. \A k \in 1 .. n : s[k] \in AnyNode
  BY ElementOfSeq
<1>2. \A k \in 1 .. n : dpath!Grow(s[k]) \in GrownNodes
  BY <1>1, Zenon DEF GrownNodes
<1>3. d \in Seq(GrownNodes) /\ Len(d) = n /\ \A k \in 1 .. n : d[k] = dpath!Grow(s[k])
  BY <1>2
<1>4. PICK g \in [0 .. n -> Nat] : TotalGoes(g, s, n) /\ dpath!Total(s) = g[n]
  BY TotalSteps
<1>5. \A x \in GrownNodes : x.size \in Nat
  BY GrownNode, Zenon DEF GrownNodes
<1>6. PICK h \in [0 .. n -> Nat] :
        /\ h[0] = 0 /\ \A k \in 1 .. n : h[k] = h[k - 1] + d[k].size
        /\ dpath!Bytes(d) = h[n]
  BY <1>3, <1>5, BytesSteps
<1> DEFINE T == {m \in Nat : m <= n => g[m] = h[m] /\ Multiple(g[m])}
<1>7. 0 \in T
  <2>1. g[0] = h[0] /\ g[0] = 0
    BY <1>4, <1>6, Zenon DEF TotalGoes
  <2> QED BY <2>1, MultipleFacts
<1>8. ASSUME NEW m \in Nat, m \in T PROVE m + 1 \in T
  <2> SUFFICES ASSUME m + 1 <= n PROVE g[m + 1] = h[m + 1] /\ Multiple(g[m + 1])
    OBVIOUS
  <2>1. m + 1 \in 1 .. n /\ (m + 1) - 1 = m /\ m \in 0 .. n
    OBVIOUS
  <2>2. g[m] = h[m] /\ Multiple(g[m]) /\ g[m] \in Nat
    BY <1>4, <1>8, <2>1
  <2> DEFINE x == s[m + 1].size
             y == dpath!AlignSize(x)
  <2>3. x \in Nat /\ d[m + 1].size = x + y
    <3>1. s[m + 1] \in AnyNode
      BY <1>1, <2>1
    <3>2. s[m + 1].size \in Nat
      BY <3>1, NodeFacts, Zenon DEF Sized
    <3>3. dpath!Grow(s[m + 1]).size = x + y
      BY <3>1, GrownNode
    <3> QED BY <1>3, <2>1, <3>2, <3>3, Zenon
  <2>4. g[m + 1] = g[m] + x + dpath!AlignSize(g[m] + x)
    BY <1>4, <2>1, Zenon DEF TotalGoes
  <2>5. h[m + 1] = h[m] + (x + y)
    BY <1>6, <2>1, <2>3, Zenon
  <2> HIDE DEF x
  <2>6. y \in Nat /\ Multiple(x + y) /\ dpath!AlignSize(g[m] + x) = y
    BY <2>2, <2>3, AlignedMultiple
  <2> HIDE DEF y
  <2>7. \A u, v, w \in Nat : u + v + w = u + (v + w)
    OBVIOUS
  <2>8. g[m + 1] = g[m] + (x + y) /\ x + y \in Nat
    BY <2>2, <2>3, <2>4, <2>6, <2>7
  <2>9. Multiple(g[m] + (x + y))
    BY <2>2, <2>6, <2>8, MultipleFacts, Zenon
  <2> QED BY <2>2, <2>5, <2>8, <2>9, Zenon
<1> HIDE DEF T
<1>9. n \in T
  BY <1>7, <1>8, AllOf
<1>10. g[n] = h[n]
  BY <1>9 DEF T
<1> QED BY <1>3, <1>4, <1>6, <1>10, Zenon

(* UnpackDevicePath.                                                       *)
LEMMA UnpackKept ==
  ASSUME dpath!EfiPathsAssumption, NEW a, Known(a)
  PROVE  UnpackPromise(a, dpath!UnpackDevicePath(a).mem, dpath!UnpackDevicePath(a).bytes)
<1>1. PICK p : Holds(a, p)
  BY KnownHolds
<1>2. PICK z \in Seq(AnyNode) : a = Append(p, End) \o z /\ dpath!Path(a) = Append(p, End) /\ p \in Seq(Inner)
  BY <1>1, Zenon DEF Holds
<1> DEFINE s == dpath!Path(a)
<1>3. s \in Seq(AnyNode)
  BY KnownHolds
<1>4. PICK n \in Nat : n = Len(s) /\ \A k \in 1 .. n : s[k] \in AnyNode
  BY <1>3, LenProperties, ElementOfSeq
<1>5. \A k \in 1 .. n : a[k] = s[k]
  <2>1. a = s \o z
    BY <1>2, Zenon
  <2> HIDE DEF s
  <2>2. \A k \in 1 .. Len(s) : (s \o z)[k] = s[k]
    BY <1>3, TwoParts
  <2> QED BY <1>4, <2>1, <2>2, Zenon
<1> DEFINE d == [k \in 1 .. n |-> dpath!Grow(s[k])]
<1>6. dpath!UnpackDevicePath(a) = [mem |-> d, bytes |-> dpath!Total(s)]
  BY <1>4, Zenon DEF dpath!UnpackDevicePath, dpath!Result
<1>7. dpath!UnpackDevicePath(a).mem = d /\ dpath!UnpackDevicePath(a).bytes = dpath!Total(s)
  <2> HIDE DEF d, s
  <2> QED BY <1>6
<1>8. d \in Seq(GrownNodes) /\ Len(d) = n /\ dpath!Bytes(d) = dpath!Total(s)
  <2> HIDE DEF s
  <2> QED BY <1>3, <1>4, UnpackedBytes
<1>9. \A k \in 1 .. n : d[k].kind = a[k].kind
  <2>1. ASSUME NEW k \in 1 .. n PROVE d[k].kind = a[k].kind
    <3>1. dpath!Grow(s[k]).kind = s[k].kind
      BY <1>4, GrownNode
    <3> HIDE DEF s
    <3>2. d[k] = dpath!Grow(s[k])
      OBVIOUS
    <3> QED BY <1>5, <3>1, <3>2, Zenon
  <2> QED BY <2>1
<1> HIDE DEF d, s
<1>10. \A k \in 1 .. n : dpath!Bytes(SubSeq(d, 1, k)) % ALIGNMENT = 0
  <2>1. ASSUME NEW k \in 1 .. n PROVE dpath!Bytes(SubSeq(d, 1, k)) % ALIGNMENT = 0
    <3>1. k \in Nat /\ k <= Len(d) /\ 1 \in Nat \ {0} /\ 1 <= k + 1
      BY <1>8
    <3>2. SubSeq(d, 1, k) \in Seq(GrownNodes)
      BY <1>8, <3>1, PieceOf
    <3>3. dpath!Bytes(SubSeq(d, 1, k)) \in Nat /\ Multiple(dpath!Bytes(SubSeq(d, 1, k)))
      BY <3>2, BytesMultiple
    <3> QED BY <3>3, MultipleFacts, Zenon
  <2> QED BY <2>1
<1>11. [k \in 1 .. n |-> d[k].kind] = [k \in 1 .. n |-> a[k].kind]
  BY <1>9
<1>12. UnpackPromise(a, d, dpath!Total(s))
  BY <1>8, <1>10, <1>11, Zenon DEF UnpackPromise
<1> QED BY <1>7, <1>12, Zenon

(* DuplicateDevicePath.                                                    *)
LEMMA CopyKept ==
  ASSUME dpath!EfiPathsAssumption, NEW a, Known(a)
  PROVE  CopyPromise(a, dpath!Path(a), Size(a))
<1>1. Size(a) \in Nat /\ Size(a) = dpath!Bytes(dpath!Path(a))
  BY KnownHolds
<1>2. Size(a) <= Size(a)
  BY <1>1
<1> QED BY <1>1, <1>2, Zenon DEF CopyPromise

(* LibDuplicateDevicePathInstance.                                         *)
LEMMA OneNode ==
  ASSUME dpath!EfiPathsAssumption, NEW n \in Nodes
  PROVE  /\ Insts(<<n, End>>) = <<<<n>>>>
         /\ dpath!Bytes(<<n, End>>) = n.size + HEADER
<1>1. <<n>> \in Seq(Inner) /\ <<n>> \in Seq(Nodes)
  BY NodeIsPlain
<1>2. Append(<<n>>, End) = <<n, End>>
  <2> DEFINE a == Append(<<n>>, End)
             b == <<n, End>>
  <2>1. a \in Seq(AnyNode) /\ Len(a) = 2 /\ a[1] = n /\ a[2] = End
    BY NodeIsPlain
  <2>2. b \in Seq(AnyNode) /\ Len(b) = 2 /\ b[1] = n /\ b[2] = End
    BY NodeIsPlain
  <2> HIDE DEF a, b
  <2>3. \A k \in 1 .. 2 : a[k] = b[k]
    BY <2>1, <2>2
  <2>4. a = b
    BY <2>1, <2>2, <2>3, SeqEqual
  <2> QED BY <2>4 DEF a, b
<1>3. Append(<<n>>, End) \o <<>> = Append(<<n>>, End) /\ <<>> \in Seq(AnyNode)
  BY <1>1, AsItEnds
<1>4. /\ dpath!DevicePathInstances(Append(<<n>>, End) \o <<>>) = Found(dpath!Walk(<<n>>))
      /\ dpath!Bytes(Append(<<n>>, End)) = dpath!Bytes(<<n>>) + HEADER
  BY <1>1, <1>3, InstancesOf
<1>5. Found(dpath!Walk(<<n>>)) = <<<<n>>>>
  <2>1. dpath!Walk(<<n>>) = [done |-> <<>>, inst |-> <<n>>]
    BY <1>1, WalkOfNodes
  <2>2. dpath!Walk(<<n>>).done = <<>> /\ dpath!Walk(<<n>>).inst = <<n>>
    BY <2>1
  <2>3. Found(dpath!Walk(<<n>>)) = Append(<<>>, <<n>>)
    BY <2>2, Zenon DEF Found
  <2>4. \A x : Append(<<>>, x) = <<x>>
    OBVIOUS
  <2> QED BY <2>3, <2>4, Zenon
<1>6. dpath!Bytes(<<n>>) = n.size
  <2>1. Append(<<>>, n) = <<n>> /\ <<>> \in Seq(AnyNode) /\ n \in AnyNode
    BY NodeIsPlain
  <2>2. dpath!Bytes(Append(<<>>, n)) = 0 + n.size
    BY <2>1, NodeFacts, BytesOfAppend, BytesOfNone
  <2>3. n.size \in Nat
    BY <2>1, NodeFacts, Zenon DEF Sized
  <2>4. 0 + n.size = n.size
    BY <2>3
  <2> QED BY <2>1, <2>2, <2>4, Zenon
<1> QED BY <1>2, <1>3, <1>4, <1>5, <1>6, Zenon DEF Insts

(* LibDuplicateDevicePathInstance: right for an instance of one node only. *)
LEMMA FirstKept ==
  ASSUME dpath!EfiPathsAssumption, NEW a, Known(a), Insts(a)[1] # <<>>
  PROVE  FirstPromise(a, <<Insts(a)[1][1], End>>, dpath!Bytes(Insts(a)[1]) + HEADER)
<1> DEFINE i == Insts(a)[1]
           e == i[1]
<1>1. i \in Seq(Nodes) /\ i # <<>>
  <2>1. Insts(a) \in Seq(Seq(Nodes)) /\ 1 \in 1 .. Len(Insts(a))
    BY KnownHolds
  <2> QED BY <2>1, ElementOfSeq
<1> HIDE DEF i
<1>2. PICK n \in Nat : n = Len(i) /\ n # 0
  BY <1>1, EmptySeq, LenProperties
<1>3. e \in Nodes /\ 1 \in 1 .. n
  BY <1>1, <1>2, ElementOfSeq
<1>4. Insts(<<e, End>>) = <<<<e>>>> /\ dpath!Bytes(<<e, End>>) = e.size + HEADER
  BY <1>3, OneNode
<1>5. i = <<e>> \o SubSeq(i, 2, n) /\ SubSeq(i, 2, n) \in Seq(Nodes)
  <2>1. 1 \in 1 .. Len(i) /\ n \in 1 .. Len(i)
    BY <1>2, <1>3
  <2>2. SubSeq(i, 1, n) = <<i[1]>> \o SubSeq(i, 1 + 1, n)
    BY <1>1, <2>1, SubSeqRecursiveFirst
  <2>3. SubSeq(i, 1, n) = i
    BY <1>1, <1>2, SubSeqFull
  <2>4. 2 \in Nat \ {0} /\ n <= Len(i) /\ 2 <= n + 1
    BY <1>2
  <2>5. SubSeq(i, 2, n) \in Seq(Nodes)
    BY <1>1, <2>4, PieceOf
  <2>6. 1 + 1 = 2
    OBVIOUS
  <2> QED BY <2>2, <2>3, <2>5, <2>6, Zenon
<1>6. e.size <= dpath!Bytes(i) /\ e.size \in Nat /\ dpath!Bytes(i) \in Nat
  <2> DEFINE r == SubSeq(i, 2, n)
  <2>1. r \in Seq(AnyNode) /\ <<e>> \in Seq(AnyNode) /\ e \in AnyNode /\ <<>> \in Seq(AnyNode)
    BY <1>3, <1>5, OfLarger, NodeIsPlain
  <2> HIDE DEF r, e
  <2>2. dpath!Bytes(<<e>> \o r) = dpath!Bytes(<<e>>) + dpath!Bytes(r)
    BY <2>1, NodeFacts, BytesOfTwo
  <2>3. dpath!Bytes(r) \in Nat
    BY <2>1, NodeFacts, BytesOfAppend
  <2>4. e.size \in Nat
    BY <2>1, NodeFacts, Zenon DEF Sized
  <2>5. dpath!Bytes(Append(<<>>, e)) = dpath!Bytes(<<>>) + e.size
    BY <2>1, NodeFacts, BytesOfAppend
  <2>6. dpath!Bytes(<<e>>) = e.size
    <3>1. Append(<<>>, e) = <<e>> /\ 0 + e.size = e.size
      BY <2>4
    <3> QED BY <2>5, <3>1, BytesOfNone, Zenon
  <2>7. dpath!Bytes(<<e>> \o r) = e.size + dpath!Bytes(r)
    BY <2>2, <2>6, Zenon
  <2>8. e.size <= e.size + dpath!Bytes(r) /\ e.size + dpath!Bytes(r) \in Nat
    BY <2>3, <2>4
  <2> QED BY <1>5, <2>4, <2>7, <2>8, Zenon DEF r, e
<1>7. dpath!Bytes(<<e, End>>) <= dpath!Bytes(i) + HEADER
  <2>1. HEADER \in Nat
    BY NodeFacts
  <2> HIDE DEF e
  <2> QED BY <1>4, <1>6, <2>1
<1>8. <<<<e>>>> = <<i>> <=> Len(i) = 1
  <2>1. ASSUME Len(i) = 1 PROVE i = <<e>>
    <3>1. <<e>> \in Seq(Nodes) /\ Len(<<e>>) = 1 /\ <<e>>[1] = e
      BY <1>3
    <3>2. \A k \in 1 .. 1 : i[k] = <<e>>[k]
      BY <3>1
    <3> QED BY <1>1, <2>1, <3>1, <3>2, SeqEqual
  <2>2. ASSUME <<<<e>>>> = <<i>> PROVE Len(i) = 1
    <3> HIDE DEF e
    <3>1. <<<<e>>>>[1] = <<i>>[1]
      BY <2>2, Zenon
    <3>2. <<e>> = i
      BY <3>1
    <3> QED BY <3>2
  <2> QED BY <2>1, <2>2, Zenon
<1> QED BY <1>4, <1>7, <1>8, Zenon DEF FirstPromise, i

(* AppendDevicePathInstance: the end of one path becomes the end of an     *)
(* instance.                                                               *)
LEMMA EndReplaced ==
  ASSUME dpath!EfiPathsAssumption, NEW p \in Seq(Inner)
  PROVE  [Append(p, End) EXCEPT ![Len(Append(p, End))] = EndInstance] = Append(p, EndInstance)
<1>1. p \in Seq(AnyNode) /\ End \in AnyNode /\ EndInstance \in AnyNode
  BY OfLarger, NodeIsPlain
<1>2. PICK n \in Nat : n = Len(p)
  BY LenProperties
<1> DEFINE a == Append(p, End)
           b == Append(p, EndInstance)
<1>3. a \in Seq(AnyNode) /\ Len(a) = n + 1 /\ \A k \in 1 .. n : a[k] = p[k]
  BY <1>1, <1>2, AppendProperties
<1>4. b \in Seq(AnyNode) /\ Len(b) = n + 1 /\ b[n + 1] = EndInstance /\ \A k \in 1 .. n : b[k] = p[k]
  BY <1>1, <1>2, AppendProperties
<1> HIDE DEF a, b
<1> DEFINE c == [a EXCEPT ![n + 1] = EndInstance]
<1>5. /\ c \in Seq(AnyNode) /\ Len(c) = n + 1
      /\ \A k \in 1 .. n + 1 : c[k] = IF k = n + 1 THEN EndInstance ELSE a[k]
  <2>1. n + 1 \in 1 .. Len(a)
    BY <1>3
  <2>2. /\ [a EXCEPT ![n + 1] = EndInstance] \in Seq(AnyNode)
        /\ Len([a EXCEPT ![n + 1] = EndInstance]) = Len(a)
        /\ \A k \in 1 .. Len(a) :
             [a EXCEPT ![n + 1] = EndInstance][k] = IF k = n + 1 THEN EndInstance ELSE a[k]
    BY <1>1, <1>3, <2>1, ExceptSeq
  <2> QED BY <1>3, <2>2, Zenon
<1> HIDE DEF c
<1>6. ASSUME NEW k \in 1 .. n + 1 PROVE c[k] = b[k]
  <2>1. k = n + 1 \/ (k \in 1 .. n /\ k # n + 1)
    OBVIOUS
  <2> QED BY <1>3, <1>4, <1>5, <2>1, Zenon
<1>7. c = b
  BY <1>4, <1>5, <1>6, SeqEqual
<1> QED BY <1>3, <1>7, Zenon DEF a, b, c

(* AppendDevicePathInstance: the instances of both paths.                  *)
LEMMA InstanceKept ==
  ASSUME dpath!EfiPathsAssumption, NEW a, Known(a), NEW b, Known(b)
  PROVE  InstancePromise(a, b,
           [dpath!Path(a) EXCEPT ![Len(dpath!Path(a))] = EndInstance] \o dpath!Path(b),
           Size(a) + Size(b))
<1>1. PICK p : Holds(a, p)
  BY KnownHolds
<1>2. PICK q : Holds(b, q)
  BY KnownHolds
<1>3. /\ p \in Seq(Inner) /\ dpath!Path(a) = Append(p, End) /\ Insts(a) = Found(dpath!Walk(p))
      /\ dpath!Walk(p) \in Walks /\ Size(a) = dpath!Bytes(Append(p, End))
  BY <1>1, Zenon DEF Holds
<1>4. /\ q \in Seq(Inner) /\ dpath!Path(b) = Append(q, End) /\ Insts(b) = Found(dpath!Walk(q))
      /\ dpath!Walk(q) \in Walks /\ Size(b) = dpath!Bytes(Append(q, End))
  BY <1>2, Zenon DEF Holds
<1>5. /\ p \in Seq(AnyNode) /\ q \in Seq(AnyNode) /\ End \in AnyNode
      /\ EndInstance \in AnyNode /\ EndInstance \in Inner /\ EndInstance \notin Nodes
  <2>1. p \in Seq(AnyNode) /\ q \in Seq(AnyNode)
    BY <1>3, <1>4, OfLarger, NodeIsPlain
  <2>2. dpath!IsDevicePathEndType(EndInstance)
    BY Zenon DEF dpath!IsDevicePathEndType, EndInstance
  <2>3. EndInstance \in AnyNode
    BY NodeIsPlain
  <2>4. EndInstance \notin Nodes
    BY <2>2, <2>3, NodeFacts, Zenon
  <2> QED BY <2>1, <2>3, <2>4, NodeIsPlain
<1> DEFINE f == Append(p, EndInstance)
           s == f \o q
           r == f \o Append(q, End)
<1>6. f \in Seq(Inner) /\ f \in Seq(AnyNode) /\ s \in Seq(Inner) /\ s \in Seq(AnyNode)
  <2>1. f \in Seq(Inner)
    BY <1>3, <1>5, AppendProperties
  <2> HIDE DEF f
  <2>2. f \o q \in Seq(Inner)
    BY <1>4, <2>1, ConcatProperties
  <2> HIDE DEF s
  <2>3. s \in Seq(Inner)
    BY <2>2 DEF s
  <2> QED BY <2>1, <2>3, OfLarger, NodeIsPlain
<1>7. dpath!Walk(f) = [done |-> Insts(a), inst |-> <<>>]
  <2>1. dpath!Walk(f) = dpath!Walked(dpath!Walk(p), EndInstance)
    BY <1>5, WalkOfAppend
  <2>2. dpath!Walked(dpath!Walk(p), EndInstance)
        = [done |-> Append(dpath!Walk(p).done, dpath!Walk(p).inst), inst |-> <<>>]
    BY <1>5, WalkedNode
  <2> QED BY <1>3, <2>1, <2>2, Zenon DEF Found
<1>8. dpath!Bytes(f) = Size(a)
  <2>1. /\ dpath!Bytes(Append(p, EndInstance)) = dpath!Bytes(p) + EndInstance.size
        /\ dpath!Bytes(Append(p, End)) = dpath!Bytes(p) + End.size
    BY <1>5, NodeFacts, BytesOfAppend
  <2> QED BY <1>3, <2>1, NodeFacts, Zenon
<1> HIDE DEF f
<1>9. r = Append(s, End)
  BY <1>5, <1>6, AnyBehind, Zenon
<1>10. Insts(r) = Insts(a) \o Insts(b)
  <2> DEFINE w == dpath!Walk(q)
  <2>1. dpath!Walk(f).inst = <<>> /\ dpath!Walk(f).done = Insts(a)
    BY <1>7
  <2>2. dpath!Walk(s) = [done |-> dpath!Walk(f).done \o w.done, inst |-> w.inst]
    BY <1>5, <1>6, <2>1, WalkAfterEnd
  <2>3. w.done \in Seq(Seq(Nodes)) /\ w.inst \in Seq(Nodes)
    BY <1>4 DEF Walks
  <2>4. Insts(a) \in Seq(Seq(Nodes))
    BY KnownHolds
  <2>5. Insts(b) = Append(w.done, w.inst)
    BY <1>4, Zenon DEF Found
  <2> HIDE DEF w
  <2>6. dpath!Walk(s).done = Insts(a) \o w.done /\ dpath!Walk(s).inst = w.inst
    BY <2>1, <2>2
  <2>7. Insts(a) \o Append(w.done, w.inst) = Append(Insts(a) \o w.done, w.inst)
    BY <2>3, <2>4, InstanceBehind, Zenon
  <2>8. Found(dpath!Walk(s)) = Insts(a) \o Insts(b)
    BY <2>5, <2>6, <2>7, Zenon DEF Found
  <2> HIDE DEF s
  <2>9. Append(s, End) \o <<>> = Append(s, End) /\ <<>> \in Seq(AnyNode)
    BY <1>6, AsItEnds
  <2>10. dpath!DevicePathInstances(Append(s, End) \o <<>>) = Found(dpath!Walk(s))
    BY <1>6, <2>9, InstancesOf
  <2> QED BY <1>9, <2>8, <2>9, <2>10, Zenon DEF Insts
<1>11. dpath!Bytes(r) <= Size(a) + Size(b)
  <2>1. Append(q, End) \in Seq(AnyNode)
    BY <1>5, AppendProperties
  <2>2. dpath!Bytes(f \o Append(q, End)) = dpath!Bytes(f) + dpath!Bytes(Append(q, End))
    BY <1>6, <2>1, NodeFacts, BytesOfTwo
  <2>3. Size(a) \in Nat /\ Size(b) \in Nat
    BY KnownHolds
  <2>4. \A m, n \in Nat : m + n <= m + n
    OBVIOUS
  <2> QED BY <1>4, <1>8, <2>2, <2>3, <2>4, Zenon
<1>12. [dpath!Path(a) EXCEPT ![Len(dpath!Path(a))] = EndInstance] = f
  BY <1>3, EndReplaced, Zenon DEF f
<1>13. [dpath!Path(a) EXCEPT ![Len(dpath!Path(a))] = EndInstance] \o dpath!Path(b) = r
  BY <1>4, <1>12, Zenon
<1> QED BY <1>10, <1>11, <1>13, Zenon DEF InstancePromise

(* The same without a first path.                                          *)
LEMMA InstanceAlone ==
  ASSUME dpath!EfiPathsAssumption, NEW b, Known(b)
  PROVE  InstancePromise(<<>>, b, dpath!Path(b), Size(b))
<1>1. /\ Insts(b) \in Seq(Seq(Nodes)) /\ Insts(dpath!Path(b)) = Insts(b)
      /\ Size(b) = dpath!Bytes(dpath!Path(b)) /\ Size(b) \in Nat
  BY KnownHolds
<1>2. Insts(<<>>) = <<>>
  BY NoInstances, Zenon DEF Insts
<1>3. <<>> \o Insts(b) = Insts(b)
  BY <1>1, ConcatEmptySeq
<1>4. Size(b) <= Size(b)
  BY <1>1
<1> QED BY <1>1, <1>2, <1>3, <1>4, Zenon DEF InstancePromise

(* LibMatchDevicePaths.                                                    *)
LEMMA OneInstance ==
  ASSUME dpath!EfiPathsAssumption, NEW s \in Seq(AnyNode), dpath!Walk(s).done = <<>>
  PROVE  dpath!Walk(s).inst = s /\ s \in Seq(Nodes)
<1> DEFINE T == {x \in Seq(AnyNode) :
                   dpath!Walk(x).done = <<>> => dpath!Walk(x).inst = x /\ x \in Seq(Nodes)}
<1>1. <<>> \in T
  <2>1. <<>> \in Seq(AnyNode) /\ <<>> \in Seq(Nodes)
    OBVIOUS
  <2>2. Nothing.inst = <<>>
    BY DEF Nothing
  <2> QED BY <2>1, <2>2, WalkOfNone
<1>2. ASSUME NEW x \in Seq(AnyNode), NEW e \in AnyNode, x \in T PROVE Append(x, e) \in T
  <2> DEFINE w == dpath!Walk(x)
             v == dpath!Walk(Append(x, e))
  <2>1. w \in Walks /\ v = dpath!Walked(w, e)
    BY WalkOfAppend
  <2>2. w.done = <<>> => w.inst = x /\ x \in Seq(Nodes)
    BY <1>2
  <2>3. Append(x, e) \in Seq(AnyNode)
    BY AppendProperties
  <2> HIDE DEF w, v
  <2>4. v.done = <<>> => v.inst = Append(x, e) /\ Append(x, e) \in Seq(Nodes)
    <3>1. CASE e \in Nodes
      <4>1. v = [done |-> w.done, inst |-> Append(w.inst, e)]
        BY <2>1, <3>1, WalkedNode
      <4>2. v.done = w.done /\ v.inst = Append(w.inst, e)
        BY <4>1
      <4>3. x \in Seq(Nodes) => Append(x, e) \in Seq(Nodes)
        BY <3>1, AppendProperties
      <4> QED BY <2>2, <4>2, <4>3, Zenon
    <3>2. CASE e \notin Nodes
      <4>1. v = [done |-> Append(w.done, w.inst), inst |-> <<>>]
        BY <2>1, <3>2, WalkedNode
      <4>2. w.done \in Seq(Seq(Nodes)) /\ w.inst \in Seq(Nodes)
        BY <2>1 DEF Walks
      <4>3. v.done = Append(w.done, w.inst)
        BY <4>1
      <4>4. Append(w.done, w.inst) # <<>>
        BY <4>2, InstanceBehind, Zenon
      <4> QED BY <4>3, <4>4, Zenon
    <3> QED BY <3>1, <3>2
  <2> QED BY <2>3, <2>4 DEF v
<1> HIDE DEF T
<1>3. Seq(AnyNode) \subseteq T
  BY <1>1, <1>2, AllSequences
<1> QED BY <1>3 DEF T

(* What an instance is compared with ends before the end of the path.      *)
LEMMA PrefixOf ==
  ASSUME dpath!EfiPathsAssumption, NEW q \in Seq(Nodes), NEW z \in Seq(AnyNode), NEW m,
         m = Append(q, End) \o z, NEW i \in Seq(Nodes)
  PROVE  /\ dpath!IsPrefix(i, m) => dpath!IsPrefix(i, q)
         /\ dpath!IsPrefix(q, m)
<1>1. q \in Seq(AnyNode) /\ End \in AnyNode /\ End \notin Nodes
  BY OfLarger, NodeIsPlain DEF Inner
<1>2. PICK n \in Nat, l \in Nat, j \in Nat : n = Len(q) /\ l = Len(z) /\ j = Len(i)
  BY LenProperties
<1> DEFINE f == Append(q, End)
<1>3. f \in Seq(AnyNode) /\ Len(f) = n + 1 /\ f[n + 1] = End /\ \A k \in 1 .. n : f[k] = q[k]
  BY <1>1, <1>2, AppendProperties
<1> HIDE DEF f
<1>4. /\ m \in Seq(AnyNode) /\ Len(m) = (n + 1) + l /\ \A k \in 1 .. n + 1 : m[k] = f[k]
  <2>1. /\ f \o z \in Seq(AnyNode) /\ Len(f \o z) = Len(f) + Len(z)
        /\ \A k \in 1 .. Len(f) : (f \o z)[k] = f[k]
    BY <1>3, TwoParts
  <2>2. m = f \o z
    BY DEF f
  <2> QED BY <1>2, <1>3, <2>1, <2>2, Zenon
<1>5. m[n + 1] = End /\ \A k \in 1 .. n : m[k] = q[k]
  <2>1. n + 1 \in 1 .. n + 1 /\ \A k \in 1 .. n : k \in 1 .. n + 1
    OBVIOUS
  <2> QED BY <1>3, <1>4, <2>1, Zenon
<1>6. ASSUME NEW S, NEW t \in Seq(S), NEW k \in Nat, k <= Len(t)
      PROVE  /\ SubSeq(t, 1, k) \in Seq(S) /\ Len(SubSeq(t, 1, k)) = k
             /\ \A u \in 1 .. k : SubSeq(t, 1, k)[u] = t[u]
  <2>1. 1 \in Nat \ {0} /\ 1 <= k + 1
    OBVIOUS
  <2>2. /\ SubSeq(t, 1, k) \in Seq(S) /\ Len(SubSeq(t, 1, k)) = k - 1 + 1
        /\ \A u \in 1 .. k - 1 + 1 : SubSeq(t, 1, k)[u] = t[1 + u - 1]
    BY <1>6, <2>1, PieceOf
  <2>3. k - 1 + 1 = k /\ \A u \in 1 .. k : 1 + u - 1 = u
    OBVIOUS
  <2> QED BY <2>2, <2>3
<1>7. ASSUME NEW k \in Nat, k <= n PROVE SubSeq(m, 1, k) = SubSeq(q, 1, k)
  <2>1. k <= Len(m) /\ k <= Len(q)
    BY <1>2, <1>4, <1>7
  <2>2. /\ SubSeq(m, 1, k) \in Seq(AnyNode) /\ Len(SubSeq(m, 1, k)) = k
        /\ \A u \in 1 .. k : SubSeq(m, 1, k)[u] = m[u]
    BY <1>4, <1>6, <2>1
  <2>3. /\ SubSeq(q, 1, k) \in Seq(AnyNode) /\ Len(SubSeq(q, 1, k)) = k
        /\ \A u \in 1 .. k : SubSeq(q, 1, k)[u] = q[u]
    BY <1>1, <1>6, <2>1
  <2>4. \A u \in 1 .. k : u \in 1 .. n
    BY <1>7
  <2>5. \A u \in 1 .. k : SubSeq(m, 1, k)[u] = SubSeq(q, 1, k)[u]
    BY <1>5, <2>2, <2>3, <2>4, Zenon
  <2> QED BY <2>2, <2>3, <2>5, SeqEqual
<1>8. dpath!IsPrefix(q, m)
  <2>1. n <= n /\ n <= (n + 1) + l
    OBVIOUS
  <2>2. SubSeq(m, 1, n) = SubSeq(q, 1, n) /\ n <= Len(m)
    BY <1>4, <1>7, <2>1, Zenon
  <2> QED BY <1>2, <2>2, Zenon DEF dpath!IsPrefix
<1>9. ASSUME dpath!IsPrefix(i, m) PROVE dpath!IsPrefix(i, q)
  <2>1. j <= Len(m) /\ SubSeq(i, 1, j) = SubSeq(m, 1, j)
    BY <1>2, <1>9, Zenon DEF dpath!IsPrefix
  <2>2. j <= n
    <3>1. SUFFICES ASSUME n + 1 \in 1 .. j PROVE FALSE
      BY <1>2
    <3>2. \A u \in 1 .. j : SubSeq(i, 1, j)[u] = i[u]
      <4>1. j <= Len(i)
        BY <1>2
      <4> QED BY <1>6, <4>1
    <3>3. \A u \in 1 .. j : SubSeq(m, 1, j)[u] = m[u]
      BY <1>4, <1>6, <2>1
    <3>4. i[n + 1] = End
      BY <1>5, <2>1, <3>1, <3>2, <3>3, Zenon
    <3>5. i[n + 1] \in Nodes
      BY <1>2, <3>1, ElementOfSeq
    <3> QED BY <1>1, <3>4, <3>5
  <2>3. SubSeq(m, 1, j) = SubSeq(q, 1, j)
    BY <1>7, <2>2
  <2> QED BY <1>2, <2>1, <2>2, <2>3, Zenon DEF dpath!IsPrefix
<1> QED BY <1>8, <1>9

(* LibMatchDevicePaths finds an instance, and nothing shorter.             *)
LEMMA MatchKept ==
  ASSUME dpath!EfiPathsAssumption, NEW a, Known(a), NEW b, Known(b)
  PROVE  MatchPromise(a, b, IF dpath!LibMatchDevicePaths(a, b) THEN a ELSE <<>>)
<1> DEFINE d == IF dpath!LibMatchDevicePaths(a, b) THEN a ELSE <<>>
<1> SUFFICES ASSUME Len(Insts(b)) = 1,
                    \A k \in 1 .. Len(Insts(a)) : ~ dpath!IsStrictPrefix(Insts(a)[k], Insts(b)[1])
             PROVE  d # <<>> <=> \E k \in 1 .. Len(Insts(a)) : Insts(a)[k] = Insts(b)[1]
  BY Zenon DEF MatchPromise
<1>1. a # <<>> /\ b # <<>>
  BY KnownHolds
<1>2. PICK q : Holds(b, q)
  BY KnownHolds
<1>3. PICK z \in Seq(AnyNode) :
        /\ b = Append(q, End) \o z /\ q \in Seq(Inner)
        /\ Insts(b) = Found(dpath!Walk(q)) /\ dpath!Walk(q) \in Walks
  BY <1>2, Zenon DEF Holds
<1>4. q \in Seq(Nodes) /\ Insts(b)[1] = q
  <2> DEFINE w == dpath!Walk(q)
  <2>1. q \in Seq(AnyNode)
    BY <1>3, OfLarger, NodeIsPlain
  <2>2. w.done = <<>> => w.inst = q /\ q \in Seq(Nodes)
    BY <2>1, OneInstance
  <2>3. w.done \in Seq(Seq(Nodes)) /\ w.inst \in Seq(Nodes) /\ Insts(b) = Append(w.done, w.inst)
    BY <1>3 DEF Walks, Found
  <2> HIDE DEF w
  <2>4. Len(Append(w.done, w.inst)) = Len(w.done) + 1 /\ Len(w.done) \in Nat
    BY <2>3, AppendProperties, LenProperties
  <2>5. Len(w.done) = 0
    BY <2>3, <2>4
  <2>6. w.done = <<>>
    BY <2>3, <2>5, EmptySeq
  <2>7. \A x : Append(<<>>, x)[1] = x
    OBVIOUS
  <2> QED BY <2>2, <2>3, <2>6, <2>7, Zenon
<1>5. \A k \in 1 .. Len(Insts(a)) : Insts(a)[k] \in Seq(Nodes)
  BY KnownHolds, ElementOfSeq
<1>6. d # <<>> <=> \E k \in 1 .. Len(Insts(a)) : dpath!IsPrefix(Insts(a)[k], b)
  BY <1>1, Zenon DEF dpath!LibMatchDevicePaths, dpath!Given, dpath!NoPath, Insts
<1>7. \A i \in Seq(Nodes) : (dpath!IsPrefix(i, b) => dpath!IsPrefix(i, q)) /\ dpath!IsPrefix(q, b)
  BY <1>3, <1>4, PrefixOf
<1>8. ASSUME NEW k \in 1 .. Len(Insts(a)) PROVE dpath!IsPrefix(Insts(a)[k], b) <=> Insts(a)[k] = Insts(b)[1]
  <2>1. dpath!IsPrefix(Insts(a)[k], b) => dpath!IsPrefix(Insts(a)[k], q)
    BY <1>5, <1>7, Zenon
  <2>2. dpath!IsPrefix(Insts(a)[k], q) => Insts(a)[k] = q
    BY <1>4, Zenon DEF dpath!IsStrictPrefix
  <2>3. dpath!IsPrefix(q, b)
    BY <1>4, <1>7, Zenon
  <2> QED BY <1>4, <2>1, <2>2, <2>3, Zenon
<1> QED BY <1>6, <1>8, Zenon

(* What is promised of a call o with the paths a and b that wrote d.       *)
Promised(o, a, b, d, n) ==
  /\ o = "append" /\ d # <<>> /\ a # <<>> /\ b # <<>> => AppendPromise(a, b, d, n)
  /\ o = "append_instance" /\ d # <<>> => InstancePromise(a, b, d, n)
  /\ o = "duplicate" /\ d # <<>> => CopyPromise(a, d, n)
  /\ o = "first_instance" /\ d # <<>> => FirstPromise(a, d, n)
  /\ o = "unpack" /\ d # <<>> => UnpackPromise(a, d, n)
  /\ o = "match" /\ a # <<>> /\ b # <<>> => MatchPromise(a, b, d)
PathsPromised == Promised(op, src1, src2, dst, bytes)

(* This is all that PathsExact says.                                       *)
LEMMA PromisedExact == PathsPromised => dpath!PathsExact
<1>1. PathsPromised =>
        /\ op = "append" /\ dst # <<>> /\ src1 # <<>> /\ src2 # <<>> => AppendPromise(src1, src2, dst, bytes)
        /\ op = "append_instance" /\ dst # <<>> => InstancePromise(src1, src2, dst, bytes)
        /\ op = "duplicate" /\ dst # <<>> => CopyPromise(src1, dst, bytes)
        /\ op = "first_instance" /\ dst # <<>> => FirstPromise(src1, dst, bytes)
        /\ op = "unpack" /\ dst # <<>> => UnpackPromise(src1, dst, bytes)
        /\ op = "match" /\ src1 # <<>> /\ src2 # <<>> => MatchPromise(src1, src2, dst)
  BY Zenon DEF PathsPromised, Promised
<1>2. AppendPromise(src1, src2, dst, bytes) =>
        /\ dpath!Out = dpath!FlattenSeq([k \in 1 .. Len(dpath!In1) |->
                                           dpath!Followed(dpath!In1[k])])
           <=> Len(dpath!In1) = 1
        /\ dpath!Fits <=> Len(dpath!In1) = 1
             \/ dpath!DevicePathSize(src2) <= dpath!DevicePathSize(src1)
  BY Zenon DEF AppendPromise, Fronted, Insts, Size, dpath!Out, dpath!In1, dpath!In2,
     dpath!Followed, dpath!Fits
<1>3. InstancePromise(src1, src2, dst, bytes)
        => dpath!Out = dpath!In1 \o dpath!In2 /\ dpath!Fits
  BY Zenon DEF InstancePromise, Insts, dpath!Out, dpath!In1, dpath!In2, dpath!Fits
<1>4. CopyPromise(src1, dst, bytes) => dst = dpath!Path(src1) /\ dpath!Fits
  BY Zenon DEF CopyPromise, dpath!Fits
<1>5. FirstPromise(src1, dst, bytes)
        => dpath!Fits /\ (dpath!Out = <<dpath!In1[1]>> <=> Len(dpath!In1[1]) = 1)
  BY Zenon DEF FirstPromise, Insts, dpath!Out, dpath!In1, dpath!Fits
<1>6. UnpackPromise(src1, dst, bytes) =>
       /\ [k \in 1 .. Len(dst) |-> dst[k].kind] = [k \in 1 .. Len(dst) |-> src1[k].kind]
       /\ \A k \in 1 .. Len(dst) : dpath!Bytes(SubSeq(dst, 1, k)) % ALIGNMENT = 0
       /\ dpath!Bytes(dst) = bytes
  BY Zenon DEF UnpackPromise
<1>7. MatchPromise(src1, src2, dst) =>
        (Len(dpath!In2) = 1
         /\ (\A k \in 1 .. Len(dpath!In1) : ~ dpath!IsStrictPrefix(dpath!In1[k], dpath!In2[1]))
         => (dst # <<>> <=> \E k \in 1 .. Len(dpath!In1) : dpath!In1[k] = dpath!In2[1]))
  BY Zenon DEF MatchPromise, Insts, dpath!In1, dpath!In2
<1> QED
  BY <1>1, <1>2, <1>3, <1>4, <1>5, <1>6, <1>7, Zenon
  DEF dpath!PathsExact, dpath!Done, dpath!Given, dpath!NoPath

(* What was asked for is promised whether or not the pool had room.        *)
LEMMA Called ==
  ASSUME NEW o, NEW a, NEW b, NEW r, dpath!Call(o, a, b, r), o # "match",
         r.mem # <<>> => Promised(o, a, b, r.mem, r.bytes)
  PROVE  PathsPromised'
<1>1. op' = o /\ src1' = a /\ src2' = b /\ (dst' = <<>> \/ (dst' = r.mem /\ bytes' = r.bytes))
  BY Zenon DEF dpath!Call, dpath!NoPath
<1>2. dst' = <<>> => Promised(op', src1', src2', dst', bytes')
  BY <1>1, Zenon DEF Promised
<1>3. dst' = r.mem /\ bytes' = r.bytes /\ r.mem # <<>> => Promised(op', src1', src2', dst', bytes')
  BY <1>1, Zenon
<1>4. Promised(op', src1', src2', dst', bytes')
  BY <1>1, <1>2, <1>3, Zenon
<1> QED BY <1>4 DEF PathsPromised

(* AppendDevicePath and the functions that call it.                        *)
LEMMA CombineKept ==
  ASSUME dpath!EfiPathsAssumption, dpath!Combine
  PROVE  PathsPromised'
<1>1. dpath!NoPath = <<>> /\ \A m : dpath!Given(m) <=> m # <<>>
  BY Zenon DEF dpath!NoPath, dpath!Given
<1>2. \A m \in dpath!Optional : m = <<>> \/ Known(m)
  BY <1>1, PathsKnown, Zenon DEF dpath!Optional
<1>3. \A m, n : dpath!Result(m, n).mem = m /\ dpath!Result(m, n).bytes = n
  BY DEF dpath!Result
<1>4. ASSUME NEW a, NEW b, a = <<>> \/ Known(a), b = <<>> \/ Known(b),
             dpath!Call("append", a, b, dpath!AppendDevicePath(a, b))
      PROVE  PathsPromised'
  <2> DEFINE r == dpath!AppendDevicePath(a, b)
  <2>1. CASE a # <<>> /\ b # <<>>
    <3>1. r = dpath!Result(dpath!EachFollowed(Insts(a), b), Size(a) * Len(Insts(a)) + Size(b))
      BY <1>1, <2>1, Zenon DEF dpath!AppendDevicePath, Insts, Size
    <3>2. AppendPromise(a, b, dpath!EachFollowed(Insts(a), b), Size(a) * Len(Insts(a)) + Size(b))
      BY <1>4, <2>1, AppendKept
    <3>3. AppendPromise(a, b, r.mem, r.bytes)
      BY <1>3, <3>1, <3>2, Zenon
    <3> HIDE DEF r
    <3>4. Promised("append", a, b, r.mem, r.bytes)
      BY <3>3 DEF Promised
    <3> QED BY <1>4, <3>4, Called DEF r
  <2>2. CASE a = <<>> \/ b = <<>>
    <3>1. Promised("append", a, b, r.mem, r.bytes)
      <4> HIDE DEF r
      <4> QED BY <2>2 DEF Promised
    <3> HIDE DEF r
    <3> QED BY <1>4, <3>1, Called DEF r
  <2> QED BY <2>1, <2>2, Zenon
<1>5. ASSUME NEW a \in dpath!Optional, NEW n \in Nodes,
             dpath!Call("append", a, <<n, dpath!End>>, dpath!AppendDevicePathNode(a, n))
      PROVE  PathsPromised'
  <2>1. Known(<<n, dpath!End>>)
    BY PathsKnown DEF End
  <2>2. dpath!Call("append", a, <<n, dpath!End>>,
                         dpath!AppendDevicePath(a, <<n, dpath!End>>))
    BY <1>5, Zenon DEF dpath!AppendDevicePathNode
  <2> QED BY <1>2, <1>4, <2>1, <2>2, Zenon
<1>6. ASSUME NEW a \in dpath!Optional, NEW b \in Paths,
             dpath!Call("append_instance", a, b, dpath!AppendDevicePathInstance(a, b))
      PROVE  PathsPromised'
  <2> DEFINE r == dpath!AppendDevicePathInstance(a, b)
  <2>1. Known(b)
    BY PathsKnown
  <2>2. InstancePromise(a, b, r.mem, r.bytes)
    <3>1. CASE a = <<>>
      <4>1. r = dpath!Result(dpath!Path(b), Size(b))
        BY <1>1, <3>1, Zenon
        DEF dpath!AppendDevicePathInstance, dpath!DuplicateDevicePath, Size
      <4>2. InstancePromise(<<>>, b, dpath!Path(b), Size(b))
        BY <2>1, InstanceAlone
      <4> QED BY <1>3, <3>1, <4>1, <4>2, Zenon
    <3>2. CASE a # <<>>
      <4>1. r = dpath!Result(
                  [dpath!Path(a) EXCEPT ![Len(dpath!Path(a))] = EndInstance] \o dpath!Path(b),
                  Size(a) + Size(b))
        BY <1>1, <3>2, Zenon DEF dpath!AppendDevicePathInstance, Size, EndInstance
      <4>2. Known(a)
        BY <1>2, <3>2, Zenon
      <4>3. InstancePromise(a, b,
              [dpath!Path(a) EXCEPT ![Len(dpath!Path(a))] = EndInstance] \o dpath!Path(b),
              Size(a) + Size(b))
        BY <2>1, <4>2, InstanceKept
      <4> QED BY <1>3, <4>1, <4>3, Zenon
    <3> QED BY <3>1, <3>2, Zenon
  <2> HIDE DEF r
  <2>3. Promised("append_instance", a, b, r.mem, r.bytes)
    BY <2>2 DEF Promised
  <2> QED BY <1>6, <2>3, Called DEF r
<1>7. ASSUME NEW a \in dpath!Optional, NEW b \in dpath!Optional,
             dpath!Call("append", a, b, dpath!AppendDevicePath(a, b))
      PROVE  PathsPromised'
  BY <1>2, <1>4, <1>7, Zenon
<1> QED BY <1>5, <1>6, <1>7, Zenon DEF dpath!Combine

(* The functions that copy a path, or part of it.                          *)
LEMMA CopiesKept ==
  ASSUME dpath!EfiPathsAssumption, dpath!Copy
  PROVE  PathsPromised'
<1>1. PICK a \in Paths :
        \/ dpath!Call("duplicate", a, dpath!NoPath, dpath!DuplicateDevicePath(a))
        \/ dpath!Call("unpack", a, dpath!NoPath, dpath!UnpackDevicePath(a))
        \/ dpath!Call("first_instance", a, dpath!NoPath,
                            dpath!LibDuplicateDevicePathInstance(a))
  BY Zenon DEF dpath!Copy
<1>2. Known(a)
  BY PathsKnown
<1>3. \A m, n : dpath!Result(m, n).mem = m /\ dpath!Result(m, n).bytes = n
  BY DEF dpath!Result
<1>4. ASSUME dpath!Call("duplicate", a, dpath!NoPath, dpath!DuplicateDevicePath(a))
      PROVE  PathsPromised'
  <2> DEFINE r == dpath!DuplicateDevicePath(a)
  <2>1. r = dpath!Result(dpath!Path(a), Size(a))
    BY Zenon DEF dpath!DuplicateDevicePath, Size
  <2>2. CopyPromise(a, dpath!Path(a), Size(a))
    BY <1>2, CopyKept
  <2>3. CopyPromise(a, r.mem, r.bytes)
    BY <1>3, <2>1, <2>2, Zenon
  <2> HIDE DEF r
  <2>4. Promised("duplicate", a, dpath!NoPath, r.mem, r.bytes)
    BY <2>3 DEF Promised
  <2> QED BY <1>4, <2>4, Called DEF r
<1>5. ASSUME dpath!Call("unpack", a, dpath!NoPath, dpath!UnpackDevicePath(a))
      PROVE  PathsPromised'
  <2> DEFINE r == dpath!UnpackDevicePath(a)
  <2>1. UnpackPromise(a, r.mem, r.bytes)
    BY <1>2, UnpackKept
  <2> HIDE DEF r
  <2>2. Promised("unpack", a, dpath!NoPath, r.mem, r.bytes)
    BY <2>1 DEF Promised
  <2> QED BY <1>5, <2>2, Called DEF r
<1>6. ASSUME dpath!Call("first_instance", a, dpath!NoPath,
                              dpath!LibDuplicateDevicePathInstance(a))
      PROVE  PathsPromised'
  <2> DEFINE r == dpath!LibDuplicateDevicePathInstance(a)
  <2>1. r.mem # <<>> => FirstPromise(a, r.mem, r.bytes)
    <3>1. CASE Insts(a)[1] = <<>>
      <4>1. r = dpath!Result(<<>>, 0)
        BY <3>1, Zenon DEF dpath!LibDuplicateDevicePathInstance, dpath!NoPath, Insts
      <4> QED BY <1>3, <4>1, Zenon
    <3>2. CASE Insts(a)[1] # <<>>
      <4>1. r = dpath!Result(<<Insts(a)[1][1], End>>, dpath!Bytes(Insts(a)[1]) + HEADER)
        BY <3>2, Zenon DEF dpath!LibDuplicateDevicePathInstance, Insts, End
      <4>2. FirstPromise(a, <<Insts(a)[1][1], End>>, dpath!Bytes(Insts(a)[1]) + HEADER)
        BY <1>2, <3>2, FirstKept
      <4> HIDE DEF r
      <4>3. r.mem = <<Insts(a)[1][1], End>> /\ r.bytes = dpath!Bytes(Insts(a)[1]) + HEADER
        BY <1>3, <4>1, Zenon
      <4>4. FirstPromise(a, r.mem, r.bytes)
        BY <4>2, <4>3, Zenon
      <4> QED BY <4>4
    <3> QED BY <3>1, <3>2, Zenon
  <2> HIDE DEF r
  <2>2. r.mem # <<>> => Promised("first_instance", a, dpath!NoPath, r.mem, r.bytes)
    BY <2>1 DEF Promised
  <2> QED BY <1>6, <2>2, Called DEF r
<1> QED BY <1>1, <1>4, <1>5, <1>6, Zenon

(* It is promised before the first call,                                   *)
LEMMA PathsStart == dpath!Init => PathsPromised
<1>1. dpath!Init => Promised(op, src1, src2, dst, bytes)
  BY DEF dpath!Init, Promised
<1> QED BY <1>1 DEF PathsPromised

(* and whatever is called next.                                            *)
LEMMA PathsKept ==
  ASSUME dpath!EfiPathsAssumption, PathsPromised, [dpath!Next]_dpath!vars
  PROVE  PathsPromised'
<1>1. ASSUME dpath!Match PROVE PathsPromised'
  <2>1. PICK a \in dpath!Optional, b \in dpath!Optional :
          /\ op' = "match" /\ src1' = a /\ src2' = b
          /\ dst' = IF dpath!LibMatchDevicePaths(a, b) THEN a ELSE <<>>
    BY <1>1, Zenon DEF dpath!Match, dpath!NoPath
  <2>2. a # <<>> /\ b # <<>> => Known(a) /\ Known(b)
    BY PathsKnown, Zenon DEF dpath!Optional, dpath!NoPath
  <2>3. a # <<>> /\ b # <<>> => MatchPromise(a, b, dst')
    BY <2>1, <2>2, MatchKept, Zenon
  <2>4. Promised(op', src1', src2', dst', bytes')
    BY <2>1, <2>3 DEF Promised
  <2> QED BY <2>4 DEF PathsPromised
<1>2. ASSUME UNCHANGED dpath!vars PROVE PathsPromised'
  BY <1>2 DEF dpath!vars, PathsPromised
<1> QED
  BY <1>1, <1>2, CombineKept, CopiesKept, Zenon DEF dpath!Next, dpath!Returned
=============================================================================
