---------------------------- MODULE KernelProofs ----------------------------
(***************************************************************************)
(* The running kernel, for every timer frequency, screen, keyboard and     *)
(* text: its steps are steps of Interrupts, so that what InterruptsProofs  *)
(* shows holds of it, and if setup is done before a key is used and within *)
(* the first second, the cursor ends whole and in its place.               *)
(***************************************************************************)
EXTENDS Kernel, SequenceTheorems, WellFoundedInduction, NaturalsInduction, TLAPS

-----------------------------------------------------------------------------
(* Loops: induction on the index                                           *)

(* A set of natural numbers that is not empty has a least one.             *)
LEMMA LeastOf ==
  ASSUME NEW S, S \subseteq Nat, S # {}
  PROVE  \E m \in S : \A k \in S : m <= k
<1>1. IsWellFoundedOn(OpToRel(<, Nat), Nat)
  BY NatLessThanWellFounded
<1>2. PICK m \in S : \A k \in S : ~ (<<k, m>> \in OpToRel(<, Nat))
  BY <1>1, WFMin
<1>3. \A k \in S : ~ (k < m)
  <2>1. OpToRel(<, Nat) = {ss \in Nat \X Nat : ss[1] < ss[2]}
    BY DEF OpToRel
  <2>. QED  BY <1>2, <2>1
<1>. QED  BY <1>3

(* A set that holds 0, and with each number the next, holds every number.  *)
LEMMA Induction ==
  ASSUME NEW P, 0 \in P, \A n \in Nat : n \in P => n + 1 \in P
  PROVE  Nat \subseteq P
<1>. SUFFICES ASSUME ~ Nat \subseteq P PROVE FALSE
  OBVIOUS
<1>1. PICK m \in Nat \ P : \A k \in Nat \ P : m <= k
  BY LeastOf
<1>2. m # 0 /\ m - 1 \in Nat
  BY <1>1
<1>. QED  BY <1>1, <1>2

(* The loop of terminal_writestring: written[i] is the console after i     *)
(* characters.                                                             *)
LEMMA WriteLoop ==
  ASSUME NEW t, NEW s, Len(s) \in Nat
  PROVE  \E w : /\ w = [i \in 0 .. Len(s) |-> IF i = 0 THEN t ELSE Vga!putchar(w[i - 1], s[i])]
                /\ Vga!writestring(t, s) = w[Len(s)]
<1>. DEFINE Loop(w, n) == w = [i \in 0 .. n |-> IF i = 0 THEN t ELSE Vga!putchar(w[i - 1], s[i])]
            P == {n \in Nat : \E w : Loop(w, n)}
<1>1. Loop([i \in 0 .. 0 |-> t], 0)
  OBVIOUS
<1>2. ASSUME NEW n \in Nat, NEW w, Loop(w, n)
      PROVE  \E v : Loop(v, n + 1)
  <2>. DEFINE v == [i \in 0 .. n + 1 |-> IF i = n + 1 THEN Vga!putchar(w[n], s[n + 1]) ELSE w[i]]
  <2>1. \A i \in 0 .. n + 1 : v[i] = IF i = 0 THEN t ELSE Vga!putchar(v[i - 1], s[i])
    <3>. SUFFICES ASSUME NEW i \in 0 .. n + 1
                  PROVE  v[i] = IF i = 0 THEN t ELSE Vga!putchar(v[i - 1], s[i])
      OBVIOUS
    <3>1. CASE i = n + 1
      <4>1. v[i - 1] = w[n] /\ i # 0
        BY <3>1
      <4>. QED  BY <3>1, <4>1
    <3>2. CASE i # n + 1
      <4>1. i \in 0 .. n /\ v[i] = w[i] /\ (i # 0 => v[i - 1] = w[i - 1])
        BY <3>2
      <4>. QED  BY <1>2, <4>1
    <3>. QED  BY <3>1, <3>2
  <2>2. v = [i \in 0 .. n + 1 |-> v[i]]
    OBVIOUS
  <2>. HIDE DEF v
  <2>3. Loop(v, n + 1)
    BY <2>1, <2>2
  <2>. QED  BY <2>3
<1>3. 0 \in P
  BY <1>1
<1>4. ASSUME NEW n \in P PROVE n + 1 \in P
  <2>. HIDE DEF Loop
  <2>1. n \in Nat /\ \E w : Loop(w, n)
    OBVIOUS
  <2>. QED  BY <1>2, <2>1
<1>5. \E w : Loop(w, Len(s))
  <2>1. Len(s) \in P
    <3>. HIDE DEF P
    <3>. QED  BY <1>3, <1>4, Induction
  <2>. HIDE DEF Loop
  <2>. QED  BY <2>1
<1>6. Loop(CHOOSE w : Loop(w, Len(s)), Len(s))
  BY <1>5
<1>. QED  BY <1>6 DEF Vga!writestring

-----------------------------------------------------------------------------
(* The console: its point stays an integer point                           *)

Console(r, c, b, o) == [row |-> r, column |-> c, buffer |-> b, stray |-> o]
Point(t) == \E r \in Int, c \in Int : \E b, o : t = Console(r, c, b, o)

(* The screen and size_t have a size.                                      *)
LEMMA Sizes ==
  /\ VGA_WIDTH \in Nat /\ SIZE_MOD \in Nat \ {0}
  /\ BYTE \in Nat \ {0} /\ BYTE * BYTE \in Nat \ {0}
  /\ TIMER_PHASE_HZ \in Nat \ {0} /\ INT_MAX \in Nat
<1>1. BYTE \in Nat \ {0} /\ Vga!VgaTextAssumption /\ Tim!TimerAssumption
  BY KernelAssumption DEF KernelAssumption
<1>2. VGA_WIDTH \in Nat \ {0} /\ VGA_HEIGHT \in Nat \ {0} /\ SIZE_MOD \in Nat
      /\ SIZE_MOD > 2 * (VGA_WIDTH * VGA_HEIGHT + 0)
  BY <1>1 DEF Vga!VgaTextAssumption
<1>3. VGA_WIDTH * VGA_HEIGHT \in Nat
  BY <1>2
<1>4. TIMER_PHASE_HZ \in Nat \ {0} /\ INT_MAX \in Nat
  BY <1>1 DEF Tim!TimerAssumption
<1>5. BYTE * BYTE \in Nat \ {0}
  BY <1>1
<1>. QED  BY <1>1, <1>2, <1>3, <1>4, <1>5

(* Its fields, and what an assignment to one of them makes of it:          *)
LEMMA Fields ==
  ASSUME NEW r, NEW c, NEW b, NEW o
  PROVE  /\ Console(r, c, b, o).row = r /\ Console(r, c, b, o).column = c
         /\ Console(r, c, b, o).buffer = b /\ Console(r, c, b, o).stray = o
  BY DEF Console

(* to the column,                                                          *)
LEMMA SetColumn ==
  ASSUME NEW r, NEW c, NEW b, NEW o, NEW x
  PROVE  [Console(r, c, b, o) EXCEPT !.column = x] = Console(r, x, b, o)
  BY DEF Console

(* to the writes gone astray,                                              *)
LEMMA SetStray ==
  ASSUME NEW r, NEW c, NEW b, NEW o, NEW x
  PROVE  [Console(r, c, b, o) EXCEPT !.stray = x] = Console(r, c, b, x)
  BY DEF Console

(* to a cell,                                                              *)
LEMMA SetCell ==
  ASSUME NEW r, NEW c, NEW b, NEW o, NEW i, NEW g
  PROVE  [Console(r, c, b, o) EXCEPT !.buffer[i] = g] = Console(r, c, [b EXCEPT ![i] = g], o)
  BY DEF Console

(* to the point,                                                           *)
MoveTo(t, x, y) == [t EXCEPT !.row = x, !.column = y]
LEMMA SetPoint ==
  ASSUME NEW r, NEW c, NEW b, NEW o, NEW x, NEW y
  PROVE  MoveTo(Console(r, c, b, o), x, y) = Console(x, y, b, o)
<1>. DEFINE t == Console(r, c, b, o)
<1>1. [t EXCEPT !.row = x] = Console(x, c, b, o)
  BY DEF Console
<1>2. [t EXCEPT !.row = x, !.column = y] = [[t EXCEPT !.row = x] EXCEPT !.column = y]
  BY DEF Console
<1>3. [Console(x, c, b, o) EXCEPT !.column = y] = Console(x, y, b, o)
  BY DEF Console
<1>. QED  BY <1>1, <1>2, <1>3 DEF MoveTo

(* and, by a scroll, to the buffer and the row.                            *)
Scroll(t, x, y) == [t EXCEPT !.buffer = x, !.row = y]
LEMMA SetBuffer ==
  ASSUME NEW r, NEW c, NEW b, NEW o, NEW x, NEW y
  PROVE  Scroll(Console(r, c, b, o), x, y) = Console(y, c, x, o)
<1>. DEFINE t == Console(r, c, b, o)
<1>1. [t EXCEPT !.buffer = x] = Console(r, c, x, o)
  BY DEF Console
<1>2. [Console(r, c, x, o) EXCEPT !.row = y] = Console(y, c, x, o)
  BY DEF Console
<1>3. [t EXCEPT !.buffer = x, !.row = y] = [[t EXCEPT !.buffer = x] EXCEPT !.row = y]
  BY DEF Console
<1>. QED  BY <1>1, <1>2, <1>3 DEF Scroll

(* A number reduced to size_t is a number.                                 *)
LEMMA SizeTInt == ASSUME NEW n \in Int PROVE Vga!SizeT(n) \in Int
  BY Sizes DEF Vga!SizeT

(* A character is stored or goes astray; the point stays.                  *)
LEMMA PutEntryPoint ==
  ASSUME NEW r \in Int, NEW c \in Int, NEW b, NEW o, NEW g, NEW x, NEW y
  PROVE  \E d, p : Vga!putentryat(Console(r, c, b, o), g, x, y) = Console(r, c, d, p)
<1>. DEFINE t == Console(r, c, b, o)
            i == Vga!SizeT(y * VGA_WIDTH + x)
            p == t.stray \union {IF 2 * i > SIZE_MOD THEN "below" ELSE "past"}
<1>. HIDE DEF i, p
<1>1. [t EXCEPT !.buffer[i] = g] = Console(r, c, [b EXCEPT ![i] = g], o)
  BY SetCell
<1>2. [t EXCEPT !.stray = p] = Console(r, c, b, p)
  BY SetStray
<1>3. Vga!putentryat(t, g, x, y) = IF i \in Vga!Cells THEN [t EXCEPT !.buffer[i] = g]
                                                      ELSE [t EXCEPT !.stray = p]
  BY DEF Vga!putentryat, i, p
<1>. QED  BY <1>1, <1>2, <1>3

(* A scroll or a new line moves the point.                                 *)
LEMMA NextRowPoint ==
  ASSUME NEW r \in Int, NEW c \in Int, NEW b, NEW o
  PROVE  Point(Vga!next_row(Console(r, c, b, o)))
<1>. DEFINE t == Console(r, c, b, o)
            m == [i \in Vga!Cells |-> IF i + VGA_WIDTH \in Vga!Cells THEN b[i + VGA_WIDTH] ELSE Space]
            x == r + 1
            z == x - 1
<1>1. t.row + 1 = x /\ x \in Int /\ z \in Int
  BY Fields
<1>. HIDE DEF m, x
<1>2. MoveTo(t, x, 0) = Console(x, 0, b, o)
  BY SetPoint
<1>. DEFINE u == Console(x, 0, b, o)
<1>3. u.buffer = b /\ u.row - 1 = z
  BY Fields
<1>. HIDE DEF z
<1>4. Scroll(u, m, z) = Console(z, 0, m, o)
  BY SetBuffer
<1>5. Vga!move_up(u) = Scroll(u, m, z)
  <2>. HIDE DEF u
  <2>. QED  BY <1>3 DEF Vga!move_up, m, Scroll
<1>6. Point(u) /\ Point(Console(z, 0, m, o))
  BY <1>1 DEF Point
<1>7. Vga!next_row(t) = IF Vga!AtBottom(u) THEN Vga!move_up(u) ELSE u
  <2>. HIDE DEF t
  <2>. QED  BY <1>1, <1>2 DEF Vga!next_row, MoveTo
<1>. HIDE DEF u
<1>. QED  BY <1>4, <1>5, <1>6, <1>7

(* A character moves it, whatever the character,                           *)
LEMMA PutCharPoint == ASSUME NEW t, Point(t), NEW g PROVE Point(Vga!putchar(t, g))
<1>0. PICK r \in Int, c \in Int : \E b, o : t = Console(r, c, b, o)
  BY DEF Point
<1>1. PICK b, o : t = Console(r, c, b, o)
  BY <1>0
<1>. DEFINE x == Vga!SizeT(c + 1)
<1>2. t.column = c /\ t.row = r /\ x \in Int
  BY <1>1, SizeTInt, Fields
<1>3. PICK d, p : Vga!putentryat(t, g, c, r) = Console(r, c, d, p)
  BY <1>1, PutEntryPoint
<1>4. [Console(r, c, d, p) EXCEPT !.column = x] = Console(r, x, d, p)
  BY SetColumn
<1>5. Point(Vga!next_row(t)) /\ Point(Vga!next_row(Console(r, c, d, p)))
  BY <1>1, NextRowPoint
<1>6. Point(Console(r, x, d, p))
  BY <1>2 DEF Point
<1>. HIDE DEF x
<1>. QED  BY <1>2, <1>3, <1>4, <1>5, <1>6 DEF Vga!putchar, x

(* so does an erasure,                                                     *)
LEMMA RemoveLastPoint == ASSUME NEW t, Point(t) PROVE Point(Vga!removelastchar(t))
<1>0. PICK r \in Int, c \in Int : \E b, o : t = Console(r, c, b, o)
  BY DEF Point
<1>1. PICK b, o : t = Console(r, c, b, o)
  BY <1>0
<1>. DEFINE x == Vga!SizeT(c - 1)
            q == r - 1
            y == VGA_WIDTH - 1
            u == IF x < 0 THEN MoveTo(t, q, y) ELSE [t EXCEPT !.column = x]
<1>2. x \in Int /\ q \in Int /\ y \in Int /\ t.column = c /\ t.row = r
  BY <1>1, SizeTInt, Fields, Sizes
<1>. HIDE DEF x, q, y
<1>3. u = Console(q, y, b, o) \/ u = Console(r, x, b, o)
  <2>1. MoveTo(t, q, y) = Console(q, y, b, o)
    BY <1>1, SetPoint
  <2>2. [t EXCEPT !.column = x] = Console(r, x, b, o)
    BY <1>1, SetColumn
  <2>. QED  BY <2>1, <2>2
<1>. HIDE DEF u
<1>4. Point(Vga!putentryat(u, Space, u.column, u.row))
  BY <1>2, <1>3, PutEntryPoint DEF Point
<1>5. Vga!removelastchar(t) = IF t.row > 0 \/ t.column > 0
                              THEN Vga!putentryat(u, Space, u.column, u.row) ELSE t
  BY <1>2 DEF Vga!removelastchar, u, x, q, y, MoveTo
<1>. QED  BY <1>4, <1>5

(* and a text does.                                                        *)
LEMMA WritePoint ==
  ASSUME NEW t, Point(t), NEW s, Len(s) \in Nat
  PROVE  Point(Vga!writestring(t, s))
<1>1. PICK w : /\ w = [i \in 0 .. Len(s) |-> IF i = 0 THEN t ELSE Vga!putchar(w[i - 1], s[i])]
               /\ Vga!writestring(t, s) = w[Len(s)]
  BY WriteLoop
<1>. DEFINE P == {i \in Nat : i <= Len(s) => Point(w[i])}
<1>2. w[0] = t /\ \A i \in Nat : i + 1 <= Len(s) => w[i + 1] = Vga!putchar(w[i], s[i + 1])
  <2>1. \A i \in 0 .. Len(s) : w[i] = IF i = 0 THEN t ELSE Vga!putchar(w[i - 1], s[i])
    BY <1>1
  <2>. QED  BY <2>1
<1>3. 0 \in P
  BY <1>2
<1>4. ASSUME NEW i \in P PROVE i + 1 \in P
  BY <1>2, PutCharPoint
<1>5. Len(s) \in P
  <2>. HIDE DEF P
  <2>. QED  BY <1>3, <1>4, Induction
<1>. QED  BY <1>1, <1>5

(* What a key does to the console moves the point.                         *)
LEMMA KeyPoint == ASSUME NEW t, Point(t), NEW e PROVE Point(Vga!handle_key_press(t, e))
  BY PutCharPoint, RemoveLastPoint DEF Vga!handle_key_press

-----------------------------------------------------------------------------
(* The cursor: two writes to a register set it                             *)

Crtc == [index : Registers, reg : [Registers -> Nat]]
Index(v) == [port |-> "index", value |-> v]
Data(v)  == [port |-> "data", value |-> v]

(* A write to the index port selects a register,                           *)
LEMMA IndexOut ==
  ASSUME NEW c \in Crtc, NEW r \in Registers
  PROVE  /\ Out(c, Index(r)) \in Crtc
         /\ Out(c, Index(r)).index = r /\ Out(c, Index(r)).reg = c.reg
  BY DEF Out, Index, Crtc

(* one to the data port writes it.                                         *)
LEMMA DataOut ==
  ASSUME NEW c \in Crtc, NEW v \in Nat
  PROVE  /\ Out(c, Data(v)) \in Crtc
         /\ Out(c, Data(v)).index = c.index
         /\ Out(c, Data(v)).reg = [c.reg EXCEPT ![c.index] = v]
  BY DEF Out, Data, Crtc

(* Of the registers it leaves the others.                                  *)
LEMMA DataOutIs ==
  ASSUME NEW c \in Crtc, NEW v \in Nat
  PROVE  /\ Out(c, Data(v)) \in Crtc
         /\ Out(c, Data(v)).reg[c.index] = v
         /\ \A q \in Registers : q # c.index => Out(c, Data(v)).reg[q] = c.reg[q]
<1>. DEFINE d == Out(c, Data(v))
<1>1. d \in Crtc /\ d.reg = [c.reg EXCEPT ![c.index] = v]
  BY DataOut
<1>2. c.index \in Registers /\ c.reg \in [Registers -> Nat]
  BY DEF Crtc
<1>. HIDE DEF d
<1>3. d.reg[c.index] = v /\ \A q \in Registers : q # c.index => d.reg[q] = c.reg[q]
  BY <1>1, <1>2
<1>. QED  BY <1>1, <1>3 DEF d

(* The high and the low byte of a position are a position.                 *)
LEMMA Bytes ==
  ASSUME NEW p \in Nat
  PROVE  /\ p \div BYTE \in Nat /\ p % BYTE \in Nat
         /\ (p \div BYTE) * BYTE + (p % BYTE) = p
<1>1. BYTE \in Nat /\ BYTE > 0
  BY Sizes
<1>. QED  BY <1>1

(* The writes of fb_move_cursor, in order.                                 *)
LEMMA MoveWrites ==
  ASSUME NEW p
  PROVE  fb_move_cursor(p) = <<Index(14), Data(p \div BYTE), Index(15), Data(p % BYTE)>>
<1>1. ASSUME NEW a, NEW b, NEW c, NEW d PROVE <<a, b>> \o <<c, d>> = <<a, b, c, d>>
  <2>. DEFINE S == {a, b, c, d}
              u == <<a, b>> \o <<c, d>>
              v == <<a, b, c, d>>
  <2>1. <<a, b>> \in Seq(S) /\ <<c, d>> \in Seq(S) /\ v \in Seq(S) /\ Len(v) = 4
    OBVIOUS
  <2>2. u \in Seq(S) /\ Len(u) = 4 /\ u[1] = a /\ u[2] = b /\ u[3] = c /\ u[4] = d
    <3>. HIDE DEF S
    <3>. QED  BY <2>1, ConcatProperties
  <2>. HIDE DEF S, u
  <2>3. \A i \in 1 .. 4 : u[i] = v[i]
    BY <2>2
  <2>. QED  BY <2>1, <2>2, <2>3, SeqEqual DEF u
<1>2. \A r, v : Set(r, v) = <<Index(r), Data(v)>>
  BY DEF Set, Index, Data
<1>. QED  BY <1>1, <1>2 DEF fb_move_cursor

(* fb_move_cursor moves the cursor and leaves its shape alone.             *)
LEMMA CursorMoves ==
  ASSUME NEW c \in Crtc, NEW p \in Nat
  PROVE  LET d == OutAll(c, fb_move_cursor(p))
         IN  /\ d \in Crtc /\ d.index = 15
             /\ d.reg[10] = c.reg[10] /\ d.reg[11] = c.reg[11]
             /\ d.reg[14] = p \div BYTE /\ Position(d) = p
<1>. DEFINE s == <<Index(14), Data(p \div BYTE), Index(15), Data(p % BYTE)>>
            c1 == Out(c, Index(14))
            c2 == Out(c1, Data(p \div BYTE))
            c3 == Out(c2, Index(15))
            c4 == Out(c3, Data(p % BYTE))
            Loop(w) == w = [i \in 0 .. Len(s) |-> IF i = 0 THEN c ELSE Out(w[i - 1], s[i])]
            v == [i \in 0 .. 4 |-> IF i = 0 THEN c ELSE IF i = 1 THEN c1 ELSE IF i = 2 THEN c2
                                   ELSE IF i = 3 THEN c3 ELSE c4]
<1>1. Len(s) = 4 /\ s[1] = Index(14) /\ s[2] = Data(p \div BYTE) /\ s[3] = Index(15)
      /\ s[4] = Data(p % BYTE)
  OBVIOUS
<1>2. OutAll(c, s) = (CHOOSE w : Loop(w))[4]
  <2>. HIDE DEF s
  <2>. QED  BY <1>1 DEF OutAll
<1>. HIDE DEF s
<1>3. Loop(v)
  <2>1. \A i \in 0 .. 4 : v[i] = IF i = 0 THEN c ELSE Out(v[i - 1], s[i])
    <3>. SUFFICES ASSUME NEW i \in 0 .. 4 PROVE v[i] = IF i = 0 THEN c ELSE Out(v[i - 1], s[i])
      OBVIOUS
    <3>1. i = 0 \/ i = 1 \/ i = 2 \/ i = 3 \/ i = 4
      OBVIOUS
    <3>2. v[0] = c /\ v[1] = c1 /\ v[2] = c2 /\ v[3] = c3 /\ v[4] = c4
      BY DEF v
    <3>. HIDE DEF v
    <3>3. v[1] = Out(v[0], s[1]) /\ v[2] = Out(v[1], s[2]) /\ v[3] = Out(v[2], s[3]) /\ v[4] = Out(v[3], s[4])
      BY <1>1, <3>2
    <3>. QED  BY <3>1, <3>2, <3>3
  <2>2. v = [i \in 0 .. 4 |-> v[i]]
    OBVIOUS
  <2>. HIDE DEF v
  <2>. QED  BY <1>1, <2>1, <2>2
<1>. DEFINE w == CHOOSE u : Loop(u)
<1>4. Loop(w)
  <2>. HIDE DEF v, Loop
  <2>. QED  BY <1>3
<1>5. w[0] = c /\ w[1] = Out(w[0], s[1]) /\ w[2] = Out(w[1], s[2]) /\ w[3] = Out(w[2], s[3])
      /\ w[4] = Out(w[3], s[4])
  <2>. HIDE DEF w
  <2>1. \A i \in 0 .. 4 : w[i] = IF i = 0 THEN c ELSE Out(w[i - 1], s[i])
    BY <1>1, <1>4
  <2>. QED  BY <2>1
<1>6. OutAll(c, s) = c4
  <2>. HIDE DEF w, Loop
  <2>. QED  BY <1>1, <1>2, <1>5 DEF w
<1>. HIDE DEF c1, c2, c3, c4, w, Loop, v
<1>7. 14 \in Registers /\ 15 \in Registers /\ 10 \in Registers /\ 11 \in Registers
  BY DEF Registers
<1>8. c1 \in Crtc /\ c1.index = 14 /\ c1.reg = c.reg
  BY <1>7, IndexOut DEF c1
<1>9. c2 \in Crtc /\ c2.index = 14 /\ c2.reg = [c.reg EXCEPT ![14] = p \div BYTE]
  <2>1. c2 = Out(c1, Data(p \div BYTE)) /\ p \div BYTE \in Nat
    BY Bytes DEF c2
  <2>. QED  BY <1>8, <2>1, DataOut
<1>10. c3 \in Crtc /\ c3.index = 15 /\ c3.reg = c2.reg
  <2>1. c3 = Out(c2, Index(15)) /\ 15 \in Registers /\ c2 \in Crtc
    BY <1>7, <1>9 DEF c3
  <2>. QED  BY <2>1, IndexOut
<1>11. c4 \in Crtc /\ c4.index = 15 /\ c4.reg = [c3.reg EXCEPT ![15] = p % BYTE]
  <2>1. c4 = Out(c3, Data(p % BYTE)) /\ p % BYTE \in Nat
    BY Bytes DEF c4
  <2>. QED  BY <1>10, <2>1, DataOut
<1>12. c.reg \in [Registers -> Nat]
  BY DEF Crtc
<1>13. c4.reg[10] = c.reg[10] /\ c4.reg[11] = c.reg[11] /\ c4.reg[14] = p \div BYTE
       /\ c4.reg[15] = p % BYTE
  BY <1>7, <1>9, <1>10, <1>11, <1>12
<1>14. Position(c4) = p
  <2>1. p \div BYTE \in Nat /\ p % BYTE \in Nat /\ (p \div BYTE) * BYTE + (p % BYTE) = p
    BY Bytes
  <2>2. Position(c4) = (p \div BYTE) * BYTE + (p % BYTE)
    BY <1>13 DEF Position
  <2>. QED  BY <2>1, <2>2
<1>. QED  BY <1>6, <1>11, <1>13, <1>14, MoveWrites DEF s

(* A console that prints leaves its cursor below its point.                *)
LEMMA CursorPosNat == ASSUME NEW t, Point(t) PROVE CursorPos(t) \in Nat
<1>1. t.row \in Int /\ t.column \in Int
  BY Fields DEF Point
<1>2. (t.row + 1) * VGA_WIDTH + t.column \in Int
  BY <1>1, Sizes
<1>. DEFINE n == (t.row + 1) * VGA_WIDTH + t.column
            m == BYTE * BYTE
<1>3. n \in Int /\ m \in Nat /\ m > 0
  BY <1>2, Sizes
<1>4. n % m \in Nat
  <2>. HIDE DEF n, m
  <2>. QED  BY <1>3
<1>. QED  BY <1>4 DEF CursorPos

-----------------------------------------------------------------------------
(* Each step of the kernel is a step of Interrupts, or none of it          *)

Irqs == INSTANCE InterruptsProofs WITH
  Raisable <- {0, 1}, Exceptions <- {}, MaxFrames <- 0,
  Indices <- {32, 33}, Handlers <- {"timer", "keyboard"}

(* The wiring of the kernel is one that InterruptsProofs allows for.       *)
LEMMA Wiring == Irqs!InterruptsAssumption
  BY KernelAssumption
     DEF KernelAssumption, Irq!InterruptsAssumption, Irqs!InterruptsAssumption,
         Irq!Lines, Irqs!Lines, Irq!Cascade, Irqs!Cascade

(* The two instances of Interrupts have the same actions.                  *)
LEMMA SameActions ==
  /\ Irq!Init <=> Irqs!Init
  /\ Irq!Setup <=> Irqs!Setup
  /\ \A h, i : Irq!register_handler(h, i) <=> Irqs!register_handler(h, i)
  /\ \A n : Irq!Raise(n) <=> Irqs!Raise(n)
  /\ \A n : Irq!Deliver(n) <=> Irqs!Deliver(n)
  /\ \A n : Irq!DeliverSpurious(n) <=> Irqs!DeliverSpurious(n)
  /\ Irq!Stub <=> Irqs!Stub
  /\ Irq!call_handler <=> Irqs!call_handler
  /\ Irq!EoiSlave <=> Irqs!EoiSlave
  /\ Irq!EoiMaster <=> Irqs!EoiMaster
  /\ Irq!iretq <=> Irqs!iretq
<1>1. Irq!Init <=> Irqs!Init
  BY DEF Irq!Init, Irqs!Init, Irq!Vector, Irqs!Vector, Irq!Slot, Irqs!Slot, Irq!NoGate,
     Irqs!NoGate
<1>2. Irq!Setup <=> Irqs!Setup
  BY DEF Irq!Setup, Irqs!Setup, Irq!idt_install, Irqs!idt_install, Irq!irq_install,
     Irqs!irq_install, Irq!isrs_install, Irqs!isrs_install, Irq!sti, Irqs!sti, Irq!InMain,
     Irqs!InMain, Irq!Vector, Irqs!Vector, Irq!NoGate, Irqs!NoGate, Irq!irq_remap,
     Irqs!irq_remap, Irq!Initialise, Irqs!Initialise, Irq!VectorBases, Irqs!VectorBases,
     Irq!SetGates, Irqs!SetGates, Irq!IrqVectors, Irqs!IrqVectors, Irq!GateFlags,
     Irqs!GateFlags
<1>3. \A h, i : Irq!register_handler(h, i) <=> Irqs!register_handler(h, i)
  BY DEF Irq!register_handler, Irqs!register_handler, Irq!SetHandler, Irqs!SetHandler,
     Irq!InMain, Irqs!InMain, Irq!InTable, Irqs!InTable, Irq!Slot, Irqs!Slot
<1>4. \A n : Irq!Raise(n) <=> Irqs!Raise(n)
  BY DEF Irq!Raise, Irqs!Raise, Irq!Latch, Irqs!Latch
<1>5. \A n : Irq!Deliver(n) <=> Irqs!Deliver(n)
  BY DEF Irq!Deliver, Irqs!Deliver, Irq!Wins, Irqs!Wins, Irq!Eligible, Irqs!Eligible,
     Irq!Blocked, Irqs!Blocked, Irq!MasterLines, Irqs!MasterLines, Irq!SlaveLines,
     Irqs!SlaveLines, Irq!Cascade, Irqs!Cascade, Irq!Rank, Irqs!Rank, Irq!Acknowledge,
     Irqs!Acknowledge, Irq!Service, Irqs!Service, Irq!VectorOf, Irqs!VectorOf, Irq!Enter,
     Irqs!Enter, Irq!Present, Irqs!Present, Irq!StubVector, Irqs!StubVector,
     Irq!MasksInterrupts, Irqs!MasksInterrupts
<1>6. \A n : Irq!DeliverSpurious(n) <=> Irqs!DeliverSpurious(n)
  BY DEF Irq!DeliverSpurious, Irqs!DeliverSpurious, Irq!Eligible, Irqs!Eligible, Irq!Blocked,
     Irqs!Blocked, Irq!MasterLines, Irqs!MasterLines, Irq!SlaveLines, Irqs!SlaveLines,
     Irq!Cascade, Irqs!Cascade, Irq!AcknowledgeSpurious, Irqs!AcknowledgeSpurious, Irq!Service,
     Irqs!Service, Irq!VectorOf, Irqs!VectorOf, Irq!Enter, Irqs!Enter, Irq!Present,
     Irqs!Present, Irq!StubVector, Irqs!StubVector, Irq!MasksInterrupts, Irqs!MasksInterrupts
<1>7. Irq!Stub <=> Irqs!Stub
  BY DEF Irq!Stub, Irqs!Stub, Irq!At, Irqs!At, Irq!Goto, Irqs!Goto
<1>8. Irq!call_handler <=> Irqs!call_handler
  BY DEF Irq!call_handler, Irqs!call_handler, Irq!At, Irqs!At, Irq!HandlerOf, Irqs!HandlerOf,
     Irq!InTable, Irqs!InTable, Irq!NeedsSlaveEoi, Irqs!NeedsSlaveEoi
<1>9. Irq!EoiSlave <=> Irqs!EoiSlave
  BY DEF Irq!EoiSlave, Irqs!EoiSlave, Irq!At, Irqs!At, Irq!Goto, Irqs!Goto, Irq!SendEoi,
     Irqs!SendEoi, Irq!SlaveCommand, Irqs!SlaveCommand, Irq!Retire, Irqs!Retire,
     Irq!SlaveLines, Irqs!SlaveLines, Irq!MasterLines, Irqs!MasterLines
<1>10. Irq!EoiMaster <=> Irqs!EoiMaster
  BY DEF Irq!EoiMaster, Irqs!EoiMaster, Irq!At, Irqs!At, Irq!Goto, Irqs!Goto, Irq!SendEoi,
     Irqs!SendEoi, Irq!MasterCommand, Irqs!MasterCommand, Irq!Retire, Irqs!Retire,
     Irq!SlaveLines, Irqs!SlaveLines, Irq!MasterLines, Irqs!MasterLines
<1>11. Irq!iretq <=> Irqs!iretq
  BY DEF Irq!iretq, Irqs!iretq, Irq!At, Irqs!At
<1>. QED  BY <1>1, <1>2, <1>3, <1>4, <1>5, <1>6, <1>7, <1>8, <1>9, <1>10, <1>11

(* A step of kernel_main sets something up, registers a handler, or leaves *)
(* the interrupts alone.                                                   *)
LEMMA MainDispatch == ASSUME Main PROVE Irqs!Next \/ UNCHANGED irqVars
<1>1. CASE setup_timer \/ RegisterKeyboard
  <2>1. PICK h \in {"timer", "keyboard"}, i \in {32, 33} : Irq!register_handler(h, i)
    BY <1>1 DEF setup_timer, RegisterKeyboard, KEYBOARD_IRQ
  <2>2. Irqs!Client
    BY <2>1, SameActions DEF Irqs!Client
  <2>. QED  BY <2>2 DEF Irqs!Next
<1>2. CASE InterruptDescriptorTable_Initialize
  BY <1>2, SameActions DEF InterruptDescriptorTable_Initialize, Irqs!Next
<1>3. CASE Initialize \/ ClearKeydown \/ ClearHandler \/ AssignHandler \/ vga_setup
  BY <1>3 DEF Initialize, ClearKeydown, ClearHandler, AssignHandler, vga_setup
<1>. QED  BY <1>1, <1>2, <1>3 DEF Main

(* The handlers run where Interrupts has them run, and the devices raise   *)
(* the lines they are wired to.                                            *)
LEMMA StepDispatch == [Next]_vars => [Irqs!Next]_(Irqs!vars)
<1>. SUFFICES ASSUME [Next]_vars PROVE Irqs!Next \/ UNCHANGED irqVars
  BY DEF irqVars, Irqs!vars
<1>1. CASE Main
  BY <1>1, MainDispatch
<1>2. CASE Handle
  <2>1. Irqs!call_handler
    BY <1>2, SameActions DEF Handle, Calls, timer_interrupt_handler, keyboard_interrupt_handler, NoHandler
  <2>. QED  BY <2>1 DEF Irqs!Next, Irqs!Running
<1>3. CASE Dispatch
  <2>1. Irqs!Stub \/ Irqs!EoiSlave \/ Irqs!EoiMaster \/ Irqs!iretq
    BY <1>3, SameActions DEF Dispatch
  <2>. QED  BY <2>1 DEF Irqs!Next, Irqs!Running
<1>4. ASSUME NEW n \in {0, 1}, Deliver(n) PROVE Irqs!Next
  <2>1. Irqs!Deliver(n)
    BY <1>4, SameActions DEF Deliver
  <2>. QED  BY <2>1 DEF Irqs!Next, Irqs!Accept
<1>5. ASSUME NEW n \in Spurious, DeliverSpurious(n) PROVE Irqs!Next
  <2>1. Irqs!DeliverSpurious(n)
    BY <1>5, SameActions DEF DeliverSpurious
  <2>. QED  BY <2>1 DEF Irqs!Next, Irqs!Devices
<1>6. CASE Tick
  <2>1. Irqs!Raise(0)
    BY <1>6, SameActions DEF Tick
  <2>. QED  BY <2>1 DEF Irqs!Next, Irqs!Devices
<1>7. CASE Type
  BY <1>7 DEF Type
<1>8. CASE Fill
  <2>1. Irqs!Raise(1)
    BY <1>8, SameActions DEF Fill
  <2>. QED  BY <2>1 DEF Irqs!Next, Irqs!Devices
<1>9. CASE UNCHANGED vars
  BY <1>9 DEF vars
<1>. QED  BY <1>1, <1>2, <1>3, <1>4, <1>5, <1>6, <1>7, <1>8, <1>9 DEF Next

(* The invariant of Interrupts holds of the kernel.                        *)
LEMMA DispatchInv == Spec => []Irqs!IInv
<1>1. Init => Irqs!IInv
  BY Wiring, SameActions, Irqs!Initially DEF Init
<1>2. Irqs!IInv /\ [Next]_vars => Irqs!IInv'
  BY Wiring, StepDispatch, Irqs!Inductive
<1>. QED  BY <1>1, <1>2, PTL DEF Spec

(* The kernel dispatches interrupts as Interrupts describes: whatever the  *)
(* timer, the keyboard and kernel_main do, each of its steps is a step of  *)
(* Interrupts with these lines and handlers, or leaves the controllers,    *)
(* tables and frames as they are.                                          *)
THEOREM KernelDispatches == Spec => Irqs!Spec
<1>1. Init => Irqs!Init
  BY SameActions DEF Init
<1>. QED  BY <1>1, StepDispatch, PTL DEF Spec, Irqs!Spec

(* So interrupts are off in its handlers, which never nest, each line runs *)
(* the handler registered for it, and is retired by its own handler.       *)
THEOREM KernelHandlers ==
  Spec => [](/\ Irqs!IdleWhenEnabled /\ Irqs!OneAtATime
             /\ Irqs!InServiceMatchesFrame /\ Irqs!RightHandler)
  BY KernelDispatches, Wiring, Irqs!IdleOnceEnabled, Irqs!NeverNested,
     Irqs!ServiceMatchesFrame, Irqs!RightHandlerRuns, PTL

-----------------------------------------------------------------------------
(* The cursor: the inductive invariant                                     *)

Write == [port : {"index", "data"}, value : Nat]

(* The controller with n writes of vga_setup left, h of the cursor torn    *)
(* and p the high byte of the position below the point: an odd n selects a *)
(* register, unless a handler that printed has selected the last one since *)
Stands(c, n, h, p) ==
  /\ n = 7 => c.index = IF "start" \in h THEN 15 ELSE 10
  /\ n = 5 => c.index = IF "end" \in h THEN 15 ELSE 11
  /\ n = 3 => c.index = IF "place" \in h THEN 15 ELSE 14
  /\ n = 1 => c.index = 15
  /\ c.reg[10] = IF n >= 7 \/ "start" \in h THEN BiosCursor ELSE 0
  /\ c.reg[11] = IF n >= 5 \/ "end" \in h THEN BiosCursor ELSE 1
  /\ n \in 1 .. 3 /\ "place" \in h => c.reg[14] = p
  /\ n \in 1 .. 2 /\ "place" \notin h => c.reg[14] = CursorHome \div BYTE
  /\ "start" \in h => n <= 7
  /\ "end" \in h => n <= 5
  /\ "place" \in h => n <= 3

(* Where vga_setup is with n of its eight writes left.                     *)
Left(n) == /\ writes \in Seq(Write) /\ Len(writes) = n
           /\ \A i \in 1 .. n : writes[i] = SetupWrites[(8 - n) + i]
Written(n) == Left(n) /\ Stands(crtc, n, torn, CursorPos(term) \div BYTE)

SettingUp ==
  /\ pc \notin {"vga_setup", "hlt"} => Written(8)
  /\ pc = "vga_setup" => \E n \in 1 .. 8 : Written(n)

Typed == Point(term) /\ crtc \in Crtc

CursorInv == Typed /\ SettingUp /\ CursorConfigured

-----------------------------------------------------------------------------
(* The cursor: the invariant is inductive                                  *)

(* The position vga_setup moves the cursor to has two bytes.               *)
LEMMA Home == CursorHome \in Nat /\ CursorHome \div BYTE \in Nat /\ CursorHome % BYTE \in Nat
<1>1. CursorHome \in Nat
  <2>1. BYTE * BYTE - 1 \in Int
    BY Sizes
  <2>2. CursorHome \in 0 .. BYTE * BYTE - 1
    BY KernelAssumption DEF KernelAssumption
  <2>. QED  BY <2>1, <2>2
<1>. QED  BY <1>1, Bytes

(* A concatenation, element by element.                                    *)
LEMMA Joined ==
  \A S : \A s, t \in Seq(S) :
     /\ s \o t \in Seq(S) /\ Len(s \o t) = Len(s) + Len(t)
     /\ \A i \in 1 .. Len(s) : (s \o t)[i] = s[i]
     /\ \A i \in 1 .. Len(t) : (s \o t)[Len(s) + i] = t[i]
<1>. TAKE S
<1>. TAKE s, t \in Seq(S)
<1>1. /\ s \o t \in Seq(S) /\ Len(s \o t) = Len(s) + Len(t)
      /\ \A i \in 1 .. Len(s) + Len(t) : (s \o t)[i] = IF i <= Len(s) THEN s[i] ELSE t[i - Len(s)]
  BY ConcatProperties
<1>2. Len(s) \in Nat /\ Len(t) \in Nat
  OBVIOUS
<1>3. ASSUME NEW i \in 1 .. Len(s) PROVE (s \o t)[i] = s[i]
  BY <1>1, <1>2
<1>4. ASSUME NEW i \in 1 .. Len(t) PROVE (s \o t)[Len(s) + i] = t[i]
  <2>1. Len(s) + i \in 1 .. Len(s) + Len(t) /\ ~ (Len(s) + i <= Len(s)) /\ (Len(s) + i) - Len(s) = i
    BY <1>2
  <2>. QED  BY <1>1, <2>1
<1>. QED  BY <1>1, <1>3, <1>4

(* The eight writes of vga_setup.                                          *)
LEMMA EightWrites ==
  /\ SetupWrites \in Seq(Write) /\ Len(SetupWrites) = 8
  /\ SetupWrites[1] = Index(10) /\ SetupWrites[2] = Data(0)
  /\ SetupWrites[3] = Index(11) /\ SetupWrites[4] = Data(1)
  /\ SetupWrites[5] = Index(14) /\ SetupWrites[6] = Data(CursorHome \div BYTE)
  /\ SetupWrites[7] = Index(15) /\ SetupWrites[8] = Data(CursorHome % BYTE)
<1>. DEFINE s == fb_move_cursor(CursorHome)
            e == Set(10, 0)
            f == Set(11, 1)
<1>1. CursorHome \in Nat /\ CursorHome \div BYTE \in Nat /\ CursorHome % BYTE \in Nat
  BY Home
<1>2. \A r, v \in Nat : Index(r) \in Write /\ Data(v) \in Write
  BY DEF Write, Index, Data
<1>3. /\ e \in Seq(Write) /\ Len(e) = 2 /\ e[1] = Index(10) /\ e[2] = Data(0)
      /\ f \in Seq(Write) /\ Len(f) = 2 /\ f[1] = Index(11) /\ f[2] = Data(1)
  <2>1. e = <<Index(10), Data(0)>> /\ f = <<Index(11), Data(1)>>
    BY DEF Set, Index, Data
  <2>. HIDE DEF e, f
  <2>. QED  BY <1>2, <2>1
<1>4. /\ s \in Seq(Write) /\ Len(s) = 4
      /\ s[1] = Index(14) /\ s[2] = Data(CursorHome \div BYTE)
      /\ s[3] = Index(15) /\ s[4] = Data(CursorHome % BYTE)
  <2>1. s = <<Index(14), Data(CursorHome \div BYTE), Index(15), Data(CursorHome % BYTE)>>
    BY MoveWrites
  <2>. HIDE DEF s
  <2>. QED  BY <1>1, <1>2, <2>1
<1>. HIDE DEF e, f, s
<1>. DEFINE h == e \o f
            w == h \o s
<1>5. /\ h \in Seq(Write) /\ Len(h) = 4
      /\ h[1] = e[1] /\ h[2] = e[2] /\ h[3] = f[1] /\ h[4] = f[2]
  <2>1. /\ h \in Seq(Write) /\ Len(h) = Len(e) + Len(f)
        /\ \A i \in 1 .. Len(e) : h[i] = e[i]
        /\ \A i \in 1 .. Len(f) : h[Len(e) + i] = f[i]
    <3>1. e \in Seq(Write) /\ f \in Seq(Write)
      BY <1>3
    <3>. QED  BY <3>1, Joined
  <2>. HIDE DEF h
  <2>. QED  BY <1>3, <2>1
<1>. HIDE DEF h
<1>6. /\ w \in Seq(Write) /\ Len(w) = 8
      /\ w[1] = h[1] /\ w[2] = h[2] /\ w[3] = h[3] /\ w[4] = h[4]
      /\ w[5] = s[1] /\ w[6] = s[2] /\ w[7] = s[3] /\ w[8] = s[4]
  <2>1. /\ w \in Seq(Write) /\ Len(w) = Len(h) + Len(s)
        /\ \A i \in 1 .. Len(h) : w[i] = h[i]
        /\ \A i \in 1 .. Len(s) : w[Len(h) + i] = s[i]
    <3>1. h \in Seq(Write) /\ s \in Seq(Write)
      BY <1>4, <1>5
    <3>. QED  BY <3>1, Joined
  <2>. HIDE DEF w
  <2>. QED  BY <1>4, <1>5, <2>1
<1>7. SetupWrites = w
  BY DEF SetupWrites, enable_cursor, e, f, h, s
<1>. HIDE DEF w
<1>. QED  BY <1>3, <1>4, <1>5, <1>6, <1>7

(* Each write of vga_setup does what it is for, or goes to register 15 if  *)
(* a handler has torn it from the selection of its own;                    *)
LEMMA EachWrite ==
  ASSUME NEW c \in Crtc, NEW n \in 2 .. 8, NEW h, NEW p, Stands(c, n, h, p)
  PROVE  /\ Out(c, SetupWrites[(8 - n) + 1]) \in Crtc
         /\ Stands(Out(c, SetupWrites[(8 - n) + 1]), n - 1, h, p)
<1>. DEFINE d == Out(c, SetupWrites[(8 - n) + 1])
<1>. SUFFICES d \in Crtc /\ Stands(d, n - 1, h, p)
  OBVIOUS
<1>. HIDE DEF d
<1>1. 10 \in Registers /\ 11 \in Registers /\ 14 \in Registers /\ 15 \in Registers
  BY DEF Registers
<1>2. CursorHome \div BYTE \in Nat
  BY Home
<1>3. ASSUME NEW r \in Registers, d = Out(c, Index(r))
      PROVE  d \in Crtc /\ d.index = r /\ d.reg = c.reg
  BY <1>3, IndexOut
<1>4. ASSUME NEW v \in Nat, d = Out(c, Data(v))
      PROVE  /\ d \in Crtc /\ d.reg[c.index] = v
             /\ \A q \in {10, 11, 14} : q # c.index => d.reg[q] = c.reg[q]
  <2>1. d \in Crtc /\ d.reg[c.index] = v
        /\ \A q \in Registers : q # c.index => d.reg[q] = c.reg[q]
    BY <1>4, DataOutIs
  <2>. QED  BY <1>1, <2>1
<1>5. CASE n = 8
  <2>1. d = Out(c, Index(10))
    BY <1>5, EightWrites DEF d
  <2>2. d \in Crtc /\ d.index = 10 /\ d.reg = c.reg
    BY <1>1, <1>3, <2>1
  <2>. QED  BY <1>5, <2>2 DEF Stands
<1>6. CASE n = 7
  <2>1. d = Out(c, Data(0))
    BY <1>6, EightWrites DEF d
  <2>2. d \in Crtc /\ d.reg[c.index] = 0 /\ \A q \in {10, 11, 14} : q # c.index => d.reg[q] = c.reg[q]
    BY <1>4, <2>1
  <2>. QED  BY <1>6, <2>2 DEF Stands
<1>7. CASE n = 6
  <2>1. d = Out(c, Index(11))
    BY <1>7, EightWrites DEF d
  <2>2. d \in Crtc /\ d.index = 11 /\ d.reg = c.reg
    BY <1>1, <1>3, <2>1
  <2>. QED  BY <1>7, <2>2 DEF Stands
<1>8. CASE n = 5
  <2>1. d = Out(c, Data(1))
    BY <1>8, EightWrites DEF d
  <2>2. d \in Crtc /\ d.reg[c.index] = 1 /\ \A q \in {10, 11, 14} : q # c.index => d.reg[q] = c.reg[q]
    BY <1>4, <2>1
  <2>. QED  BY <1>8, <2>2 DEF Stands
<1>9. CASE n = 4
  <2>1. d = Out(c, Index(14))
    BY <1>9, EightWrites DEF d
  <2>2. d \in Crtc /\ d.index = 14 /\ d.reg = c.reg
    BY <1>1, <1>3, <2>1
  <2>. QED  BY <1>9, <2>2 DEF Stands
<1>10. CASE n = 3
  <2>1. d = Out(c, Data(CursorHome \div BYTE))
    BY <1>10, EightWrites DEF d
  <2>2. /\ d \in Crtc /\ d.reg[c.index] = CursorHome \div BYTE
        /\ \A q \in {10, 11, 14} : q # c.index => d.reg[q] = c.reg[q]
    BY <1>2, <1>4, <2>1
  <2>. QED  BY <1>10, <2>2 DEF Stands
<1>11. CASE n = 2
  <2>1. d = Out(c, Index(15))
    BY <1>11, EightWrites DEF d
  <2>2. d \in Crtc /\ d.index = 15 /\ d.reg = c.reg
    BY <1>1, <1>3, <2>1
  <2>. QED  BY <1>11, <2>2 DEF Stands
<1>. QED  BY <1>5, <1>6, <1>7, <1>8, <1>9, <1>10, <1>11

(* it takes the next write from the list;                                  *)
LEMMA WriteNext ==
  ASSUME crtc \in Crtc, NEW n \in 2 .. 8, Written(n),
         crtc' = Out(crtc, Head(writes)), writes' = Tail(writes), UNCHANGED <<term, torn>>
  PROVE  crtc' \in Crtc /\ Len(writes) # 1 /\ Written(n - 1)'
<1>. DEFINE p == CursorPos(term) \div BYTE
<1>1. /\ Head(writes) = SetupWrites[(8 - n) + 1] /\ Len(writes) # 1
      /\ writes' \in Seq(Write) /\ Len(writes') = n - 1
      /\ \A i \in 1 .. n - 1 : writes'[i] = SetupWrites[(8 - (n - 1)) + i]
  <2>1. writes \in Seq(Write) /\ Len(writes) = n /\ writes # <<>>
        /\ \A i \in 1 .. n : writes[i] = SetupWrites[(8 - n) + i]
    BY DEF Written, Left
  <2>2. Tail(writes) \in Seq(Write) /\ Len(Tail(writes)) = Len(writes) - 1
        /\ \A i \in 1 .. Len(Tail(writes)) : Tail(writes)[i] = writes[i + 1]
    BY <2>1, HeadTailProperties
  <2>3. Head(writes) = writes[1]
    BY <2>1
  <2>4. \A i \in 1 .. n - 1 : i + 1 \in 1 .. n /\ (8 - n) + (i + 1) = (8 - (n - 1)) + i
    OBVIOUS
  <2>. QED  BY <2>1, <2>2, <2>3, <2>4
<1>2. crtc' = Out(crtc, SetupWrites[(8 - n) + 1])
  BY <1>1
<1>3. crtc' \in Crtc /\ Stands(crtc', n - 1, torn, p)
  <2>1. Stands(crtc, n, torn, p)
    BY DEF Written
  <2>. HIDE DEF p
  <2>. QED  BY <1>2, <2>1, EachWrite
<1>4. p' = p /\ torn' = torn
  BY DEF CursorPos
<1>. HIDE DEF p
<1>5. Stands(crtc, n - 1, torn, p)'
  BY <1>3, <1>4 DEF Stands
<1>6. Left(n - 1)'
  BY <1>1 DEF Left
<1>. QED  BY <1>1, <1>3, <1>5, <1>6 DEF Written, p

(* and after the last the cursor is as CursorConfigured says.              *)
LEMMA WriteLast ==
  ASSUME crtc \in Crtc, Written(1), crtc' = Out(crtc, Head(writes)), UNCHANGED <<term, torn>>
  PROVE  Len(writes) = 1 /\ crtc' \in Crtc /\ CursorConfigured'
<1>. DEFINE p == CursorPos(term) \div BYTE
<1>1. Len(writes) = 1 /\ Head(writes) = SetupWrites[8]
  <2>1. writes \in Seq(Write) /\ Len(writes) = 1 /\ writes[1] = SetupWrites[8]
    BY DEF Written, Left
  <2>. QED  BY <2>1
<1>2. crtc' = Out(crtc, Data(CursorHome % BYTE))
  BY <1>1, EightWrites
<1>3. Stands(crtc, 1, torn, p)
  BY DEF Written
<1>4. p' = p /\ torn' = torn
  BY DEF CursorPos
<1>. HIDE DEF p
<1>5. /\ crtc.index = 15
      /\ crtc.reg[10] = IF "start" \in torn THEN BiosCursor ELSE 0
      /\ crtc.reg[11] = IF "end" \in torn THEN BiosCursor ELSE 1
      /\ crtc.reg[14] = IF "place" \in torn THEN p ELSE CursorHome \div BYTE
  BY <1>3 DEF Stands
<1>6. crtc' \in Crtc /\ crtc'.reg = [crtc.reg EXCEPT ![15] = CursorHome % BYTE]
  BY <1>2, <1>5, Home, DataOut
<1>7. 10 \in Registers /\ 11 \in Registers /\ 14 \in Registers /\ 15 \in Registers
      /\ crtc.reg \in [Registers -> Nat]
  BY DEF Registers, Crtc
<1>8. crtc'.reg[10] = crtc.reg[10] /\ crtc'.reg[11] = crtc.reg[11]
      /\ crtc'.reg[14] = crtc.reg[14] /\ crtc'.reg[15] = CursorHome % BYTE
  BY <1>6, <1>7
<1>9. ASSUME "place" \notin torn PROVE Position(crtc') = CursorHome
  <2>1. Position(crtc') = (CursorHome \div BYTE) * BYTE + (CursorHome % BYTE)
    BY <1>5, <1>8, <1>9 DEF Position
  <2>2. (CursorHome \div BYTE) * BYTE + (CursorHome % BYTE) = CursorHome
    BY Home, Bytes
  <2>. QED  BY <2>1, <2>2
<1>10. Position(crtc)' = Position(crtc')
  BY DEF Position
<1>11. CursorConfigured'
  BY <1>4, <1>5, <1>8, <1>9, <1>10 DEF CursorConfigured, p
<1>. QED  BY <1>1, <1>6, <1>11

(* Printing shows the cursor below the point of the console it leaves.     *)
LEMMA ShowCursor ==
  ASSUME Typed, NEW t, Point(t), Show(t)
  PROVE  /\ Typed' /\ crtc'.index = 15
         /\ crtc'.reg[10] = crtc.reg[10] /\ crtc'.reg[11] = crtc.reg[11]
         /\ crtc'.reg[14] = CursorPos(term') \div BYTE
         /\ Position(crtc') = CursorPos(term')
<1>1. term' = t /\ crtc' = OutAll(crtc, fb_move_cursor(CursorPos(t)))
  BY DEF Show
<1>2. crtc \in Crtc /\ CursorPos(t) \in Nat
  BY CursorPosNat DEF Typed
<1>3. /\ crtc' \in Crtc /\ crtc'.index = 15
      /\ crtc'.reg[10] = crtc.reg[10] /\ crtc'.reg[11] = crtc.reg[11]
      /\ crtc'.reg[14] = CursorPos(t) \div BYTE /\ Position(crtc') = CursorPos(t)
  BY <1>1, <1>2, CursorMoves
<1>4. Typed'
  BY <1>1, <1>3 DEF Typed
<1>. QED  BY <1>1, <1>3, <1>4

(* Between two writes of vga_setup it tears what they set together, and    *)
(* selects register 15.                                                    *)
LEMMA ShowTears ==
  ASSUME Typed, NEW n \in 1 .. 8, Written(n), ~ SetUp, NEW t, Point(t), Show(t),
         writes' = writes
  PROVE  Typed' /\ Written(n)'
<1>. DEFINE p == CursorPos(term) \div BYTE
<1>1. /\ Typed' /\ crtc'.index = 15
      /\ crtc'.reg[10] = crtc.reg[10] /\ crtc'.reg[11] = crtc.reg[11]
      /\ crtc'.reg[14] = CursorPos(term') \div BYTE
  BY ShowCursor
<1>2. Left(n) /\ Left(n)' /\ Stands(crtc, n, torn, p)
  BY DEF Written, Left
<1>3. p' = crtc'.reg[14]
  BY <1>1 DEF CursorPos
<1>. HIDE DEF p
<1>4. torn' = torn \union HalfSet(n)
  BY <1>2 DEF Show, Left
<1>5. /\ "start" \in torn' <=> "start" \in torn \/ n = 7
      /\ "end" \in torn' <=> "end" \in torn \/ n = 5
      /\ "place" \in torn' <=> "place" \in torn \/ n \in 1 .. 3
  BY <1>4 DEF HalfSet
<1>6. Stands(crtc', n, torn', p')
  BY <1>1, <1>2, <1>3, <1>5 DEF Stands
<1>7. Stands(crtc, n, torn, p)'
  BY <1>6 DEF Stands
<1>. QED  BY <1>1, <1>2, <1>7 DEF Written, p

(* The texts printed have a length.                                        *)
LEMMA Texts == \A s \in {Welcome, TimerLine, TimeLine} : Len(s) \in Nat
<1>1. {Welcome, TimerLine, TimeLine} \subseteq Seq(Glyphs \union {Newline})
  BY KernelAssumption DEF KernelAssumption
<1>. QED  BY <1>1

(* An empty screen has its point at the top.                               *)
LEMMA EmptyPoint == Point(Vga!terminal_initialize)
<1>. DEFINE b == [i \in Vga!Cells |-> Space]
<1>1. Vga!terminal_initialize = Console(0, 0, b, {})
  BY DEF Vga!terminal_initialize, Console
<1>. HIDE DEF b
<1>. QED  BY <1>1 DEF Point

(* The boot code hands over the cursor as the BIOS left it.                *)
LEMMA CursorInit == Init => CursorInv
<1>. SUFFICES ASSUME Init PROVE CursorInv
  OBVIOUS
<1>1. Typed
  <2>1. term = Vga!terminal_initialize
    BY DEF Init, Vga!ConsoleInit
  <2>2. Point(term)
    BY <2>1, EmptyPoint
  <2>3. BiosCursor \in Nat
    BY Sizes, KernelAssumption DEF KernelAssumption
  <2>4. crtc \in Crtc
    BY <2>3 DEF Init, Crtc, Registers
  <2>. QED  BY <2>2, <2>4 DEF Typed
<1>2. pc = "terminal_initialize" /\ writes = SetupWrites /\ torn = {}
      /\ crtc.reg[10] = BiosCursor /\ crtc.reg[11] = BiosCursor
  BY DEF Init, Registers
<1>3. Left(8)
  BY <1>2, EightWrites DEF Left
<1>4. Written(8)
  BY <1>2, <1>3 DEF Written, Stands
<1>5. SettingUp /\ CursorConfigured
  BY <1>2, <1>4 DEF SettingUp, CursorConfigured, SetUp
<1>. QED  BY <1>1, <1>5 DEF CursorInv

(* A step of main before vga_setup: it prints or it does not.              *)
LEMMA BeforeSetup ==
  ASSUME CursorInv, UNCHANGED conVars \/ (\E t : Point(t) /\ Show(t)),
         pc \notin {"vga_setup", "hlt"}, pc' # "hlt", writes' = writes
  PROVE  CursorInv'
<1>1. Typed /\ Written(8) /\ ~ SetUp
  BY DEF CursorInv, SettingUp, SetUp
<1>2. Typed' /\ Written(8)'
  <2>1. CASE UNCHANGED conVars
    BY <1>1, <2>1 DEF conVars, Typed, Written, Left, Stands, CursorPos
  <2>2. CASE \E t : Point(t) /\ Show(t)
    BY <1>1, <2>2, ShowTears
  <2>. QED  BY <2>1, <2>2
<1>3. SettingUp' /\ CursorConfigured'
  BY <1>2 DEF SettingUp, CursorConfigured, SetUp
<1>. QED  BY <1>2, <1>3 DEF CursorInv

(* main up to vga_setup: it prints, registers handlers and builds the IDT. *)
LEMMA MainCursor == ASSUME CursorInv, Main, ~ vga_setup PROVE CursorInv'
<1>1. Typed
  BY DEF CursorInv
<1>2. pc \notin {"vga_setup", "hlt"} /\ pc' # "hlt" /\ writes' = writes
  BY DEF Main, Initialize, setup_timer, InterruptDescriptorTable_Initialize, RegisterKeyboard,
     ClearKeydown, ClearHandler, AssignHandler, Step
<1>3. UNCHANGED conVars \/ (\E t : Point(t) /\ Show(t))
  <2>1. CASE Initialize
    <3>1. Show(Vga!writestring(Vga!terminal_initialize, Welcome))
      BY <2>1 DEF Initialize
    <3>2. Point(Vga!writestring(Vga!terminal_initialize, Welcome))
      BY Texts, EmptyPoint, WritePoint
    <3>. QED  BY <3>1, <3>2
  <2>2. CASE setup_timer
    <3>1. Show(Vga!writestring(term, TimerLine))
      BY <2>2 DEF setup_timer
    <3>2. Point(Vga!writestring(term, TimerLine))
      BY <1>1, Texts, WritePoint DEF Typed
    <3>. QED  BY <3>1, <3>2
  <2>3. CASE \/ InterruptDescriptorTable_Initialize \/ RegisterKeyboard
             \/ ClearKeydown \/ ClearHandler \/ AssignHandler
    BY <2>3 DEF InterruptDescriptorTable_Initialize, RegisterKeyboard, ClearKeydown, ClearHandler,
       AssignHandler
  <2>. QED  BY <2>1, <2>2, <2>3 DEF Main
<1>. QED  BY <1>2, <1>3, BeforeSetup

(* vga_setup, write by write.                                              *)
LEMMA SetupCursor == ASSUME CursorInv, vga_setup PROVE CursorInv'
<1>1. /\ pc = "vga_setup" /\ pc' = IF Len(writes) = 1 THEN "hlt" ELSE "vga_setup"
      /\ crtc' = Out(crtc, Head(writes)) /\ writes' = Tail(writes)
      /\ UNCHANGED <<term, torn>>
  BY DEF vga_setup, Step
<1>2. Point(term) /\ crtc \in Crtc
  BY DEF CursorInv, Typed
<1>3. PICK n \in 1 .. 8 : Written(n)
  BY <1>1 DEF CursorInv, SettingUp
<1>4. CASE n # 1
  <2>1. n \in 2 .. 8
    BY <1>4
  <2>2. crtc' \in Crtc /\ Len(writes) # 1 /\ Written(n - 1)'
    BY <1>1, <1>2, <1>3, <2>1, WriteNext
  <2>3. n - 1 \in 1 .. 8 /\ pc' = "vga_setup"
    BY <1>1, <2>1, <2>2
  <2>4. Typed' /\ SettingUp' /\ CursorConfigured'
    BY <1>1, <1>2, <2>2, <2>3 DEF Typed, SettingUp, CursorConfigured, SetUp
  <2>. QED  BY <2>4 DEF CursorInv
<1>5. CASE n = 1
  <2>1. Len(writes) = 1 /\ crtc' \in Crtc /\ CursorConfigured'
    BY <1>1, <1>2, <1>3, <1>5, WriteLast
  <2>2. Typed' /\ SettingUp'
    BY <1>1, <1>2, <2>1 DEF Typed, SettingUp
  <2>. QED  BY <2>1, <2>2 DEF CursorInv
<1>. QED  BY <1>4, <1>5

-----------------------------------------------------------------------------
(* The handlers and the devices                                            *)

(* Who does not print leaves the cursor as it is.                          *)
LEMMA Silent == ASSUME CursorInv, UNCHANGED <<conVars, mainVars>> PROVE CursorInv'
<1>1. UNCHANGED <<term, crtc, torn, pc, writes>>
  BY DEF conVars, mainVars
<1>2. \A n \in 1 .. 8 : Written(n) => Written(n)'
  BY <1>1 DEF Written, Left, Stands, CursorPos
<1>3. Typed' /\ SettingUp'
  BY <1>1, <1>2 DEF CursorInv, Typed, SettingUp
<1>4. CursorConfigured'
  BY <1>1 DEF CursorInv, CursorConfigured, SetUp, Position, CursorPos
<1>. QED  BY <1>3, <1>4 DEF CursorInv

(* A handler that prints tears the writes of vga_setup it comes between,   *)
(* and moves the whole cursor once there are none.                         *)
LEMMA Prints ==
  ASSUME CursorInv, NEW t, Point(t), Show(t), UNCHANGED mainVars
  PROVE  CursorInv'
<1>1. Typed /\ pc' = pc /\ writes' = writes
  BY DEF CursorInv, mainVars
<1>2. CASE SetUp
  <2>1. /\ Typed' /\ Position(crtc') = CursorPos(term')
        /\ crtc'.reg[10] = crtc.reg[10] /\ crtc'.reg[11] = crtc.reg[11]
    BY <1>1, ShowCursor
  <2>2. torn' = torn \ {"place"}
    BY <1>2 DEF Show
  <2>3. "place" \notin torn' /\ ("start" \in torn' <=> "start" \in torn)
        /\ ("end" \in torn' <=> "end" \in torn)
    BY <2>2
  <2>4. Position(crtc)' = CursorPos(term)'
    BY <2>1 DEF Position, CursorPos
  <2>5. CursorConfigured'
    BY <1>2, <2>1, <2>3, <2>4 DEF CursorInv, CursorConfigured
  <2>6. SettingUp'
    BY <1>1, <1>2 DEF SettingUp, SetUp
  <2>. QED  BY <2>1, <2>5, <2>6 DEF CursorInv
<1>3. CASE ~ SetUp
  <2>1. \A n \in 1 .. 8 : Written(n) => Written(n)'
    BY <1>1, <1>3, ShowTears
  <2>2. Typed'
    BY <1>1, ShowCursor
  <2>3. SettingUp'
    BY <1>1, <2>1 DEF CursorInv, SettingUp
  <2>4. CursorConfigured'
    BY <1>1, <1>3 DEF CursorConfigured, SetUp
  <2>. QED  BY <2>2, <2>3, <2>4 DEF CursorInv
<1>. QED  BY <1>2, <1>3

(* The interrupt handlers print at any time, or not.                       *)
LEMMA HandleCursor == ASSUME CursorInv, Handle PROVE CursorInv'
<1>1. Typed
  BY DEF CursorInv
<1>2. CASE timer_interrupt_handler
  <2>1. UNCHANGED mainVars /\ (Show(Vga!writestring(term, TimeLine)) \/ UNCHANGED conVars)
    BY <1>2 DEF timer_interrupt_handler
  <2>2. Point(Vga!writestring(term, TimeLine))
    BY <1>1, Texts, WritePoint DEF Typed
  <2>. QED  BY <2>1, <2>2, Prints, Silent
<1>3. CASE keyboard_interrupt_handler
  <2>. DEFINE event == Kbd!Delivered
  <2>1. UNCHANGED mainVars /\ (Show(Vga!handle_key_press(term, event)) \/ UNCHANGED conVars)
    BY <1>3 DEF keyboard_interrupt_handler
  <2>. HIDE DEF event
  <2>2. Point(Vga!handle_key_press(term, event))
    BY <1>1, KeyPoint DEF Typed
  <2>. QED  BY <2>1, <2>2, Prints, Silent
<1>4. CASE NoHandler
  BY <1>4, Silent DEF NoHandler
<1>. QED  BY <1>2, <1>3, <1>4 DEF Handle

(* Every step preserves the invariant.                                     *)
LEMMA CursorNext == CursorInv /\ [Next]_vars => CursorInv'
<1>. SUFFICES ASSUME CursorInv, [Next]_vars PROVE CursorInv'
  OBVIOUS
<1>1. CASE Main
  BY <1>1, MainCursor, SetupCursor
<1>2. CASE Handle
  BY <1>2, HandleCursor
<1>3. CASE Dispatch \/ Tick \/ Type \/ Fill
  BY <1>3, Silent DEF Dispatch, Tick, Type, Fill
<1>4. CASE (\E n \in {0, 1} : Deliver(n)) \/ (\E n \in Spurious : DeliverSpurious(n))
  BY <1>4, Silent DEF Deliver, DeliverSpurious
<1>5. CASE UNCHANGED vars
  BY <1>5, Silent DEF vars
<1>. QED  BY <1>1, <1>2, <1>3, <1>4, <1>5 DEF Next

(* Whatever is typed and printed, and whenever, the eight writes of        *)
(* vga_setup and those of the handlers mix in the three ways of HalfSet    *)
(* and in no other: what no handler tore has the shape enable_cursor gives *)
(* and the place vga_setup or the last print set, both bytes of it; what   *)
(* one tore is as CursorConfigured says.                                   *)
THEOREM CursorSafe == Spec => []CursorConfigured
<1>1. CursorInv => CursorConfigured
  BY DEF CursorInv
<1>. QED  BY <1>1, CursorInit, CursorNext, PTL DEF Spec
=============================================================================
