----------------------------- MODULE UnitsProofs -----------------------------
(***************************************************************************)
(* What the units keep to for every value of the constants: the clock is   *)
(* never wrong, shapes are drawn where they belong, the driver's table     *)
(* follows the keys, the console's assignments add up to its calls and     *)
(* bring the report of an exception onto the screen, its calls are those   *)
(* of a teletype, and itoa writes every int in every base as it should.    *)
(***************************************************************************)
EXTENDS Units, GraphicsProofs, SequenceTheorems, WellFoundedInduction, NaturalsInduction, TLAPS

-----------------------------------------------------------------------------
(* The clock                                                               *)

(* A number is its quotient, times the divisor, and a remainder.           *)
LEMMA Quotients ==
  ASSUME NEW n \in Nat, NEW d \in Nat \ {0}
  PROVE  n \div d \in Nat /\ n % d \in 0 .. d - 1 /\ n = d * (n \div d) + (n % d)
BY SMT

(* There is one quotient and one remainder.                                *)
LEMMA OneQuotient ==
  ASSUME NEW n \in Nat, NEW d \in Nat \ {0}, NEW q \in Int, NEW r \in 0 .. d - 1, n = d * q + r
  PROVE  n \div d = q /\ n % d = r
<1> DEFINE p == n \div d
           s == n % d
<1>1. p \in Nat /\ s \in 0 .. d - 1 /\ n = d * p + s
  BY Quotients
<1> HIDE DEF p, s
<1>2. ~ q < p
  <2> SUFFICES ASSUME q < p PROVE FALSE
    OBVIOUS
  <2>1. d * (q + 1) <= d * p /\ d * (q + 1) = d * q + d
    BY <1>1, ProductOrder
  <2> QED BY <1>1, <2>1
<1>3. ~ p < q
  <2> SUFFICES ASSUME p < q PROVE FALSE
    OBVIOUS
  <2>1. d * (p + 1) <= d * q /\ d * (p + 1) = d * p + d
    BY <1>1, ProductOrder
  <2> QED BY <1>1, <2>1
<1>4. p = q
  BY <1>1, <1>2, <1>3
<1>5. s = r
  <2>1. d * q \in Int
    OBVIOUS
  <2> QED BY <1>1, <1>4, <2>1
<1> QED BY <1>4, <1>5 DEF p, s

(* The quotient, and the product it is divided by, by names that keep the  *)
(* arithmetic out of the steps that only compare them.                     *)
IsProduct(p, d, e)  == p = d * e
IsQuotient(q, n, d) == q = n \div d

(* To divide twice is to divide by the product, and the remainder of the   *)
(* product, divided, is that of the quotient.                              *)
Halved(n, d, e, de, q) == de # 0 /\ IsQuotient(q \div e, n, de) /\ (n % de) \div d = q % e
LEMMA Nested ==
  ASSUME NEW n \in Nat, NEW d \in Nat \ {0}, NEW e \in Nat \ {0}, NEW de \in Nat,
         NEW q \in Nat, IsProduct(de, d, e), IsQuotient(q, n, d)
  PROVE  Halved(n, d, e, de, q)
<1> USE DEF IsProduct, IsQuotient, Halved
<1> DEFINE r == n % d
           p == q \div e
           s == q % e
<1>1. q \in Nat /\ r \in 0 .. d - 1 /\ n = d * q + r
  BY Quotients
<1>2. p \in Nat /\ s \in 0 .. e - 1 /\ q = e * p + s
  BY Quotients
<1> HIDE DEF r, p, s
<1>3. d * e \in Nat \ {0}
  OBVIOUS
<1>4. n = (d * e) * p + (d * s + r)
  <2>1. d * (e * p + s) = d * (e * p) + d * s
    BY <1>2
  <2>2. d * (e * p) = (d * e) * p
    BY <1>2
  <2> QED BY <1>1, <1>2, <2>1, <2>2
<1>5. d * s + r \in 0 .. d * e - 1
  <2>1. d * 0 <= d * s /\ d * s <= d * (e - 1) /\ d * (e - 1) = d * e - d /\ d * 0 = 0 /\ d * s \in Int
    BY <1>2, ProductOrder
  <2> QED BY <1>1, <1>3, <2>1
<1> DEFINE t == d * s + r
<1>6. n \div de = p /\ n % de = t
  <2> HIDE DEF t
  <2>1. de \in Nat \ {0} /\ t \in 0 .. de - 1 /\ n = de * p + t
    BY <1>3, <1>4, <1>5, Zenon DEF t
  <2> QED BY <1>2, <2>1, OneQuotient
<1>7. t \div d = s
  <2>1. t \in Nat
    BY <1>3, <1>5
  <2>2. t = d * s + r /\ s \in Int
    BY <1>2
  <2> HIDE DEF t
  <2> QED BY <1>1, <2>1, <2>2, OneQuotient
<1> QED BY <1>3, <1>6, <1>7 DEF p, s

(* The divisors of the clock: seconds, minutes and hours in ticks.         *)
LEMMA ClockFacts ==
  /\ INT_MAX \in Nat /\ MaxElapsed \in Nat
  /\ \E e, f \in Nat \ {0} : /\ TIMER_PHASE_HZ \in Nat \ {0} /\ TICKS_IN_MINUTES \in Nat /\ TICKS_IN_HOUR \in Nat
                           /\ TICKS_IN_MINUTES = TIMER_PHASE_HZ * e
                           /\ TICKS_IN_HOUR = TICKS_IN_MINUTES * f
                           /\ TICKS_IN_MINUTES \div TIMER_PHASE_HZ = e
                           /\ TICKS_IN_HOUR \div TICKS_IN_MINUTES = f
<1> DEFINE hz == TIMER_PHASE_HZ
           m  == TICKS_IN_MINUTES
           h  == TICKS_IN_HOUR
<1>1. /\ INT_MAX \in Nat /\ MaxElapsed \in Nat /\ hz \in Nat \ {0} /\ m \in Nat \ {0} /\ h \in Nat \ {0}
      /\ m % hz = 0 /\ h % m = 0
  BY UnitsAssumption DEF Clk!TimerAssumption, Clk!ClockAssumption
<1> HIDE DEF hz, m, h
<1>2. m \div hz \in Nat \ {0} /\ m = hz * (m \div hz)
  BY <1>1, Quotients
<1>3. h \div m \in Nat \ {0} /\ h = m * (h \div m)
  BY <1>1, Quotients
<1> QED BY <1>1, <1>2, <1>3 DEF hz, m, h

(* The time that is printed is the time of that tick.                      *)
LEMMA TotalTimeIsHMS ==
  ASSUME NEW n \in Nat
  PROVE  Clk!TotalTime(n) = Clk!HMS(n)
<1> DEFINE hz == TIMER_PHASE_HZ
           m  == TICKS_IN_MINUTES
           h  == TICKS_IN_HOUR
           s == n \div hz
           t == n \div m
<1>1. PICK e \in Nat \ {0}, f \in Nat \ {0} :
        /\ hz \in Nat \ {0} /\ m \in Nat /\ h \in Nat
        /\ m = hz * e /\ h = m * f /\ m \div hz = e /\ h \div m = f
  BY ClockFacts
<1>2. hz \in Nat \ {0} /\ m \in Nat /\ h \in Nat
  BY <1>1
<1>3. IsProduct(m, hz, e)
  BY <1>1 DEF IsProduct
<1>4. IsProduct(h, m, f)
  BY <1>1 DEF IsProduct
<1>5. m \div hz = e /\ h \div m = f
  BY <1>1
<1> HIDE DEF hz, m, h
<1>6. s \in Nat
  BY <1>2, Quotients
<1>7. IsQuotient(s, n, hz)
  BY DEF IsQuotient
<1>8. m # 0 /\ IsQuotient(s \div e, n, m) /\ (n % m) \div hz = s % e
  <2> HIDE DEF s
  <2>1. n \in Nat /\ hz \in Nat \ {0} /\ e \in Nat \ {0} /\ m \in Nat /\ s \in Nat
    BY <1>2, <1>6
  <2>2. Halved(n, hz, e, m, s)
    BY <2>1, <1>3, <1>7, Nested
  <2> QED BY <2>2 DEF Halved
<1>9. t \in Nat
  BY <1>2, <1>8, Quotients
<1>10. IsQuotient(t, n, m)
  BY DEF IsQuotient
<1>11. h # 0 /\ IsQuotient(t \div f, n, h) /\ (n % h) \div m = t % f
  <2> HIDE DEF t
  <2>1. m \in Nat \ {0}
    BY <1>2, <1>8
  <2>2. n \in Nat /\ f \in Nat \ {0} /\ h \in Nat /\ t \in Nat
    BY <1>2, <1>9
  <2>3. Halved(n, m, f, h, t)
    BY <2>1, <2>2, <1>4, <1>10, Nested
  <2> QED BY <2>3 DEF Halved
<1> HIDE DEF s, t
<1>12. ASSUME NEW d \in Nat \ {0} PROVE Clk!Quotient(n, d) = n \div d /\ Clk!Remainder(n, d) = n % d
  BY Quotients DEF Clk!Quotient, Clk!Remainder
<1>13. n % h \in Nat /\ n % m \in Nat
  <2>1. h \in Nat \ {0} /\ m \in Nat \ {0}
    BY <1>2, <1>8, <1>11
  <2> QED BY <2>1, Quotients
<1>14. Clk!Quotient(n % h, m) = (n % h) \div m /\ Clk!Quotient(n % m, hz) = (n % m) \div hz
  BY <1>13 DEF Clk!Quotient
<1>15. /\ Clk!Quotient(n, h) = t \div f
       /\ Clk!Quotient(Clk!Remainder(n, h), m) = t % f
       /\ Clk!Quotient(Clk!Remainder(n, m), hz) = s % e
  <2>1. h \in Nat \ {0} /\ m \in Nat \ {0}
    BY <1>2, <1>8, <1>11
  <2> QED BY <2>1, <1>8, <1>11, <1>12, <1>14 DEF IsQuotient
<1>16. t = s \div e
  BY <1>8, <1>10 DEF IsQuotient
<1> QED
  BY <1>5, <1>7, <1>15, <1>16, Zenon DEF IsQuotient, Clk!TotalTime, Clk!HMS, hz, m, h

(* Between two prints the time is the same to the second.                  *)
LEMMA SameSecond ==
  ASSUME NEW n \in Nat, ~ Clk!Due(n + 1)
  PROVE  Clk!HMS(n + 1) = Clk!HMS(n)
<1> DEFINE hz == TIMER_PHASE_HZ
<1>1. hz \in Nat \ {0}
  BY ClockFacts
<1> HIDE DEF hz
<1>2. (n + 1) % hz # 0
  BY <1>1, Quotients DEF Clk!Due, Clk!Remainder, Clk!Quotient, hz
<1>3. n + 1 \in Nat
  OBVIOUS
<1>4. /\ (n + 1) \div hz \in Nat /\ (n + 1) % hz \in 0 .. hz - 1
      /\ n + 1 = hz * ((n + 1) \div hz) + ((n + 1) % hz)
  BY <1>1, <1>3, Quotients
<1> DEFINE q == (n + 1) \div hz
           r == (n + 1) % hz
<1>5. q \in Int /\ r - 1 \in 0 .. hz - 1 /\ n = hz * q + (r - 1)
  <2>1. q \in Int /\ hz * q \in Int /\ r \in 0 .. hz - 1 /\ r # 0 /\ n + 1 = hz * q + r
    BY <1>1, <1>2, <1>4
  <2> HIDE DEF q, r
  <2> QED BY <1>1, <2>1
<1>6. n \div hz = q
  <2> HIDE DEF q, r
  <2> QED BY <1>1, <1>5, OneQuotient
<1> QED
  BY <1>6 DEF Clk!HMS, hz

(* Every tick so far has been counted.                                     *)
Counted == timer_ticks = elapsed /\ elapsed \in 0 .. MaxElapsed /\ ShowsElapsed

(* As long as an int holds the ticks, the time on the screen is the time   *)
(* that has gone by.                                                       *)
THEOREM ClockRight == MaxElapsed <= INT_MAX => (UnitsSpec => []ShowsElapsed)
<1> SUFFICES ASSUME MaxElapsed <= INT_MAX PROVE UnitsSpec => []ShowsElapsed
  OBVIOUS
<1>1. UnitsInit => Counted
  <2>1. 0 \in 0 .. MaxElapsed
    BY ClockFacts
  <2> QED BY <2>1 DEF UnitsInit, Clk!Init, Counted, ShowsElapsed, Clk!ShowsElapsed
<1>2. Counted /\ [UnitsNext]_unitsVars => Counted'
  <2> SUFFICES ASSUME Counted, [UnitsNext]_unitsVars PROVE Counted'
    OBVIOUS
  <2>1. CASE UNCHANGED clkVars
    BY <2>1 DEF clkVars, Counted, ShowsElapsed, Clk!ShowsElapsed, Clk!HMS
  <2>2. CASE Clk!timer_interrupt_handler
    <3>1. elapsed \in Nat /\ elapsed < MaxElapsed /\ elapsed' = elapsed + 1
          /\ timer_ticks' = Clk!Increment(elapsed) /\ shown = Clk!HMS(elapsed)
          /\ shown' = IF Clk!Due(timer_ticks') THEN Clk!TotalTime(timer_ticks') ELSE shown
      BY <2>2, ClockFacts DEF Counted, Clk!timer_interrupt_handler, ShowsElapsed, Clk!ShowsElapsed
    <3>2. timer_ticks' = elapsed + 1 /\ elapsed + 1 \in Nat /\ elapsed' \in 0 .. MaxElapsed
      BY <3>1, ClockFacts DEF Clk!Increment
    <3>3. shown' = Clk!HMS(elapsed + 1)
      BY <3>1, <3>2, TotalTimeIsHMS, SameSecond
    <3> QED BY <3>1, <3>2, <3>3 DEF Counted, ShowsElapsed, Clk!ShowsElapsed, Clk!HMS
  <2>3. CASE Clk!BoundReached
    BY <2>1, <2>3 DEF Clk!BoundReached, Clk!vars, clkVars
  <2> QED
    BY <2>1, <2>2, <2>3
       DEF UnitsNext, unitsVars, Calls, Steps, Keyboard, Clock, Itoa, Drawing, Clk!Next
<1>3. Counted => ShowsElapsed
  BY DEF Counted
<1> QED BY <1>1, <1>2, <1>3, PTL DEF UnitsSpec

-----------------------------------------------------------------------------
(* The drawing functions                                                   *)

(* What has been drawn is what the call made draws.                        *)
Made ==
  \/ call = NotDrawn /\ drawing = {}
  \/ /\ call \in Shapes
     /\ drawing = CASE call.shape = "triangle"  -> drawTriangle(call.x, call.y, call.width)
                    [] call.shape = "rectangle" -> drawRectangle(call.x, call.y, call.width, call.height)
                    [] call.shape = "string"    -> drawString(call.x, call.y, call.width)

(* The arguments of a call are sizes and coordinates that a uint16_t holds.*)
LEMMA Arguments ==
  ASSUME call \in Shapes
  PROVE  /\ call.x \in Nat /\ call.y \in Nat /\ call.width \in Nat /\ call.height \in Nat
         /\ call.shape = "triangle" \/ call.shape = "rectangle" \/ call.shape = "string"
<1>1. /\ call.x \in Xs /\ call.y \in Ys /\ call.width \in Sizes
      /\ call.height \in Sizes \/ call.height = 0
      /\ call.shape = "triangle" \/ call.shape = "rectangle" \/ call.shape = "string"
  BY DEF Shapes
<1>2. \A n \in Xs \cup Ys \cup Sizes : n \in Nat
  BY UnitsAssumption, GraphicsAssumption
<1> QED BY <1>1, <1>2

(* Runs inside the frame buffer have their pixels there.                   *)
LEMMA InsideFrame ==
  ASSUME \A r \in drawing : Inside(r)
  PROVE  Pixels(drawing) \subseteq FrameBuffer
<1>1. horizontalResolution * verticalResolution \in Int
  BY GraphicsAssumption
<1>2. ASSUME NEW r \in drawing, NEW p \in r[1] .. r[2] PROVE p \in FrameBuffer
  <2>1. r \in Int \X Int /\ 0 <= r[1] /\ r[2] < horizontalResolution * verticalResolution
    BY DEF Inside
  <2>2. r[1] \in Int /\ r[2] \in Int
    BY <2>1
  <2> QED BY <1>1, <2>1, <2>2 DEF FrameBuffer
<1> QED BY <1>2 DEF Pixels

(* A shape that fits is drawn inside the frame buffer.                     *)
LEMMA FitsInside == Made => InFrame
<1> SUFFICES ASSUME Made, Fits PROVE Pixels(drawing) \subseteq FrameBuffer
  BY DEF InFrame
<1>1. CASE drawing = {}
  BY <1>1 DEF Pixels
<1>2. CASE call \in Shapes /\ call.shape = "triangle"
  <2>1. drawing = drawTriangle(call.x, call.y, call.width)
    BY <1>2 DEF Made, NotDrawn
  <2>2. \A r \in drawing : Inside(r)
    BY <1>2, <2>1, Arguments, TriangleInside DEF Fits, Half
  <2> QED BY <2>2, InsideFrame
<1>3. CASE call \in Shapes /\ call.shape = "string"
  <2>1. drawing = drawString(call.x, call.y, call.width)
    BY <1>3 DEF Made, NotDrawn
  <2>2. \A r \in drawing : Inside(r)
    BY <1>3, <2>1, Arguments, StringInside DEF Fits
  <2> QED BY <2>2, InsideFrame
<1>4. CASE call \in Shapes /\ call.shape = "rectangle"
  <2>1. drawing = drawRectangle(call.x, call.y, call.width, call.height)
    BY <1>4 DEF Made, NotDrawn
  <2>2. \A r \in drawing : Inside(r)
    BY <1>4, <2>1, Arguments, RectangleInside DEF Fits
  <2> QED BY <2>2, InsideFrame
<1> QED BY <1>1, <1>2, <1>3, <1>4, Arguments DEF Made

(* A rectangle that starts on the screen and that its corners fit: the     *)
(* columns and rows it is clipped to, and how far apart its runs are.      *)
Right2  == ClipEnd(Right, horizontalResolution)
Bottom2 == ClipEnd(Bottom, verticalResolution)
Along   == Right2 - call.x + 1
Down    == Advance(Along, call.width)
OnGrid  == /\ call \in Shapes /\ call.shape = "rectangle" /\ call.width > 0 /\ call.height > 0
           /\ call.x < horizontalResolution /\ call.y < verticalResolution
           /\ Right < UINT16_MOD /\ Bottom < UINT16_MOD

(* They are numbers on the screen.                                         *)
LEMMA Corners ==
  ASSUME OnGrid
  PROVE  /\ horizontalResolution \in Nat \ {0} /\ verticalResolution \in Nat \ {0}
         /\ call.x \in 0 .. horizontalResolution - 1 /\ call.y \in 0 .. verticalResolution - 1
         /\ Right \in Nat /\ Right > call.x /\ Bottom \in Nat /\ Bottom > call.y
         /\ Right2 \in call.x .. horizontalResolution - 1
         /\ Bottom2 \in call.y .. verticalResolution - 1
         /\ Along \in Nat \ {0} /\ Along = Right2 - call.x + 1 /\ Down \in Int
         /\ UInt16(Right) = Right /\ UInt16(Bottom) = Bottom
<1>1. /\ horizontalResolution \in Nat \ {0} /\ verticalResolution \in Nat \ {0} /\ UINT16_MOD \in Nat
      /\ call.x \in Nat /\ call.y \in Nat /\ call.width \in Nat \ {0} /\ call.height \in Nat \ {0}
  BY GraphicsAssumption, Arguments DEF OnGrid
<1>2. Right \in Nat /\ Right > call.x /\ Bottom \in Nat /\ Bottom > call.y
  BY <1>1 DEF Right, Bottom
<1>3. /\ Right2 \in call.x .. horizontalResolution - 1
      /\ Bottom2 \in call.y .. verticalResolution - 1
  BY <1>1, <1>2 DEF Right2, Bottom2, ClipEnd, OnGrid
<1>4. Along \in Nat \ {0} /\ Along = Right2 - call.x + 1
  BY <1>1, <1>3 DEF Along
<1>5. Down \in Int
  BY <1>1, <1>4 DEF Down, Advance
<1>6. UInt16(Right) = Right /\ UInt16(Bottom) = Bottom
  BY <1>1, <1>2 DEF UInt16, OnGrid
<1> QED BY <1>1, <1>2, <1>3, <1>4, <1>5, <1>6 DEF OnGrid

(* Its runs.                                                               *)
LEMMA RunsDrawn ==
  ASSUME Made, OnGrid
  PROVE  \A p : p \in Pixels(drawing) <=>
           \E k \in 0 .. Bottom2 - call.y :
             LET first == horizontalResolution * call.y + call.x + k * Down
             IN  p \in first .. first + Along - 1
<1> DEFINE first(k) == horizontalResolution * call.y + call.x + k * Down
<1>1. drawing = drawRectangle(call.x, call.y, call.width, call.height)
  BY DEF Made, OnGrid, NotDrawn
<1>2. /\ ClipStart(call.x, horizontalResolution) = call.x
      /\ ClipStart(call.y, verticalResolution) = call.y
      /\ ClipEnd(UInt16(call.x + call.width), horizontalResolution) = Right2
      /\ ClipEnd(UInt16(call.y + call.height), verticalResolution) = Bottom2
  <2>1. UInt16(call.x + call.width) = Right /\ UInt16(call.y + call.height) = Bottom
    BY Corners DEF Right, Bottom
  <2> QED BY <2>1, Corners DEF ClipStart, Right2, Bottom2
<1>3. Right2 >= call.x /\ call.width # 0 /\ call.height # 0 /\ Along # 0
  BY Corners, Arguments DEF OnGrid
<1>4. drawing = {Run(first(k), Along) : k \in 0 .. Bottom2 - call.y}
  BY <1>1, <1>2, <1>3 DEF drawRectangle, Along, Down
<1>5. \A p : p \in Pixels(drawing) <=> \E r \in drawing : p \in r[1] .. r[2]
  BY DEF Pixels
<1>6. \A k : Run(first(k), Along)[1] = first(k) /\ Run(first(k), Along)[2] = first(k) + Along - 1
  BY DEF Run
<1> HIDE DEF first
<1>7. \A p : p \in Pixels(drawing) <=> \E k \in 0 .. Bottom2 - call.y : p \in first(k) .. first(k) + Along - 1
  BY <1>4, <1>5, <1>6
<1> QED BY <1>7, Zenon DEF first

(* What is on the screen of it.                                            *)
LEMMA PixelsAsked ==
  ASSUME OnGrid
  PROVE  \A p : p \in OnScreen <=>
           \E line \in call.y .. Bottom2, pixel \in call.x .. Right2 :
             p = line * horizontalResolution + pixel
<1>1. (call.x .. Right) \cap (0 .. horizontalResolution - 1) = call.x .. Right2
  BY Corners DEF Right2, ClipEnd
<1>2. (call.y .. Bottom) \cap (0 .. verticalResolution - 1) = call.y .. Bottom2
  BY Corners DEF Bottom2, ClipEnd
<1> QED BY <1>1, <1>2 DEF OnScreen

(* A rectangle that ends before the right margin goes straight down, as    *)
(* does a single row.                                                      *)
LEMMA Straight ==
  ASSUME Made, OnGrid, Down = horizontalResolution \/ Bottom2 = call.y
  PROVE  Pixels(drawing) = OnScreen
<1> DEFINE H == horizontalResolution
           x == call.x
           top == call.y
           first(k) == H * top + x + k * Down
<1>1. /\ H \in Nat \ {0} /\ x \in Nat /\ top \in Nat /\ Bottom2 \in Nat /\ Right2 \in Nat
      /\ Along = Right2 - x + 1 /\ Down \in Int /\ Bottom2 >= top
  BY Corners
<1>2. ASSUME NEW k \in 0 .. Bottom2 - top
      PROVE  first(k) = (top + k) * H + x /\ (top + k) * H \in Int
  <2>1. k * Down = k * H
    <3>1. CASE Down = H
      BY <3>1
    <3>2. CASE Bottom2 = top
      <4>1. k = 0
        BY <1>1, <3>2
      <4> QED BY <1>1, <4>1
    <3> QED BY <3>1, <3>2
  <2>2. H * top + k * H = H * (top + k) /\ H * top \in Int /\ k * H \in Int
    BY <1>1, RowsAdd
  <2>3. H * (top + k) = (top + k) * H /\ (top + k) * H \in Int
    BY <1>1
  <2>4. first(k) = H * top + x + k * H
    BY <2>1
  <2> HIDE DEF H, x, first
  <2> QED BY <1>1, <2>2, <2>3, <2>4
<1> HIDE DEF first
<1>3. ASSUME NEW p, NEW k \in 0 .. Bottom2 - top, p \in first(k) .. first(k) + Along - 1
      PROVE  \E line \in top .. Bottom2, pixel \in x .. Right2 : p = line * H + pixel
  <2> DEFINE line == top + k
             pixel == p - line * H
  <2>1. line \in top .. Bottom2
    BY <1>1
  <2>2. line * H \in Int /\ p \in Int /\ pixel \in x .. Right2 /\ p = line * H + pixel
    <3>1. line * H \in Int /\ first(k) = line * H + x
      BY <1>2
    <3> HIDE DEF line
    <3> QED BY <1>1, <1>3, <3>1
  <2> HIDE DEF line, pixel
  <2> QED BY <2>1, <2>2
<1>4. ASSUME NEW p, NEW line \in top .. Bottom2, NEW pixel \in x .. Right2, p = line * H + pixel
      PROVE  \E k \in 0 .. Bottom2 - top : p \in first(k) .. first(k) + Along - 1
  <2> DEFINE k == line - top
  <2>1. k \in 0 .. Bottom2 - top /\ top + k = line
    BY <1>1
  <2>2. first(k) = line * H + x /\ line * H \in Int
    BY <1>2, <2>1
  <2>3. p \in first(k) .. first(k) + Along - 1
    BY <1>1, <1>4, <2>2
  <2> QED BY <2>1, <2>3
<1>5. \A p : p \in Pixels(drawing) <=> \E k \in 0 .. Bottom2 - top : p \in first(k) .. first(k) + Along - 1
  BY RunsDrawn DEF first
<1>6. \A p : p \in OnScreen <=> \E line \in top .. Bottom2, pixel \in x .. Right2 : p = line * H + pixel
  BY PixelsAsked
<1> QED BY <1>3, <1>4, <1>5, <1>6

(* A clipped rectangle of several rows slants to the left: its last pixel  *)
(* is not drawn.                                                           *)
LEMMA Slanted ==
  ASSUME Made, OnGrid, Right >= horizontalResolution, call.y < verticalResolution - 1
  PROVE  Pixels(drawing) # OnScreen
<1> DEFINE H == horizontalResolution
           x == call.x
           top == call.y
           rows == Bottom2 - top
           last == Bottom2 * H + (H - 1)
<1>1. /\ H \in Nat \ {0} /\ x \in 0 .. H - 1 /\ top \in Nat /\ Bottom2 \in Nat
      /\ Right2 = H - 1 /\ Bottom2 > top /\ Along = H - x /\ Down \in Int
  BY Corners DEF Right2, Bottom2, ClipEnd
<1>2. Down <= H - 1
  BY <1>1, Arguments DEF Down, Advance, Right, OnGrid
<1>3. last \in OnScreen
  <2>1. Bottom2 \in top .. Bottom2 /\ H - 1 \in x .. Right2
    BY <1>1
  <2> QED BY <2>1, PixelsAsked
<1>4. rows \in Nat \ {0} /\ Bottom2 = top + rows
  BY <1>1
<1> HIDE DEF rows
<1>5. ASSUME NEW k \in 0 .. rows, last \in H * top + x + k * Down .. H * top + x + k * Down + Along - 1
      PROVE  FALSE
  <2>1. k * Down <= k * (H - 1) /\ k * Down \in Int /\ k * (H - 1) \in Int
    BY <1>1, <1>2, <1>4, ProductOrder
  <2>2. (H - 1) * k <= (H - 1) * rows /\ (H - 1) * k \in Int /\ (H - 1) * rows \in Int
    <3>1. H - 1 \in Nat /\ k \in Int /\ rows \in Int /\ k <= rows
      BY <1>1, <1>4
    <3> QED BY <3>1, ProductOrder
  <2>3. k * (H - 1) = (H - 1) * k
    BY <1>1, <1>4
  <2>4. (H - 1) * rows = H * rows - rows /\ H * rows \in Int
    BY <1>1, <1>4
  <2>5. Bottom2 * H = H * top + H * rows /\ H * top \in Int
    <3>1. H * top + rows * H = H * (top + rows)
      BY <1>1, <1>4, RowsAdd
    <3>2. rows * H = H * rows /\ H * (top + rows) = (top + rows) * H /\ H * top \in Int
      BY <1>1, <1>4
    <3> QED BY <1>4, <3>1, <3>2
  <2>6. H * top + H * rows + (H - 1) <= H * top + x + k * Down + Along - 1
    <3>1. last = H * top + H * rows + (H - 1) /\ last \in Int
      BY <1>1, <2>4, <2>5
    <3> HIDE DEF last
    <3> QED BY <1>1, <1>5, <2>1, <2>4, <2>5, <3>1
  <2>7. H * rows <= k * Down
    <3> HIDE DEF H, x, top
    <3> QED BY <1>1, <2>1, <2>4, <2>5, <2>6
  <2> QED BY <1>4, <2>1, <2>2, <2>3, <2>4, <2>7
<1>6. last \notin Pixels(drawing)
  <2> HIDE DEF last
  <2> QED BY <1>5, RunsDrawn DEF rows
<1> QED BY <1>3, <1>6

(* A rectangle comes out upright exactly when it is not clipped on its     *)
(* right, or has but one row on the screen.                                *)
LEMMA UprightOnly == ASSUME Made PROVE RectangleUpright
<1> SUFFICES ASSUME OnGrid PROVE Pixels(drawing) = OnScreen <=> Upright
  <2>1. call.shape = "rectangle" => call \in Shapes
    BY DEF Made, NotDrawn
  <2> QED BY <2>1 DEF RectangleUpright, OnGrid
<1>1. CASE Right < horizontalResolution
  <2>1. Down = horizontalResolution
    BY <1>1, Corners, Arguments DEF Down, Advance, Along, Right2, ClipEnd, Right, OnGrid
  <2> QED BY <1>1, <2>1, Straight DEF Upright
<1>2. CASE call.y = verticalResolution - 1
  <2>1. Bottom2 = call.y
    BY <1>2, Corners
  <2> QED BY <1>2, <2>1, Straight DEF Upright
<1>3. CASE ~ Upright
  <2>1. Right >= horizontalResolution /\ call.y < verticalResolution - 1
    BY <1>3, Corners DEF Upright
  <2> QED BY <1>3, <2>1, Slanted
<1> QED BY <1>1, <1>2, <1>3 DEF Upright

(* Of every call of a drawing function, whatever the screen: a shape that  *)
(* fits stays inside the frame buffer, and a rectangle comes out upright   *)
(* exactly when it is not cut off on its right.                            *)
THEOREM DrawnRight == UnitsSpec => []DrawingExact
<1>1. UnitsInit => Made
  BY DEF UnitsInit, Made
<1>2. Made /\ [UnitsNext]_unitsVars => Made'
  <2> SUFFICES ASSUME Made, [UnitsNext]_unitsVars PROVE Made'
    OBVIOUS
  <2>1. CASE UNCHANGED drwVars
    BY <2>1 DEF drwVars, Made
  <2>2. ASSUME NEW c \in Shapes, Draw(c) PROVE Made'
    BY <2>2 DEF Draw, Made
  <2> QED
    BY <2>1, <2>2
       DEF UnitsNext, unitsVars, Calls, Steps, Keyboard, Clock, Itoa, Drawing, Drawn
<1>3. Made => DrawingExact
  BY FitsInside, UprightOnly DEF DrawingExact
<1> QED BY <1>1, <1>2, <1>3, PTL DEF UnitsSpec

-----------------------------------------------------------------------------
(* The keyboard                                                            *)

(* A code is down at the end of a stretch of bytes: it was at its start,   *)
(* or a byte says so, and no later byte says that it was released.         *)
DownAfter(down, s, c) ==
  \E i \in 0 .. Len(s) :
    /\ IF i = 0 THEN down ELSE s[i] = c
    /\ \A j \in i + 1 .. Len(s) : s[j] # c + 128

(* What one more byte, at the end, says of a code.                         *)
LEMMA OneMore ==
  ASSUME NEW down, NEW s \in Seq(Nat), NEW b \in Nat, NEW c \in Nat
  PROVE  DownAfter(down, s \o <<b>>, c) <=> b = c \/ (b # c + 128 /\ DownAfter(down, s, c))
<1> DEFINE t == s \o <<b>>
           n == Len(s)
<1>1. n \in Nat /\ Len(t) = n + 1 /\ t[n + 1] = b /\ \A i \in 1 .. n : t[i] = s[i]
  <2>1. <<b>> \in Seq(Nat) /\ Len(<<b>>) = 1 /\ <<b>>[1] = b
    OBVIOUS
  <2> QED BY <2>1, LenProperties, ConcatProperties
<1> HIDE DEF t
<1>2. CASE b = c
  <2>1. n + 1 \in 0 .. Len(t) /\ \A j \in n + 1 + 1 .. Len(t) : FALSE
    BY <1>1
  <2>2. n + 1 # 0 /\ t[n + 1] = c
    BY <1>1, <1>2
  <2> QED BY <1>2, <2>1, <2>2 DEF DownAfter, t
<1>3. CASE b # c /\ b = c + 128
  <2>1. ASSUME NEW i \in 0 .. Len(t), IF i = 0 THEN down ELSE t[i] = c,
               \A j \in i + 1 .. Len(t) : t[j] # c + 128
        PROVE  FALSE
    <3>1. i # n + 1
      BY <1>1, <1>3, <2>1
    <3>2. n + 1 \in i + 1 .. Len(t)
      BY <1>1, <3>1
    <3> QED BY <1>1, <1>3, <2>1, <3>2
  <2> QED BY <1>3, <2>1 DEF DownAfter, t
<1>4. CASE b # c /\ b # c + 128
  <2>1. ASSUME NEW i \in 0 .. n, IF i = 0 THEN down ELSE s[i] = c,
               \A j \in i + 1 .. n : s[j] # c + 128
        PROVE  DownAfter(down, t, c)
    <3>1. i \in 0 .. Len(t) /\ (IF i = 0 THEN down ELSE t[i] = c)
      BY <1>1, <2>1
    <3>2. ASSUME NEW j \in i + 1 .. Len(t) PROVE t[j] # c + 128
      <4>1. j \in i + 1 .. n \/ j = n + 1
        BY <1>1
      <4>2. CASE j \in i + 1 .. n
        <5>1. j \in 1 .. n /\ s[j] # c + 128
          BY <2>1, <4>2
        <5> QED BY <1>1, <5>1
      <4>3. CASE j = n + 1
        BY <1>1, <1>4, <4>3
      <4> QED BY <4>1, <4>2, <4>3
    <3> QED BY <3>1, <3>2 DEF DownAfter
  <2>2. ASSUME NEW i \in 0 .. Len(t), IF i = 0 THEN down ELSE t[i] = c,
               \A j \in i + 1 .. Len(t) : t[j] # c + 128
        PROVE  DownAfter(down, s, c)
    <3>1. i \in 0 .. Len(s) /\ (IF i = 0 THEN down ELSE s[i] = c)
      BY <1>1, <1>4, <2>2
    <3>2. ASSUME NEW j \in i + 1 .. Len(s) PROVE s[j] # c + 128
      BY <1>1, <2>2, <3>1
    <3> QED BY <3>1, <3>2 DEF DownAfter
  <2>3. DownAfter(down, t, c) <=> DownAfter(down, s, c)
    BY <2>1, <2>2 DEF DownAfter
  <2> QED BY <1>4, <2>3 DEF t
<1> QED BY <1>2, <1>3, <1>4

(* What the first byte says of a code is what is left of it once read.     *)
LEMMA OneLess ==
  ASSUME NEW down, NEW s \in Seq(Nat), NEW b \in Nat, NEW c \in Nat
  PROVE  DownAfter(down, <<b>> \o s, c) <=> DownAfter(b = c \/ (b # c + 128 /\ down), s, c)
<1> DEFINE t == <<b>> \o s
           n == Len(s)
           read == b = c \/ (b # c + 128 /\ down)
<1>1. n \in Nat /\ Len(t) = n + 1 /\ t[1] = b /\ \A i \in 1 .. n : t[i + 1] = s[i]
  <2>1. <<b>> \in Seq(Nat) /\ Len(<<b>>) = 1 /\ <<b>>[1] = b
    OBVIOUS
  <2>2. n \in Nat /\ Len(t) = 1 + n
        /\ \A i \in 1 .. 1 + n : t[i] = IF i <= 1 THEN <<b>>[i] ELSE s[i - 1]
    BY <2>1, LenProperties, ConcatProperties
  <2> HIDE DEF t, n
  <2>3. ASSUME NEW i \in 1 .. n PROVE t[i + 1] = s[i]
    <3>1. i + 1 \in 1 .. 1 + n /\ ~ i + 1 <= 1 /\ (i + 1) - 1 = i
      BY <2>2
    <3> QED BY <2>2, <3>1
  <2> QED BY <2>1, <2>2, <2>3
<1> HIDE DEF t
<1>2. ASSUME NEW i \in 0 .. Len(t), IF i = 0 THEN down ELSE t[i] = c,
             \A j \in i + 1 .. Len(t) : t[j] # c + 128
      PROVE  DownAfter(read, s, c)
  <2>1. CASE i \in {0, 1}
    <3>1. read
      BY <1>1, <1>2, <2>1
    <3>2. ASSUME NEW j \in 1 .. n PROVE s[j] # c + 128
      <4>1. j + 1 \in i + 1 .. Len(t)
        BY <1>1, <2>1
      <4> QED BY <1>1, <1>2, <4>1
    <3>3. 0 \in 0 .. n /\ 0 + 1 = 1
      BY <1>1
    <3> QED BY <3>1, <3>2, <3>3 DEF DownAfter
  <2>2. CASE i \notin {0, 1}
    <3>1. i - 1 \in 1 .. n /\ i - 1 # 0 /\ s[i - 1] = c
      <4>1. i - 1 \in 1 .. n /\ (i - 1) + 1 = i
        BY <1>1, <2>2
      <4> QED BY <1>1, <1>2, <2>2, <4>1
    <3>2. ASSUME NEW j \in (i - 1) + 1 .. n PROVE s[j] # c + 128
      <4>1. j + 1 \in i + 1 .. Len(t) /\ j \in 1 .. n
        BY <1>1, <2>2
      <4> QED BY <1>1, <1>2, <4>1
    <3>3. i - 1 \in 0 .. n
      BY <3>1
    <3> QED BY <3>1, <3>2, <3>3 DEF DownAfter
  <2> QED BY <2>1, <2>2
<1>3. ASSUME NEW i \in 0 .. n, IF i = 0 THEN read ELSE s[i] = c,
             \A j \in i + 1 .. n : s[j] # c + 128
      PROVE  DownAfter(down, t, c)
  <2>1. ASSUME NEW m \in Nat, m <= i + 1, NEW j \in m + 1 .. Len(t), j # 1, j > i + 1
        PROVE  t[j] # c + 128
    <3>1. j - 1 \in i + 1 .. n /\ j - 1 \in 1 .. n /\ (j - 1) + 1 = j
      BY <1>1, <2>1
    <3>2. t[(j - 1) + 1] = s[j - 1] /\ s[j - 1] # c + 128
      BY <1>1, <1>3, <3>1
    <3> QED BY <3>1, <3>2
  <2>2. CASE i # 0 \/ b = c
    <3>1. i + 1 \in 0 .. Len(t) /\ i + 1 # 0 /\ t[i + 1] = c
      BY <1>1, <1>3, <2>2
    <3>2. ASSUME NEW j \in (i + 1) + 1 .. Len(t) PROVE t[j] # c + 128
      <4>1. j # 1 /\ j > i + 1 /\ i + 1 \in Nat
        BY <1>1
      <4> QED BY <2>1, <4>1
    <3> QED BY <3>1, <3>2 DEF DownAfter
  <2>3. CASE i = 0 /\ b # c
    <3>1. b # c + 128 /\ down
      BY <1>3, <2>3
    <3>2. ASSUME NEW j \in 0 + 1 .. Len(t) PROVE t[j] # c + 128
      <4>1. CASE j = 1
        BY <1>1, <3>1, <4>1
      <4>2. CASE j # 1
        <5>1. j > i + 1 /\ 0 \in Nat /\ 0 <= i + 1
          BY <1>1, <2>3, <4>2
        <5> QED BY <2>1, <4>2, <5>1
      <4> QED BY <4>1, <4>2
    <3>3. 0 \in 0 .. Len(t)
      BY <1>1
    <3> QED BY <3>1, <3>2, <3>3 DEF DownAfter
  <2> QED BY <2>2, <2>3
<1>4. DownAfter(down, t, c) => DownAfter(read, s, c)
  BY <1>2 DEF DownAfter
<1>5. DownAfter(read, s, c) => DownAfter(down, t, c)
  BY <1>3 DEF DownAfter
<1> QED BY <1>4, <1>5 DEF t, read

(* Sequences of bytes can be put together in any order.                    *)
IsJoin(v, s, t) ==
  /\ v \in Seq(Nat) /\ Len(v) = Len(s) + Len(t)
  /\ \A i \in 1 .. Len(s) : v[i] = s[i]
  /\ \A i \in 1 .. Len(t) : v[Len(s) + i] = t[i]
LEMMA Join ==
  ASSUME NEW s \in Seq(Nat), NEW t \in Seq(Nat)
  PROVE  IsJoin(s \o t, s, t) /\ s \o t \in Seq(Nat)
BY ConcatProperties DEF IsJoin

(* However they are grouped.                                               *)
LEMMA Regroup ==
  ASSUME NEW s \in Seq(Nat), NEW t \in Seq(Nat), NEW u \in Seq(Nat)
  PROVE  (s \o t) \o u = s \o (t \o u)
<1> DEFINE v == s \o t
           w == t \o u
           a == v \o u
           b == s \o w
<1>1. IsJoin(v, s, t) /\ v \in Seq(Nat) /\ IsJoin(w, t, u) /\ w \in Seq(Nat)
  BY Join
<1> HIDE DEF v, w
<1>2. IsJoin(a, v, u) /\ IsJoin(b, s, w)
  BY <1>1, Join
<1> HIDE DEF a, b
<1>3. Len(s) \in Nat /\ Len(t) \in Nat /\ Len(u) \in Nat
  OBVIOUS
<1>4. /\ a \in Seq(Nat) /\ b \in Seq(Nat) /\ Len(a) = Len(b)
      /\ Len(v) = Len(s) + Len(t) /\ Len(a) = (Len(s) + Len(t)) + Len(u)
  BY <1>1, <1>2, <1>3 DEF IsJoin
<1>5. ASSUME NEW i \in 1 .. Len(s) PROVE a[i] = b[i]
  <2>1. i \in 1 .. Len(v)
    BY <1>3, <1>4
  <2> QED BY <1>1, <1>2, <2>1 DEF IsJoin
<1>6. ASSUME NEW i \in 1 .. Len(t) PROVE a[Len(s) + i] = b[Len(s) + i]
  <2>1. Len(s) + i \in 1 .. Len(v) /\ i \in 1 .. Len(w)
    BY <1>1, <1>3, <1>4 DEF IsJoin
  <2>2. a[Len(s) + i] = v[Len(s) + i] /\ v[Len(s) + i] = t[i] /\ w[i] = t[i]
    BY <1>1, <1>2, <2>1 DEF IsJoin
  <2>3. b[Len(s) + i] = w[i]
    BY <1>2, <2>1 DEF IsJoin
  <2> QED BY <2>2, <2>3
<1>7. ASSUME NEW i \in 1 .. Len(u) PROVE a[(Len(s) + Len(t)) + i] = b[(Len(s) + Len(t)) + i]
  <2>1. Len(t) + i \in 1 .. Len(w) /\ Len(s) + (Len(t) + i) = (Len(s) + Len(t)) + i
    BY <1>1, <1>3 DEF IsJoin
  <2>2. a[(Len(s) + Len(t)) + i] = u[i]
    BY <1>2, <1>4 DEF IsJoin
  <2>3. b[Len(s) + (Len(t) + i)] = w[Len(t) + i]
    BY <1>2, <2>1 DEF IsJoin
  <2>4. w[Len(t) + i] = u[i]
    BY <1>1 DEF IsJoin
  <2> QED BY <2>1, <2>2, <2>3, <2>4
<1>8. ASSUME NEW i \in 1 .. Len(a) PROVE a[i] = b[i]
  <2>1. CASE i <= Len(s)
    BY <1>3, <1>5, <2>1
  <2>2. CASE i > Len(s) /\ i <= Len(s) + Len(t)
    <3>1. i - Len(s) \in 1 .. Len(t) /\ Len(s) + (i - Len(s)) = i
      BY <1>3, <2>2
    <3> QED BY <1>6, <3>1
  <2>3. CASE i > Len(s) + Len(t)
    <3>1. i - (Len(s) + Len(t)) \in 1 .. Len(u) /\ (Len(s) + Len(t)) + (i - (Len(s) + Len(t))) = i
      BY <1>3, <1>4, <2>3
    <3> QED BY <1>7, <3>1
  <2> QED BY <1>3, <2>1, <2>2, <2>3
<1>9. a = b
  BY <1>4, <1>8, SeqEqual
<1> QED BY <1>9 DEF a, b, v, w

(* And what two more bytes say.                                            *)
LEMMA TwoMore ==
  ASSUME NEW down, NEW s \in Seq(Nat), NEW a \in Nat, NEW b \in Nat, NEW c \in Nat
  PROVE  DownAfter(down, s \o <<a, b>>, c)
           <=> b = c \/ (b # c + 128 /\ (a = c \/ (a # c + 128 /\ DownAfter(down, s, c))))
<1>1. <<a>> \in Seq(Nat) /\ <<b>> \in Seq(Nat)
  OBVIOUS
<1>2. <<a>> \o <<b>> = <<a, b>>
  <2> DEFINE t == <<a>> \o <<b>>
  <2>1. Len(<<a>>) = 1 /\ <<a>>[1] = a /\ Len(<<b>>) = 1 /\ <<b>>[1] = b
    OBVIOUS
  <2>2. t \in Seq(Nat) /\ Len(t) = 2 /\ t[1] = a /\ t[2] = b
    BY <1>1, <2>1, ConcatProperties
  <2>3. <<a, b>> \in Seq(Nat) /\ Len(<<a, b>>) = 2 /\ <<a, b>>[1] = a /\ <<a, b>>[2] = b
    OBVIOUS
  <2> HIDE DEF t
  <2>4. \A i \in 1 .. Len(t) : t[i] = <<a, b>>[i]
    BY <2>2, <2>3
  <2>5. t = <<a, b>>
    BY <2>2, <2>3, <2>4, SeqEqual
  <2> QED BY <2>5 DEF t
<1>3. s \o <<a>> \in Seq(Nat)
  BY <1>1, ConcatProperties
<1>4. (s \o <<a>>) \o <<b>> = s \o (<<a>> \o <<b>>)
  BY <1>1, Regroup
<1> DEFINE u == s \o <<a>>
<1>5. s \o <<a, b>> = u \o <<b>> /\ u \in Seq(Nat)
  BY <1>2, <1>3, <1>4
<1>6. DownAfter(down, u, c) <=> a = c \/ (a # c + 128 /\ DownAfter(down, s, c))
  BY OneMore
<1> HIDE DEF u
<1>7. DownAfter(down, u \o <<b>>, c) <=> b = c \/ (b # c + 128 /\ DownAfter(down, u, c))
  BY <1>5, OneMore
<1> QED BY <1>5, <1>6, <1>7

(* The bytes that can be on their way: the codes of presses and releases.  *)
Bytes == {b \in Nat : b \in Kbd!Codes \/ b - 128 \in Kbd!Codes}

(* A fake release has been sent for the left shift, and no press yet.      *)
Faked == <<LeftShift, FALSE>> \in held /\ \E k \in held : k[2] /\ k[1] \in Cursor

(* The device and the driver keep their types, and the driver knows of     *)
(* every key that is down but a left shift that is faked to be up.         *)
KeyTypes ==
  /\ held \subseteq Kbd!AllKeys
  /\ fifo \in Seq(Bytes) /\ port \in Bytes \union {Nothing}
  /\ keydown \in [Kbd!Codes -> BOOLEAN]
Knows ==
  \A c \in Kbd!Codes : /\ Kbd!Believed(c) => Kbd!Down(c)
                       /\ Kbd!Down(c) => Kbd!Believed(c) \/ (c = LeftShift /\ Faked)
KeyInv == KeyTypes /\ Knows

(* No extended key in use shares its code with another key in use.         *)
CodesApart == Keys \cap Extended = {}

(* Codes fit in seven bits, and there is one for the prefix.               *)
LEMMA CodeFacts ==
  /\ \A c \in Kbd!Codes : c \in 1 .. 96
  /\ \A k \in Kbd!AllKeys : /\ k[1] \in Kbd!Codes /\ k[1] \in 1 .. 95
                            /\ k[2] => k = <<k[1], TRUE>> /\ k[1] \in Extended
                            /\ ~ k[2] => k = <<k[1], FALSE>> /\ k[1] \in Keys
  /\ Nothing \notin Nat /\ Kbd!Prefix = 224 /\ 96 \in Kbd!Codes /\ Cursor \subseteq Extended
<1>1. /\ Keys \subseteq 1 .. 95 /\ Extended \subseteq 1 .. 95 /\ Nothing \notin Nat
      /\ Cursor \subseteq Extended
  BY UnitsAssumption DEF Kbd!KeyboardAssumption
<1>2. Kbd!Prefix = 224 /\ Kbd!Prefix - 128 = 96
  BY DEF Kbd!Prefix
<1>3. \A c \in Kbd!Codes : c \in 1 .. 96
  BY <1>1, <1>2 DEF Kbd!Codes
<1>4. ASSUME NEW k \in Kbd!AllKeys
      PROVE  /\ k[1] \in Kbd!Codes /\ k[1] \in 1 .. 95
             /\ k[2] => k = <<k[1], TRUE>> /\ k[1] \in Extended
             /\ ~ k[2] => k = <<k[1], FALSE>> /\ k[1] \in Keys
  <2>1. CASE k \in Keys \X {FALSE}
    <3>1. k[1] \in Keys /\ k = <<k[1], k[2]>>
      BY <2>1
    <3>4. k[2] \in {FALSE}
      BY <2>1, Zenon
    <3>2. ~ k[2]
      BY <3>4
    <3>3. k = <<k[1], FALSE>>
      BY <3>1, <3>4, Zenon
    <3> QED BY <1>1, <3>1, <3>2, <3>3 DEF Kbd!Codes
  <2>2. CASE k \in Extended \X {TRUE}
    <3>1. k[1] \in Extended /\ k = <<k[1], k[2]>>
      BY <2>2
    <3>4. k[2] \in {TRUE}
      BY <2>2, Zenon
    <3>2. k[2]
      BY <3>4
    <3>3. k = <<k[1], TRUE>>
      BY <3>1, <3>4, Zenon
    <3> QED BY <1>1, <3>1, <3>2, <3>3 DEF Kbd!Codes
  <2> QED BY <2>1, <2>2 DEF Kbd!AllKeys
<1> QED BY <1>1, <1>2, <1>3, <1>4 DEF Kbd!Codes

(* Sequences one behind the other, grouped either way.                     *)
Joined(a, b) == a \o b
LEMMA JoinedSeq ==
  /\ \A a, b \in Seq(Nat) : Joined(a, b) \in Seq(Nat)
  /\ \A a, b, c \in Seq(Nat) : Joined(Joined(a, b), c) = Joined(a, Joined(b, c))
<1>1. ASSUME NEW a \in Seq(Nat), NEW b \in Seq(Nat) PROVE a \o b \in Seq(Nat)
  BY ConcatProperties
<1>2. ASSUME NEW a \in Seq(Nat), NEW b \in Seq(Nat), NEW c \in Seq(Nat)
      PROVE  (a \o b) \o c = a \o (b \o c)
  BY Regroup
<1> QED BY <1>1, <1>2, Zenon DEF Joined

(* Bytes sent come after those on their way.                               *)
LEMMA FlightGrows ==
  ASSUME KeyTypes, NEW s \in Seq(Nat), NEW t \in Seq(Nat), fifo' = fifo \o (s \o t), UNCHANGED port
  PROVE  Kbd!InFlight \in Seq(Nat) /\ Kbd!InFlight' = (Kbd!InFlight \o s) \o t
<1> DEFINE first == IF port = Nothing THEN <<>> ELSE <<port>>
<1>1. first \in Seq(Nat) /\ fifo \in Seq(Nat)
  BY SeqMonotonic DEF KeyTypes, Bytes
<1>2. /\ Kbd!InFlight = Joined(first, fifo)
      /\ Kbd!InFlight' = Joined(first, Joined(fifo, Joined(s, t)))
  BY DEF Kbd!InFlight, Joined
<1> HIDE DEF first
<1>3. /\ Joined(first, fifo) \in Seq(Nat)
      /\ Joined(first, Joined(fifo, Joined(s, t))) = Joined(Joined(Joined(first, fifo), s), t)
  BY <1>1, JoinedSeq
<1> QED BY <1>2, <1>3 DEF Joined

(* A key's code, and a fake shift, on their way.                           *)
Code(k, byte) == IF k[2] THEN <<Kbd!Prefix, byte>> ELSE <<byte>>
Fakes(k)      == k[2] /\ k[1] \in Cursor /\ <<LeftShift, FALSE>> \in held

(* What they say, once read.                                               *)
LEMMA CodeAfter ==
  ASSUME NEW k \in Kbd!AllKeys, NEW byte \in Nat, NEW s \in Seq(Nat), NEW down, NEW c \in Kbd!Codes
  PROVE  /\ Code(k, byte) \in Seq(Nat)
         /\ DownAfter(down, s \o Code(k, byte), c)
              <=> byte = c \/ (byte # c + 128 /\ (k[2] => c # 96) /\ DownAfter(down, s, c))
<1>1. c \in 1 .. 96 /\ Kbd!Prefix = 224 /\ 224 # c /\ (224 = c + 128 <=> c = 96)
  <2>1. c \in 1 .. 96
    BY CodeFacts
  <2> QED BY <2>1 DEF Kbd!Prefix
<1>2. CASE k[2]
  <2>1. Code(k, byte) = <<224, byte>> /\ 224 \in Nat
    BY <1>1, <1>2 DEF Code
  <2>2. DownAfter(down, s \o <<224, byte>>, c)
           <=> byte = c \/ (byte # c + 128 /\ (224 = c \/ (224 # c + 128 /\ DownAfter(down, s, c))))
    BY <1>1, <2>1, TwoMore
  <2> QED BY <1>1, <1>2, <2>1, <2>2
<1>3. CASE ~ k[2]
  <2>1. Code(k, byte) = <<byte>>
    BY <1>3 DEF Code
  <2>2. DownAfter(down, s \o <<byte>>, c) <=> byte = c \/ (byte # c + 128 /\ DownAfter(down, s, c))
    BY <1>1, OneMore
  <2> QED BY <1>3, <2>1, <2>2
<1> QED BY <1>2, <1>3

(* A fake shift changes the shift only, if one is sent.                     *)
LEMMA FakeAfter ==
  ASSUME NEW k \in Kbd!AllKeys, NEW byte, Fakes(k) => byte \in Nat,
         NEW s \in Seq(Nat), NEW down, NEW c \in Kbd!Codes
  PROVE  /\ Kbd!Fake(k, byte) \in Seq(Nat)
         /\ DownAfter(down, s \o Kbd!Fake(k, byte), c)
              <=> IF Fakes(k) THEN byte = c \/ (byte # c + 128 /\ c # 96 /\ DownAfter(down, s, c))
                  ELSE DownAfter(down, s, c)
<1>1. CASE Fakes(k)
  <2>1. k[2] /\ Kbd!Fake(k, byte) = Code(k, byte)
    BY <1>1 DEF Fakes, Kbd!Fake, Code
  <2> QED BY <1>1, <2>1, CodeAfter
<1>2. CASE ~ Fakes(k)
  <2>1. Kbd!Fake(k, byte) = <<>>
    BY <1>2 DEF Fakes, Kbd!Fake
  <2> QED BY <1>2, <2>1, ConcatEmptySeq
<1> QED BY <1>1, <1>2

(* Bytes of the device are bytes.                                          *)
LEMMA CodeBytes ==
  ASSUME NEW k \in Kbd!AllKeys, NEW byte \in Bytes
  PROVE  Code(k, byte) \in Seq(Bytes)
<1>1. Kbd!Prefix \in Bytes
  BY CodeFacts DEF Bytes
<1> QED BY <1>1 DEF Code

(* A key that is down has a code that is not the prefix's.                 *)
LEMMA DownCode ==
  ASSUME KeyTypes, NEW c, Kbd!Down(c)
  PROVE  c \in Kbd!Codes /\ c \in 1 .. 95 /\ c # 96
<1>1. PICK k \in held : k[1] = c
  BY DEF Kbd!Down
<1>2. k \in Kbd!AllKeys
  BY DEF KeyTypes
<1>3. c \in Kbd!Codes /\ c \in 1 .. 95
  <2>1. k[1] \in Kbd!Codes /\ k[1] \in 1 .. 95
    BY <1>2, CodeFacts, Zenon
  <2> QED BY <1>1, <2>1
<1> QED BY <1>3

(* A code is a byte, and so is that of its release.                        *)
LEMMA CodeByte ==
  ASSUME NEW a \in Kbd!Codes, a \in 1 .. 95
  PROVE  /\ a \in Bytes /\ a \in Nat /\ ~ a > 128
         /\ a + 128 \in Bytes /\ a + 128 \in Nat /\ a + 128 > 128
<1>1. a \in Nat /\ a + 128 \in Nat /\ (a + 128) - 128 = a /\ a + 128 > 128 /\ ~ a > 128
  OBVIOUS
<1> QED BY <1>1 DEF Bytes

(* Both bytes of a key.                                                    *)
LEMMA KeyCode ==
  ASSUME NEW k \in Kbd!AllKeys
  PROVE  /\ k[1] \in Kbd!Codes /\ k[1] \in 1 .. 95
         /\ k[1] \in Bytes /\ k[1] \in Nat /\ ~ k[1] > 128
         /\ k[1] + 128 \in Bytes /\ k[1] + 128 \in Nat /\ k[1] + 128 > 128
<1>1. k[1] \in Kbd!Codes /\ k[1] \in 1 .. 95
  BY CodeFacts, Zenon
<1> DEFINE a == k[1]
<1> HIDE DEF a
<1>2. a \in Kbd!Codes /\ a \in 1 .. 95
  BY <1>1 DEF a
<1>3. /\ a \in Bytes /\ a \in Nat /\ ~ a > 128
      /\ a + 128 \in Bytes /\ a + 128 \in Nat /\ a + 128 > 128
  BY <1>2, CodeByte
<1> QED BY <1>1, <1>3 DEF a

(* A fake shift is sent for a left shift whose code fits, and is not that  *)
(* of the cursor key.                                                      *)
LEMMA FakeBytes ==
  ASSUME KeyTypes, NEW k \in Kbd!AllKeys, Fakes(k)
  PROVE  /\ k[2] /\ LeftShift \in 1 .. 95 /\ LeftShift \in Kbd!Codes
         /\ CodesApart => LeftShift # k[1]
         /\ LeftShift \in Bytes /\ LeftShift + 128 \in Bytes
         /\ Kbd!Fake(k, LeftShift) = Code(k, LeftShift)
         /\ Kbd!Fake(k, LeftShift + 128) = Code(k, LeftShift + 128)
<1> DEFINE shift == <<LeftShift, FALSE>>
<1>1. shift \in Kbd!AllKeys /\ shift[1] = LeftShift /\ ~ shift[2] /\ k[2] /\ k[1] \in Cursor
  BY DEF KeyTypes, Fakes
<1>2. LeftShift \in Kbd!Codes /\ LeftShift \in 1 .. 95 /\ LeftShift \in Keys /\ k[1] \in Extended
  <2> HIDE DEF shift
  <2>1. shift[1] \in Kbd!Codes /\ shift[1] \in 1 .. 95 /\ shift[1] \in Keys
    BY <1>1, CodeFacts, Zenon
  <2>2. k[1] \in Extended
    BY <1>1, CodeFacts, Zenon
  <2> QED BY <1>1, <2>1, <2>2
<1>3. CodesApart => LeftShift # k[1]
  BY <1>2 DEF CodesApart
<1>4. LeftShift \in Bytes /\ LeftShift + 128 \in Bytes
  BY <1>2, CodeByte
<1> QED BY <1>1, <1>2, <1>3, <1>4 DEF Fakes, Kbd!Fake, Code

(* What the driver will believe is a matter of the bytes on their way.     *)
LEMMA Belief ==
  ASSUME NEW c
  PROVE  /\ Kbd!Believed(c) <=> DownAfter(keydown[c], Kbd!InFlight, c)
         /\ Kbd!Believed(c)' <=> DownAfter(keydown'[c], Kbd!InFlight', c)
BY DEF Kbd!Believed, DownAfter

(* A key is pressed, or repeats.                                           *)
LEMMA PressKnown ==
  ASSUME KeyInv, NEW k \in Kbd!AllKeys, Kbd!Send(k, k[1]), held' = held \union {k},
         UNCHANGED <<port, keydown>>
  PROVE  KeyInv'
<1> DEFINE Y == Kbd!Fake(k, LeftShift + 128)
           Z == Code(k, k[1])
           Still(c) == (k[2] => c # 96) /\ (Fakes(k) => c # LeftShift) /\ Kbd!Believed(c)
<1>1. k[1] \in Kbd!Codes /\ k[1] \in 1 .. 95 /\ k[1] \in Bytes /\ ~ k[1] > 128
  BY KeyCode
<1>2. fifo' = fifo \o (Y \o Z)
  BY <1>1 DEF Kbd!Send, Code
<1>3. Y \in Seq(Bytes) /\ Z \in Seq(Bytes)
  <2>1. Z \in Seq(Bytes)
    BY <1>1, CodeBytes
  <2>2. CASE Fakes(k)
    BY <2>1, <2>2, FakeBytes, CodeBytes DEF KeyInv
  <2>3. CASE ~ Fakes(k)
    <3>1. Y = <<>>
      BY <2>3 DEF Fakes, Kbd!Fake
    <3> HIDE DEF Y, Z
    <3> QED BY <2>1, <3>1
  <2> QED BY <2>2, <2>3
<1>4. Y \in Seq(Nat) /\ Z \in Seq(Nat)
  BY <1>3, SeqMonotonic DEF Bytes
<1>5. Kbd!InFlight \in Seq(Nat) /\ Kbd!InFlight' = (Kbd!InFlight \o Y) \o Z
  <2> HIDE DEF Y, Z
  <2> QED BY <1>2, <1>4, FlightGrows DEF KeyInv
<1>6. KeyTypes'
  <2>1. fifo' \in Seq(Bytes)
    <3> HIDE DEF Y, Z
    <3> QED BY <1>2, <1>3, ConcatProperties DEF KeyInv, KeyTypes
  <2> QED BY <2>1 DEF KeyInv, KeyTypes
<1>7. ASSUME NEW c \in Kbd!Codes
      PROVE  Kbd!Believed(c)' <=> c = k[1] \/ Still(c)
  <2>1. c \in 1 .. 96
    BY CodeFacts
  <2>2. Kbd!InFlight \o Y \in Seq(Nat)
    <3> HIDE DEF Y
    <3> QED BY <1>4, <1>5, ConcatProperties
  <2>3. DownAfter(keydown[c], (Kbd!InFlight \o Y) \o Z, c)
          <=> k[1] = c \/ (k[1] # c + 128 /\ (k[2] => c # 96) /\ DownAfter(keydown[c], Kbd!InFlight \o Y, c))
    <3> DEFINE byte == k[1]
               down == keydown[c]
               sent == Kbd!InFlight \o Y
    <3>1. byte \in Nat /\ sent \in Seq(Nat)
      <4>1. k[1] \in Nat
        BY <1>1
      <4> HIDE DEF Y
      <4> QED BY <2>2, <4>1
    <3> HIDE DEF byte, down, sent
    <3>2. DownAfter(down, sent \o Code(k, byte), c)
            <=> byte = c \/ (byte # c + 128 /\ (k[2] => c # 96) /\ DownAfter(down, sent, c))
      BY <3>1, CodeAfter
    <3> QED BY <3>2 DEF byte, down, sent
  <2>4. DownAfter(keydown[c], Kbd!InFlight \o Y, c)
          <=> IF Fakes(k) THEN LeftShift + 128 = c \/ (LeftShift + 128 # c + 128 /\ c # 96
                                                       /\ DownAfter(keydown[c], Kbd!InFlight, c))
              ELSE DownAfter(keydown[c], Kbd!InFlight, c)
    <3>1. Fakes(k) => LeftShift + 128 \in Nat
      BY FakeBytes DEF KeyInv, Bytes
    <3> QED BY <1>5, <3>1, FakeAfter
  <2>5. Fakes(k) => k[2] /\ LeftShift \in 1 .. 95
    BY FakeBytes DEF KeyInv
  <2>6. /\ Kbd!Believed(c) <=> DownAfter(keydown[c], Kbd!InFlight, c)
        /\ Kbd!Believed(c)' <=> DownAfter(keydown[c], (Kbd!InFlight \o Y) \o Z, c)
    BY <1>5, Belief
  <2> HIDE DEF Y, Z
  <2> QED BY <1>1, <2>1, <2>3, <2>4, <2>5, <2>6
<1>8. (Faked => Faked') /\ (Fakes(k) => Faked')
  BY DEF Faked, Fakes
<1>9. \A c \in Kbd!Codes : Kbd!Down(c)' <=> Kbd!Down(c) \/ c = k[1]
  BY DEF Kbd!Down
<1>10. \A c \in Kbd!Codes : Kbd!Down(c) => c # 96
  BY DownCode DEF KeyInv
<1>11. Knows'
  <2> SUFFICES ASSUME NEW c \in Kbd!Codes
               PROVE  /\ Kbd!Believed(c)' => Kbd!Down(c)'
                      /\ Kbd!Down(c)' => Kbd!Believed(c)' \/ (c = LeftShift /\ Faked')
    BY DEF Knows, Kbd!Codes
  <2>1. /\ Kbd!Believed(c) => Kbd!Down(c)
        /\ Kbd!Down(c) => Kbd!Believed(c) \/ (c = LeftShift /\ Faked)
    BY DEF KeyInv, Knows
  <2> QED BY <1>7, <1>8, <1>9, <1>10, <2>1
<1> QED BY <1>6, <1>11 DEF KeyInv

(* A key is released.                                                      *)
LEMMA ReleaseKnown ==
  ASSUME KeyInv, CodesApart, NEW k \in held, Kbd!Send(k, k[1] + 128), held' = held \ {k},
         UNCHANGED <<port, keydown>>
  PROVE  KeyInv'
<1> DEFINE Y == Code(k, k[1] + 128)
           Z == Kbd!Fake(k, LeftShift)
           Still(c) == c # k[1] /\ (k[2] => c # 96) /\ Kbd!Believed(c)
<1>0. k \in Kbd!AllKeys
  BY DEF KeyInv, KeyTypes
<1>1. k[1] \in Kbd!Codes /\ k[1] \in 1 .. 95 /\ k[1] + 128 \in Bytes
      /\ k[1] + 128 \in Nat /\ k[1] + 128 > 128
  BY <1>0, KeyCode
<1>2. fifo' = fifo \o (Y \o Z)
  <2> DEFINE byte == k[1] + 128
  <2>1. Kbd!Send(k, byte) /\ byte > 128
    BY <1>1
  <2>2. Y = Code(k, byte)
    OBVIOUS
  <2> HIDE DEF byte, Y
  <2> QED BY <2>1, <2>2 DEF Kbd!Send, Code
<1>3. Y \in Seq(Bytes) /\ Z \in Seq(Bytes)
  <2>1. Y \in Seq(Bytes)
    BY <1>0, <1>1, CodeBytes
  <2>2. CASE Fakes(k)
    BY <1>0, <2>1, <2>2, FakeBytes, CodeBytes DEF KeyInv
  <2>3. CASE ~ Fakes(k)
    <3>1. Z = <<>>
      BY <2>3 DEF Fakes, Kbd!Fake
    <3> HIDE DEF Y, Z
    <3> QED BY <2>1, <3>1
  <2> QED BY <2>2, <2>3
<1>4. Y \in Seq(Nat) /\ Z \in Seq(Nat)
  BY <1>3, SeqMonotonic DEF Bytes
<1>5. Kbd!InFlight \in Seq(Nat) /\ Kbd!InFlight' = (Kbd!InFlight \o Y) \o Z
  <2> HIDE DEF Y, Z
  <2> QED BY <1>2, <1>4, FlightGrows DEF KeyInv
<1>6. KeyTypes'
  <2>1. fifo' \in Seq(Bytes)
    <3> HIDE DEF Y, Z
    <3> QED BY <1>2, <1>3, ConcatProperties DEF KeyInv, KeyTypes
  <2> QED BY <2>1 DEF KeyInv, KeyTypes
<1>7. ASSUME NEW c \in Kbd!Codes
      PROVE  Kbd!Believed(c)' <=> (Fakes(k) /\ c = LeftShift) \/ Still(c)
  <2>1. c \in 1 .. 96
    BY CodeFacts
  <2>2. Kbd!InFlight \o Y \in Seq(Nat)
    <3> HIDE DEF Y
    <3> QED BY <1>4, <1>5, ConcatProperties
  <2>3. DownAfter(keydown[c], Kbd!InFlight \o Y, c)
          <=> k[1] + 128 = c \/ (k[1] + 128 # c + 128 /\ (k[2] => c # 96)
                                 /\ DownAfter(keydown[c], Kbd!InFlight, c))
    <3> DEFINE byte == k[1] + 128
               down == keydown[c]
               sent == Kbd!InFlight
    <3>1. byte \in Nat /\ sent \in Seq(Nat)
      BY <1>1, <1>5
    <3> HIDE DEF byte, down, sent
    <3>2. DownAfter(down, sent \o Code(k, byte), c)
            <=> byte = c \/ (byte # c + 128 /\ (k[2] => c # 96) /\ DownAfter(down, sent, c))
      BY <1>0, <3>1, CodeAfter
    <3> QED BY <3>2 DEF byte, down, sent
  <2>4. DownAfter(keydown[c], (Kbd!InFlight \o Y) \o Z, c)
          <=> IF Fakes(k) THEN LeftShift = c \/ (LeftShift # c + 128 /\ c # 96
                                                 /\ DownAfter(keydown[c], Kbd!InFlight \o Y, c))
              ELSE DownAfter(keydown[c], Kbd!InFlight \o Y, c)
    <3>1. Fakes(k) => LeftShift \in Nat
      BY <1>0, FakeBytes DEF KeyInv, Bytes
    <3> HIDE DEF Y
    <3> QED BY <1>0, <2>2, <3>1, FakeAfter
  <2>5. Fakes(k) => k[2] /\ LeftShift \in 1 .. 95
    BY <1>0, FakeBytes DEF KeyInv
  <2>6. /\ Kbd!Believed(c) <=> DownAfter(keydown[c], Kbd!InFlight, c)
        /\ Kbd!Believed(c)' <=> DownAfter(keydown[c], (Kbd!InFlight \o Y) \o Z, c)
    BY <1>5, Belief
  <2> HIDE DEF Y, Z
  <2> QED BY <1>1, <2>1, <2>3, <2>4, <2>5, <2>6
<1>8. ASSUME NEW l \in held, l[1] = k[1] PROVE l = k
  <2>1. l \in Kbd!AllKeys
    BY DEF KeyInv, KeyTypes
  <2>2. CASE k[2] /\ l[2]
    BY <1>0, <1>8, <2>1, <2>2, CodeFacts
  <2>3. CASE ~ k[2] /\ ~ l[2]
    BY <1>0, <1>8, <2>1, <2>3, CodeFacts
  <2>4. CASE (k[2] /\ ~ l[2]) \/ (~ k[2] /\ l[2])
    BY <1>0, <1>8, <2>1, <2>4, CodeFacts DEF CodesApart
  <2> QED BY <2>2, <2>3, <2>4
<1>9. \A c \in Kbd!Codes : Kbd!Down(c)' <=> Kbd!Down(c) /\ c # k[1]
  BY <1>8 DEF Kbd!Down
<1>10. \A c \in Kbd!Codes : Kbd!Down(c) => c # 96
  BY DownCode DEF KeyInv
<1>11. Fakes(k) => LeftShift # k[1] /\ Kbd!Down(LeftShift)
  <2> SUFFICES ASSUME Fakes(k) PROVE LeftShift # k[1] /\ Kbd!Down(LeftShift)
    OBVIOUS
  <2>1. LeftShift # k[1]
    BY <1>0, FakeBytes DEF KeyInv
  <2>2. <<LeftShift, FALSE>> \in held /\ <<LeftShift, FALSE>>[1] = LeftShift
    BY DEF Fakes
  <2> QED BY <2>1, <2>2 DEF Kbd!Down
<1>12. Faked /\ ~ Fakes(k) /\ LeftShift # k[1] => Faked'
  <2> SUFFICES ASSUME Faked, ~ Fakes(k), LeftShift # k[1] PROVE Faked'
    OBVIOUS
  <2>1. PICK l \in held : l[2] /\ l[1] \in Cursor
    BY DEF Faked
  <2>2. l # k /\ <<LeftShift, FALSE>> \in held /\ <<LeftShift, FALSE>>[1] = LeftShift
    BY <2>1 DEF Faked, Fakes
  <2>3. l \in held' /\ <<LeftShift, FALSE>> \in held'
    BY <2>2
  <2> QED BY <2>1, <2>3 DEF Faked
<1>13. Knows'
  <2> SUFFICES ASSUME NEW c \in Kbd!Codes
               PROVE  /\ Kbd!Believed(c)' => Kbd!Down(c)'
                      /\ Kbd!Down(c)' => Kbd!Believed(c)' \/ (c = LeftShift /\ Faked')
    BY DEF Knows, Kbd!Codes
  <2>1. /\ Kbd!Believed(c) => Kbd!Down(c)
        /\ Kbd!Down(c) => Kbd!Believed(c) \/ (c = LeftShift /\ Faked)
    BY DEF KeyInv, Knows
  <2> QED BY <1>7, <1>9, <1>10, <1>11, <1>12, <2>1
<1> QED BY <1>6, <1>13 DEF KeyInv


(* What the driver knows stays, while keys and bytes on their way do.      *)
LEMMA StillKnows ==
  ASSUME KeyInv, UNCHANGED <<held, keydown>>, Kbd!InFlight' = Kbd!InFlight
  PROVE  Knows'
<1>1. Faked' <=> Faked
  BY DEF Faked
<1>2. \A c \in Kbd!Codes : Kbd!Down(c)' <=> Kbd!Down(c)
  BY DEF Kbd!Down
<1>3. \A c \in Kbd!Codes : Kbd!Believed(c)' <=> Kbd!Believed(c)
  BY Belief
<1> SUFFICES ASSUME NEW c \in Kbd!Codes
             PROVE  /\ Kbd!Believed(c)' => Kbd!Down(c)'
                    /\ Kbd!Down(c)' => Kbd!Believed(c)' \/ (c = LeftShift /\ Faked')
  BY DEF Knows, Kbd!Codes
<1> QED BY <1>1, <1>2, <1>3 DEF KeyInv, Knows

(* So it does when nothing of it all changes.                              *)
LEMMA KeyStutter ==
  ASSUME KeyInv, UNCHANGED <<held, fifo, port, keydown>>
  PROVE  KeyInv'
<1>1. Kbd!InFlight' = Kbd!InFlight
  BY DEF Kbd!InFlight
<1>2. Knows'
  BY <1>1, StillKnows
<1> QED BY <1>2 DEF KeyInv, KeyTypes

(* The controller takes a byte: the bytes on their way are the same.       *)
LEMMA FillKnown ==
  ASSUME KeyInv, Kbd!Fill
  PROVE  KeyInv'
<1>1. fifo \in Seq(Bytes) /\ fifo # <<>> /\ port = Nothing /\ Nothing \notin Nat
  BY CodeFacts DEF KeyInv, KeyTypes, Kbd!Fill
<1>2. port' = Head(fifo) /\ fifo' = Tail(fifo) /\ UNCHANGED <<held, keydown>>
  BY DEF Kbd!Fill, Kbd!driver
<1>3. Head(fifo) \in Bytes /\ Tail(fifo) \in Seq(Bytes) /\ <<Head(fifo)>> \o Tail(fifo) = fifo
  BY <1>1, HeadTailProperties
<1>4. port' # Nothing
  BY <1>1, <1>2, <1>3 DEF Bytes
<1>5. Kbd!InFlight' = Kbd!InFlight
  <2>1. Kbd!InFlight = <<>> \o fifo
    BY <1>1 DEF Kbd!InFlight
  <2>2. Kbd!InFlight' = <<port'>> \o fifo'
    BY <1>4, CodeFacts DEF Kbd!InFlight
  <2> QED BY <1>1, <1>2, <1>3, <2>1, <2>2, ConcatEmptySeq
<1>6. KeyTypes'
  BY <1>2, <1>3 DEF KeyInv, KeyTypes
<1>7. Knows'
  BY <1>2, <1>5, StillKnows
<1> QED BY <1>6, <1>7 DEF KeyInv

(* A byte is a code, or the release of one.                                *)
LEMMA ByteCases ==
  ASSUME NEW b \in Bytes
  PROVE  /\ b \in Nat
         /\ b > 128 => b - 128 \in Kbd!Codes
         /\ ~ b > 128 => b \in Kbd!Codes
<1>1. b \in Nat /\ (b \in Kbd!Codes \/ b - 128 \in Kbd!Codes)
  BY DEF Bytes
<1>2. b \in Kbd!Codes => b \in 1 .. 96
  BY CodeFacts
<1>3. b - 128 \in Kbd!Codes => b - 128 \in 1 .. 96
  BY CodeFacts
<1> QED BY <1>1, <1>2, <1>3

(* The driver reads the byte: it believes what it would have believed.     *)
LEMMA ReadKnown ==
  ASSUME KeyInv, Kbd!keyboard_interrupt_handler
  PROVE  KeyInv'
<1>1. port \in Bytes /\ port # Nothing /\ fifo \in Seq(Bytes) /\ keydown \in [Kbd!Codes -> BOOLEAN]
  BY DEF KeyInv, KeyTypes, Kbd!keyboard_interrupt_handler
<1>2. port' = Nothing /\ keydown' = Kbd!KeydownAfter(keydown, port) /\ UNCHANGED <<held, fifo>>
  BY DEF Kbd!keyboard_interrupt_handler
<1>3. /\ port \in Nat
      /\ port > 128 => port - 128 \in Kbd!Codes
      /\ ~ port > 128 => port \in Kbd!Codes
  BY <1>1, ByteCases
<1>4. fifo \in Seq(Nat)
  BY <1>1, SeqMonotonic DEF Bytes
<1>5. keydown' \in [Kbd!Codes -> BOOLEAN]
  BY <1>1, <1>2, <1>3 DEF Kbd!KeydownAfter, Kbd!IsRelease
<1>6. ASSUME NEW c \in Kbd!Codes
      PROVE  keydown'[c] <=> port = c \/ (port # c + 128 /\ keydown[c])
  <2>1. c \in 1 .. 96
    BY CodeFacts
  <2>2. CASE port > 128
    <3>1. keydown' = [keydown EXCEPT ![port - 128] = FALSE]
      BY <1>2, <2>2 DEF Kbd!KeydownAfter, Kbd!IsRelease
    <3>2. port # c /\ (port = c + 128 <=> port - 128 = c)
      BY <1>3, <2>1, <2>2
    <3> QED BY <1>1, <1>3, <2>2, <3>1, <3>2
  <2>3. CASE ~ port > 128
    <3>1. keydown' = [keydown EXCEPT ![port] = TRUE]
      BY <1>2, <2>3 DEF Kbd!KeydownAfter, Kbd!IsRelease
    <3>2. port # c + 128
      BY <1>3, <2>1, <2>3
    <3> QED BY <1>1, <1>3, <2>3, <3>1, <3>2
  <2> QED BY <2>2, <2>3
<1>7. Kbd!InFlight = <<port>> \o fifo /\ Kbd!InFlight' = fifo
  <2>1. Kbd!InFlight = <<port>> \o fifo
    BY <1>1 DEF Kbd!InFlight
  <2>2. Kbd!InFlight' = <<>> \o fifo
    BY <1>2 DEF Kbd!InFlight
  <2> QED BY <1>4, <2>1, <2>2, ConcatEmptySeq
<1>8. ASSUME NEW c \in Kbd!Codes
      PROVE  Kbd!Believed(c)' <=> Kbd!Believed(c)
  <2> DEFINE read == port = c \/ (port # c + 128 /\ keydown[c])
  <2>1. c \in Nat
    BY CodeFacts
  <2>2. Kbd!Believed(c) <=> DownAfter(keydown[c], <<port>> \o fifo, c)
    BY <1>7, Belief
  <2>3. DownAfter(keydown[c], <<port>> \o fifo, c) <=> DownAfter(read, fifo, c)
    BY <1>3, <1>4, <2>1, OneLess
  <2>4. Kbd!Believed(c)' <=> DownAfter(keydown'[c], fifo, c)
    BY <1>7, Belief
  <2>5. keydown'[c] <=> read
    BY <1>6
  <2> HIDE DEF read
  <2>6. DownAfter(keydown'[c], fifo, c) <=> DownAfter(read, fifo, c)
    BY <2>5 DEF DownAfter
  <2> QED BY <2>2, <2>3, <2>4, <2>6
<1>9. KeyTypes'
  BY <1>2, <1>5 DEF KeyInv, KeyTypes
<1>10. Knows'
  <2>1. Faked' <=> Faked
    BY <1>2 DEF Faked
  <2>2. \A c \in Kbd!Codes : Kbd!Down(c)' <=> Kbd!Down(c)
    BY <1>2 DEF Kbd!Down
  <2> SUFFICES ASSUME NEW c \in Kbd!Codes
               PROVE  /\ Kbd!Believed(c)' => Kbd!Down(c)'
                      /\ Kbd!Down(c)' => Kbd!Believed(c)' \/ (c = LeftShift /\ Faked')
    BY DEF Knows, Kbd!Codes
  <2> QED BY <1>8, <2>1, <2>2 DEF KeyInv, Knows
<1> QED BY <1>9, <1>10 DEF KeyInv

(* Every step of the device and the driver keeps the driver's knowledge.   *)
LEMMA KeyStep ==
  ASSUME KeyInv, CodesApart, Kbd!Next
  PROVE  KeyInv'
<1>1. CASE Kbd!User
  <2> SUFFICES ASSUME NEW k \in Kbd!AllKeys, Kbd!Press(k) \/ Kbd!Repeat(k) \/ Kbd!Release(k)
               PROVE  KeyInv'
    BY <1>1 DEF Kbd!User
  <2>1. CASE Kbd!Press(k)
    BY <2>1, PressKnown DEF Kbd!Press, Kbd!driver
  <2>2. CASE Kbd!Repeat(k)
    <3>1. Kbd!Send(k, k[1]) /\ held' = held \union {k} /\ UNCHANGED <<port, keydown>>
      BY <2>2 DEF Kbd!Repeat, Kbd!driver
    <3> QED BY <3>1, PressKnown
  <2>3. CASE Kbd!Release(k)
    BY <2>3, ReleaseKnown DEF Kbd!Release, Kbd!driver
  <2> QED BY <2>1, <2>2, <2>3
<1>2. CASE Kbd!Fill
  BY <1>2, FillKnown
<1>3. CASE Kbd!keyboard_interrupt_handler
  BY <1>3, ReadKnown
<1>4. CASE Kbd!assign_key_press_handler("handle_key_press")
  BY <1>4, KeyStutter DEF Kbd!assign_key_press_handler, Kbd!device
<1> QED BY <1>1, <1>2, <1>3, <1>4 DEF Kbd!Next

(* The steps of the other units leave the keyboard alone.                  *)
LEMMA KeyNext ==
  ASSUME KeyInv, CodesApart, [UnitsNext]_unitsVars
  PROVE  KeyInv'
<1>1. CASE Keyboard
  BY <1>1, KeyStep DEF Keyboard
<1>2. CASE UNCHANGED kbdVars
  BY <1>2, KeyStutter DEF kbdVars
<1> QED BY <1>1, <1>2 DEF UnitsNext, unitsVars, Calls, Steps, Clock, Itoa, Drawing

(* At the start nothing is down, on its way or believed.                   *)
LEMMA KeyStart == UnitsInit => KeyInv
<1> SUFFICES ASSUME UnitsInit PROVE KeyInv
  OBVIOUS
<1>1. held = {} /\ fifo = <<>> /\ port = Nothing /\ keydown = [c \in Kbd!Codes |-> FALSE]
  BY DEF UnitsInit, Kbd!Init
<1>2. KeyTypes
  BY <1>1 DEF KeyTypes
<1>3. Kbd!InFlight = <<>> /\ Len(<<>>) = 0
  BY <1>1 DEF Kbd!InFlight
<1>4. \A c \in Kbd!Codes : ~ Kbd!Believed(c) /\ ~ Kbd!Down(c)
  BY <1>1, <1>3 DEF Kbd!Believed, Kbd!Down
<1> QED BY <1>2, <1>4 DEF KeyInv, Knows

(* When no extended key in use shares its code with another, the codes the *)
(* driver will believe to be down are those of the keys that are down: all *)
(* of them but, while a cursor key is, a left shift.                       *)
THEOREM KeysKnown == CodesApart => (UnitsSpec => []KeydownTracksHeld)
<1> SUFFICES ASSUME CodesApart PROVE UnitsSpec => []KeydownTracksHeld
  OBVIOUS
<1>1. UnitsInit => KeyInv
  BY KeyStart
<1>2. KeyInv /\ [UnitsNext]_unitsVars => KeyInv'
  BY KeyNext
<1>3. KeyInv => KeydownTracksHeld
  BY DEF KeyInv, Knows, Faked, KeydownTracksHeld, Kbd!KeydownTracksHeld, Kbd!MaybeFaked
<1> QED BY <1>1, <1>2, <1>3, PTL DEF UnitsSpec
-----------------------------------------------------------------------------
(* The console, assignment by assignment                                   *)

(* A console's variables, and what a buffer holds.                         *)
Terminal(r, c, b, s) == [row |-> r, column |-> c, buffer |-> b, stray |-> s]
Buffers   == [Cells -> Glyphs]
Strays    == SUBSET {"below", "past"}
Terminals == [row : Nat, column : Nat, buffer : Buffers, stray : Strays]

(* What a write leaves of the buffer and the strays, and what a scroll.    *)
Wrote(b, i, g)  == IF i \in Cells THEN [b EXCEPT ![i] = g] ELSE b
Strayed(s, i)   == IF i \in Cells THEN s
                   ELSE s \union {IF 2 * i > SIZE_MOD THEN "below" ELSE "past"}
Scrolled(b)     == [i \in Cells |-> IF i + VGA_WIDTH \in Cells THEN b[i + VGA_WIDTH] ELSE Space]

(* The dimensions of the screen.                                           *)
LEMMA Dimensions ==
  /\ VGA_WIDTH \in Nat \ {0} /\ VGA_HEIGHT \in Nat \ {0} /\ SIZE_MOD \in Nat /\ MaxErased \in Nat
  /\ VGA_WIDTH * VGA_HEIGHT \in Nat /\ VGA_WIDTH * VGA_HEIGHT = VGA_HEIGHT * VGA_WIDTH
  /\ 2 * (VGA_WIDTH * VGA_HEIGHT) + 2 * MaxErased < SIZE_MOD
  /\ VGA_WIDTH <= VGA_WIDTH * VGA_HEIGHT
  /\ Space \in Glyphs /\ Newline \notin Glyphs
<1>1. /\ VGA_WIDTH \in Nat \ {0} /\ VGA_HEIGHT \in Nat \ {0} /\ SIZE_MOD \in Nat /\ MaxErased \in Nat
      /\ SIZE_MOD > 2 * (VGA_WIDTH * VGA_HEIGHT + MaxErased)
      /\ Space \in Glyphs /\ Newline \notin Glyphs
  BY UnitsAssumption DEF VgaTextAssumption
<1>2. VGA_WIDTH * VGA_HEIGHT \in Nat /\ VGA_WIDTH * VGA_HEIGHT = VGA_HEIGHT * VGA_WIDTH
  BY <1>1
<1>3. VGA_WIDTH <= VGA_WIDTH * VGA_HEIGHT
  BY <1>1
<1> QED BY <1>1, <1>2, <1>3

(* A terminal is made of its four fields, and determined by them.          *)
LEMMA Fields ==
  ASSUME NEW t \in Terminals
  PROVE  /\ t.row \in Nat /\ t.column \in Nat /\ t.buffer \in Buffers /\ t.stray \in Strays
         /\ t = Terminal(t.row, t.column, t.buffer, t.stray)
BY DEF Terminal, Terminals

(* And its fields are what it is made of.                                  *)
LEMMA Parts ==
  ASSUME NEW r \in Nat, NEW c \in Nat, NEW b \in Buffers, NEW s \in Strays
  PROVE  /\ Terminal(r, c, b, s) \in Terminals
         /\ Terminal(r, c, b, s).row = r /\ Terminal(r, c, b, s).column = c
         /\ Terminal(r, c, b, s).buffer = b /\ Terminal(r, c, b, s).stray = s
BY DEF Terminal, Terminals

(* size_t holds a natural number.                                          *)
LEMMA SizeTs == ASSUME NEW n \in Int PROVE SizeT(n) \in Nat /\ SizeT(n) < SIZE_MOD
<1>1. SIZE_MOD \in Nat \ {0}
  BY Dimensions
<1> QED BY <1>1 DEF SizeT

(* Buffers stay buffers.                                                   *)
LEMMA BufferTypes ==
  ASSUME NEW b \in Buffers, NEW s \in Strays, NEW i, NEW g \in Glyphs
  PROVE  Wrote(b, i, g) \in Buffers /\ Strayed(s, i) \in Strays /\ Scrolled(b) \in Buffers
<1>1. Wrote(b, i, g) \in Buffers
  BY DEF Wrote, Buffers
<1>2. Strayed(s, i) \in Strays
  BY DEF Strayed, Strays
<1>3. Scrolled(b) \in Buffers
  BY Dimensions DEF Scrolled, Buffers
<1> QED BY <1>1, <1>2, <1>3

(* An assignment to the row.                                               *)
SetRow(t, r) == [t EXCEPT !.row = r]
LEMMA IsSetRow ==
  ASSUME NEW t \in Terminals, NEW r \in Nat
  PROVE  SetRow(t, r) = Terminal(r, t.column, t.buffer, t.stray)
<1> DEFINE u == [t EXCEPT !.row = r]
<1>1. u \in Terminals /\ u = Terminal(u.row, u.column, u.buffer, u.stray)
  <2>1. u \in Terminals
    BY DEF Terminals
  <2> QED BY <2>1, Fields
<1>2. <<u.row, u.column, u.buffer, u.stray>> = <<r, t.column, t.buffer, t.stray>>
  BY DEF Terminals
<1> QED BY <1>1, <1>2 DEF SetRow

(* An assignment to the column.                                            *)
SetColumn(t, c) == [t EXCEPT !.column = c]
LEMMA IsSetColumn ==
  ASSUME NEW t \in Terminals, NEW c \in Nat
  PROVE  SetColumn(t, c) = Terminal(t.row, c, t.buffer, t.stray)
<1> DEFINE u == [t EXCEPT !.column = c]
<1>1. u \in Terminals /\ u = Terminal(u.row, u.column, u.buffer, u.stray)
  <2>1. u \in Terminals
    BY DEF Terminals
  <2> QED BY <2>1, Fields
<1>2. <<u.row, u.column, u.buffer, u.stray>> = <<t.row, c, t.buffer, t.stray>>
  BY DEF Terminals
<1> QED BY <1>1, <1>2 DEF SetColumn

(* Assignments to both.                                                    *)
SetRowColumn(t, r, c) == [t EXCEPT !.row = r, !.column = c]
LEMMA IsSetRowColumn ==
  ASSUME NEW t \in Terminals, NEW r \in Nat, NEW c \in Nat
  PROVE  SetRowColumn(t, r, c) = Terminal(r, c, t.buffer, t.stray)
<1> DEFINE u == [t EXCEPT !.row = r, !.column = c]
<1>1. u \in Terminals /\ u = Terminal(u.row, u.column, u.buffer, u.stray)
  <2>1. u \in Terminals
    BY DEF Terminals
  <2> QED BY <2>1, Fields
<1>2. <<u.row, u.column, u.buffer, u.stray>> = <<r, c, t.buffer, t.stray>>
  BY DEF Terminals
<1> QED BY <1>1, <1>2 DEF SetRowColumn

(* Assignments to the buffer.                                              *)
SetBuffer(t, b) == [t EXCEPT !.buffer = b]
LEMMA IsSetBuffer ==
  ASSUME NEW t \in Terminals, NEW b \in Buffers
  PROVE  SetBuffer(t, b) = Terminal(t.row, t.column, b, t.stray)
<1> DEFINE u == [t EXCEPT !.buffer = b]
<1>1. u \in Terminals /\ u = Terminal(u.row, u.column, u.buffer, u.stray)
  <2>1. u \in Terminals
    BY DEF Terminals
  <2> QED BY <2>1, Fields
<1>2. <<u.row, u.column, u.buffer, u.stray>> = <<t.row, t.column, b, t.stray>>
  BY DEF Terminals
<1> QED BY <1>1, <1>2 DEF SetBuffer

(* Assignments to the buffer and to the row.                               *)
SetBufferRow(t, b, r) == [t EXCEPT !.buffer = b, !.row = r]
LEMMA IsSetBufferRow ==
  ASSUME NEW t \in Terminals, NEW b \in Buffers, NEW r \in Nat
  PROVE  SetBufferRow(t, b, r) = Terminal(r, t.column, b, t.stray)
<1> DEFINE u == [t EXCEPT !.buffer = b, !.row = r]
<1>1. u \in Terminals /\ u = Terminal(u.row, u.column, u.buffer, u.stray)
  <2>1. u \in Terminals
    BY DEF Terminals
  <2> QED BY <2>1, Fields
<1>2. <<u.row, u.column, u.buffer, u.stray>> = <<r, t.column, b, t.stray>>
  BY DEF Terminals
<1> QED BY <1>1, <1>2 DEF SetBufferRow

(* One more stray write.                                                   *)
SetStray(t, s) == [t EXCEPT !.stray = s]
LEMMA IsSetStray ==
  ASSUME NEW t \in Terminals, NEW s \in Strays
  PROVE  SetStray(t, s) = Terminal(t.row, t.column, t.buffer, s)
<1> DEFINE u == [t EXCEPT !.stray = s]
<1>1. u \in Terminals /\ u = Terminal(u.row, u.column, u.buffer, u.stray)
  <2>1. u \in Terminals
    BY DEF Terminals
  <2> QED BY <2>1, Fields
<1>2. <<u.row, u.column, u.buffer, u.stray>> = <<t.row, t.column, t.buffer, s>>
  BY DEF Terminals
<1> QED BY <1>1, <1>2 DEF SetStray

(* A glyph is put into a cell, or strays.                                  *)
LEMMA PutIs ==
  ASSUME NEW t \in Terminals, NEW g \in Glyphs, NEW c \in Int, NEW r \in Int
  PROVE  putentryat(t, g, c, r) =
           Terminal(t.row, t.column, Wrote(t.buffer, SizeT(r * VGA_WIDTH + c), g),
                    Strayed(t.stray, SizeT(r * VGA_WIDTH + c)))
<1> DEFINE i == SizeT(r * VGA_WIDTH + c)
           b == Wrote(t.buffer, i, g)
           s == Strayed(t.stray, i)
<1>1. t.buffer \in Buffers /\ t.stray \in Strays /\ t.row \in Nat
  BY Fields
<1>2. b \in Buffers /\ s \in Strays
  BY <1>1, BufferTypes
<1>3. CASE i \in Cells
  <2>1. putentryat(t, g, c, r) = SetBuffer(t, b)
    BY <1>3 DEF putentryat, Wrote, SetBuffer
  <2>2. s = t.stray
    BY <1>3 DEF Strayed
  <2>3. putentryat(t, g, c, r) = Terminal(t.row, t.column, b, s)
    <3> HIDE DEF i, b, s
    <3> QED BY <1>1, <1>2, <2>1, <2>2, IsSetBuffer
  <2> QED BY <2>3
<1>4. CASE i \notin Cells
  <2>1. putentryat(t, g, c, r) = SetStray(t, s)
    BY <1>4 DEF putentryat, Strayed, SetStray
  <2>2. b = t.buffer
    BY <1>4 DEF Wrote
  <2>3. putentryat(t, g, c, r) = Terminal(t.row, t.column, b, s)
    <3> HIDE DEF i, b, s
    <3> QED BY <1>1, <1>2, <2>1, <2>2, IsSetStray
  <2> QED BY <2>3
<1> QED BY <1>3, <1>4

(* The next row, or the scroll at the bottom.                              *)
LEMMA NextRowIs ==
  ASSUME NEW t \in Terminals
  PROVE  next_row(t) = IF t.row + 1 = VGA_HEIGHT THEN Terminal(t.row, 0, Scrolled(t.buffer), t.stray)
                       ELSE Terminal(t.row + 1, 0, t.buffer, t.stray)
<1> DEFINE u == Terminal(t.row + 1, 0, t.buffer, t.stray)
           r == t.row
           m == r + 1
<1>1. r \in Nat /\ m \in Nat /\ m - 1 = r /\ t.buffer \in Buffers /\ t.stray \in Strays
  BY Fields
<1>2. u \in Terminals /\ u.row = m /\ u.column = 0 /\ u.buffer = t.buffer /\ u.stray = t.stray
  BY <1>1, Parts
<1>3. [t EXCEPT !.row = @ + 1, !.column = 0] = u
  <2>1. SetRowColumn(t, m, 0) = u
    BY <1>1, IsSetRowColumn
  <2> QED BY <2>1 DEF SetRowColumn
<1> HIDE DEF u
<1>4. move_up(u) = Terminal(r, 0, Scrolled(t.buffer), t.stray)
  <2> DEFINE b == Scrolled(t.buffer)
  <2>1. b \in Buffers
    BY <1>1, Dimensions, BufferTypes
  <2>2. move_up(u) = SetBufferRow(u, b, r)
    BY <1>1, <1>2 DEF move_up, Scrolled, SetBufferRow
  <2>3. SetBufferRow(u, b, r) = Terminal(r, u.column, b, u.stray)
    BY <1>1, <1>2, <2>1, IsSetBufferRow
  <2> QED BY <1>2, <2>2, <2>3
<1> QED BY <1>2, <1>3, <1>4 DEF next_row, AtBottom, u

(* Row r of the screen ends before the next begins, and within the buffer. *)
LEMMA RowEnds ==
  ASSUME NEW r \in 0 .. VGA_HEIGHT - 1
  PROVE  /\ r * VGA_WIDTH \in Nat /\ (r + 1) * VGA_WIDTH = r * VGA_WIDTH + VGA_WIDTH
         /\ r * VGA_WIDTH + VGA_WIDTH <= VGA_WIDTH * VGA_HEIGHT
         /\ r + 1 = VGA_HEIGHT => r * VGA_WIDTH + VGA_WIDTH = VGA_WIDTH * VGA_HEIGHT
<1>1. VGA_WIDTH \in Nat /\ VGA_HEIGHT \in Nat /\ VGA_WIDTH * VGA_HEIGHT = VGA_HEIGHT * VGA_WIDTH
  BY Dimensions
<1>2. r * VGA_WIDTH \in Nat /\ (r + 1) * VGA_WIDTH = r * VGA_WIDTH + VGA_WIDTH
  BY <1>1
<1>3. PICK d \in Nat : VGA_HEIGHT = (r + 1) + d
  <2>1. VGA_HEIGHT - (r + 1) \in Nat /\ VGA_HEIGHT = (r + 1) + (VGA_HEIGHT - (r + 1))
    BY <1>1
  <2> QED BY <2>1
<1>4. VGA_HEIGHT * VGA_WIDTH = (r + 1) * VGA_WIDTH + d * VGA_WIDTH /\ d * VGA_WIDTH \in Nat
  BY <1>1, <1>3
<1>5. r + 1 = VGA_HEIGHT => (r + 1) * VGA_WIDTH = VGA_HEIGHT * VGA_WIDTH
  OBVIOUS
<1> QED BY <1>1, <1>2, <1>4, <1>5

(* A remainder is the number itself, or the number plus the modulus.       *)
LEMMA Remainder ==
  ASSUME NEW n \in Int, NEW m \in Nat, -m <= n, n < m
  PROVE  n % m = IF n < 0 THEN n + m ELSE n
<1>1. m # 0
  OBVIOUS
<1> QED BY <1>1

(* So size_t keeps a number, or wraps it once.                             *)
LEMMA SizeTIs ==
  ASSUME NEW n \in Int, n >= 0 - SIZE_MOD, n < SIZE_MOD
  PROVE  SizeT(n) = IF n < 0 THEN n + SIZE_MOD ELSE n
<1>1. SIZE_MOD \in Nat /\ - SIZE_MOD <= n
  BY Dimensions
<1> QED BY <1>1, Remainder DEF SizeT

(* The column as the code keeps it and as a distance from the row's start. *)
Distances == - MaxErased .. VGA_WIDTH - 1

(* It steps on and back.                                                   *)
LEMMA ColumnSteps ==
  ASSUME NEW s \in Distances
  PROVE  /\ s \in Int
         /\ SizeT(s) = IF s < 0 THEN s + SIZE_MOD ELSE s
         /\ SizeT(SizeT(s) + 1) = SizeT(s + 1)
         /\ SizeT(SizeT(s) - 1) = SizeT(s - 1)
         /\ SizeT(s + 1) = VGA_WIDTH <=> s + 1 = VGA_WIDTH
<1> DEFINE w == VGA_WIDTH * VGA_HEIGHT
<1>1. /\ VGA_WIDTH \in Nat \ {0} /\ w \in Nat /\ SIZE_MOD \in Nat /\ MaxErased \in Nat
      /\ 2 * w + 2 * MaxErased < SIZE_MOD /\ VGA_WIDTH <= w
  BY Dimensions
<1>2. s \in Int /\ - MaxErased <= s /\ s <= VGA_WIDTH - 1
  BY <1>1 DEF Distances
<1> HIDE DEF w
<1>3. ASSUME NEW n \in Int, - MaxErased - 1 <= n, n <= VGA_WIDTH
      PROVE  SizeT(n) = IF n < 0 THEN n + SIZE_MOD ELSE n
  <2>1. n >= 0 - SIZE_MOD /\ n < SIZE_MOD
    BY <1>1, <1>3
  <2> QED BY <2>1, SizeTIs
<1>4. SizeT(s) = (IF s < 0 THEN s + SIZE_MOD ELSE s)
      /\ SizeT(s + 1) = (IF s + 1 < 0 THEN (s + 1) + SIZE_MOD ELSE s + 1)
      /\ SizeT(s - 1) = (IF s - 1 < 0 THEN (s - 1) + SIZE_MOD ELSE s - 1)
  BY <1>1, <1>2, <1>3
<1>5. CASE s >= 0
  <2>1. SizeT(s) = s
    BY <1>2, <1>4, <1>5
  <2> QED BY <1>1, <1>2, <1>4, <1>5, <2>1
<1>6. CASE s < 0
  <2>1. SizeT(s) = s + SIZE_MOD
    BY <1>2, <1>4, <1>6
  <2>2. SizeT(s) - 1 = (s - 1) + SIZE_MOD /\ SizeT((s - 1) + SIZE_MOD) = (s - 1) + SIZE_MOD
    <3> DEFINE n == (s - 1) + SIZE_MOD
    <3>1. n \in Int /\ n >= 0 - SIZE_MOD /\ n < SIZE_MOD /\ ~ n < 0 /\ SizeT(s) - 1 = n
      BY <1>1, <1>2, <1>6, <2>1
    <3> HIDE DEF n
    <3>2. SizeT(n) = n
      BY <3>1, SizeTIs
    <3> QED BY <3>1, <3>2 DEF n
  <2>3. CASE s = -1
    <3>1. SizeT(s) + 1 = SIZE_MOD /\ SizeT(SIZE_MOD) = 0 /\ s + 1 = 0
      BY <1>1, <2>1, <2>3 DEF SizeT
    <3> QED BY <1>1, <1>2, <1>4, <2>1, <2>2, <2>3, <3>1
  <2>4. CASE s < -1
    <3>1. SizeT(s) + 1 = (s + 1) + SIZE_MOD /\ SizeT((s + 1) + SIZE_MOD) = (s + 1) + SIZE_MOD
      <4> DEFINE n == (s + 1) + SIZE_MOD
      <4>1. n \in Int /\ n >= 0 - SIZE_MOD /\ n < SIZE_MOD /\ ~ n < 0 /\ SizeT(s) + 1 = n
        BY <1>1, <1>2, <2>1, <2>4
      <4> HIDE DEF n
      <4>2. SizeT(n) = n
        BY <4>1, SizeTIs
      <4> QED BY <4>1, <4>2 DEF n
    <3> QED BY <1>1, <1>2, <1>4, <2>1, <2>2, <2>4, <3>1
  <2> QED BY <1>2, <1>6, <2>3, <2>4
<1> QED BY <1>2, <1>5, <1>6

(* The index of a point: its cell, unless it lies before the buffer.       *)
LEMMA Index ==
  ASSUME NEW r \in 0 .. VGA_HEIGHT - 1, NEW s \in Distances
  PROVE  LET p == r * VGA_WIDTH + s
         IN  /\ p \in Int /\ p < VGA_WIDTH * VGA_HEIGHT
             /\ SizeT(r * VGA_WIDTH + SizeT(s)) \in Cells <=> p >= 0
             /\ p >= 0 => SizeT(r * VGA_WIDTH + SizeT(s)) = p
<1> DEFINE w == VGA_WIDTH * VGA_HEIGHT
           q == r * VGA_WIDTH
           p == q + s
<1>1. /\ VGA_WIDTH \in Nat \ {0} /\ w \in Nat /\ SIZE_MOD \in Nat /\ MaxErased \in Nat
      /\ 2 * w + 2 * MaxErased < SIZE_MOD /\ VGA_WIDTH <= w
  BY Dimensions
<1>2. s \in Int /\ - MaxErased <= s /\ s <= VGA_WIDTH - 1
  BY <1>1 DEF Distances
<1>3. q \in Nat /\ q + VGA_WIDTH <= w
  BY RowEnds
<1>4. SizeT(s) = IF s < 0 THEN s + SIZE_MOD ELSE s
  BY ColumnSteps
<1>5. Cells = 0 .. w - 1
  BY DEF Cells
<1> HIDE DEF w, q
<1>6. p \in Int /\ p < w /\ - MaxErased <= p
  BY <1>1, <1>2, <1>3
<1>7. CASE s >= 0
  <2>1. q + SizeT(s) = p /\ 0 <= p
    BY <1>2, <1>3, <1>4, <1>7
  <2>2. SizeT(p) = p
    BY <1>1, <1>6, <2>1, SizeTIs
  <2> QED BY <1>1, <1>5, <1>6, <2>1, <2>2 DEF w, q
<1>8. CASE s < 0
  <2>1. q + SizeT(s) = p + SIZE_MOD
    BY <1>1, <1>2, <1>3, <1>4, <1>8
  <2>2. CASE p < 0
    <3>1. SizeT(p + SIZE_MOD) = p + SIZE_MOD
      BY <1>1, <1>6, <2>2, SizeTIs
    <3>2. ~ p + SIZE_MOD <= w - 1
      BY <1>1, <1>6
    <3> QED BY <1>1, <1>5, <1>6, <2>1, <2>2, <3>1, <3>2 DEF w, q
  <2>3. CASE p >= 0
    <3>1. SizeT(p + SIZE_MOD) = p
      <4> DEFINE n == p + SIZE_MOD
      <4>1. p \in 0 .. SIZE_MOD - 1 /\ SIZE_MOD \in Nat \ {0} /\ n \in Nat /\ n = SIZE_MOD * 1 + p
        BY <1>1, <1>6, <2>3
      <4> HIDE DEF n, p
      <4>2. n % SIZE_MOD = p
        BY <4>1, OneQuotient
      <4> QED BY <4>2 DEF SizeT, n
    <3> QED BY <1>1, <1>5, <1>6, <2>1, <2>3, <3>1 DEF w, q
  <2> QED BY <1>6, <2>2, <2>3
<1> QED BY <1>2, <1>6, <1>7, <1>8 DEF w, q

(* What terminal_putchar does with a glyph, and with a newline.            *)
LEMMA PutCharIs ==
  ASSUME NEW t \in Terminals, NEW g \in Glyphs
  PROVE  /\ putchar(t, g) =
              IF SizeT(t.column + 1) = VGA_WIDTH THEN next_row(putentryat(t, g, t.column, t.row))
              ELSE [putentryat(t, g, t.column, t.row) EXCEPT !.column = SizeT(t.column + 1)]
         /\ putchar(t, Newline) = next_row(t)
<1>1. g # Newline
  BY Dimensions
<1> QED BY <1>1 DEF putchar, RowFull

(* And terminal_removelastchar: the branch to the row above is never taken.*)
LEMMA RemoveIs ==
  ASSUME NEW t \in Terminals
  PROVE  removelastchar(t) =
           IF t.row > 0 \/ t.column > 0
           THEN putentryat([t EXCEPT !.column = SizeT(t.column - 1)], Space, SizeT(t.column - 1), t.row)
           ELSE t
<1>1. t.column - 1 \in Int
  BY Fields
<1>2. SizeT(t.column - 1) \in Nat
  BY <1>1, SizeTs
<1> DEFINE c == SizeT(t.column - 1)
           u == [t EXCEPT !.column = c]
<1>3. c \in Nat /\ ~ c < 0
  BY <1>2
<1>4. u.column = c /\ u.row = t.row
  <2> HIDE DEF c
  <2> QED BY DEF Terminals
<1>5. removelastchar(t) = IF t.row > 0 \/ t.column > 0 THEN putentryat(u, Space, u.column, u.row) ELSE t
  BY <1>3 DEF removelastchar
<1> QED BY <1>4, <1>5

(* Between calls everything from the point on is blank.                    *)
Ahead(r, s, b) == \A i \in Cells : i >= r * VGA_WIDTH + s => b[i] = Space
Settled(t) ==
  /\ t \in Terminals /\ t.row \in 0 .. VGA_HEIGHT - 1
  /\ \E s \in Distances : t.column = SizeT(s) /\ Ahead(t.row, s, t.buffer)

(* The column of zero, in its row.                                         *)
LEMMA RowStart == 0 \in Distances /\ SizeT(0) = 0
<1>1. VGA_WIDTH \in Nat \ {0} /\ MaxErased \in Nat /\ 0 >= 0 - SIZE_MOD /\ 0 < SIZE_MOD
  BY Dimensions
<1> QED BY <1>1, SizeTIs DEF Distances

(* A new row is blank, if all that follows the row was.                    *)
LEMMA NextRowSettles ==
  ASSUME NEW t \in Terminals, t.row \in 0 .. VGA_HEIGHT - 1,
         \A i \in Cells : i >= t.row * VGA_WIDTH + VGA_WIDTH => t.buffer[i] = Space
  PROVE  Settled(next_row(t))
<1> DEFINE r == t.row
           b == t.buffer
           w == VGA_WIDTH * VGA_HEIGHT
<1>1. r \in Nat /\ b \in Buffers /\ t.stray \in Strays
  BY Fields
<1>2. /\ r * VGA_WIDTH \in Nat /\ (r + 1) * VGA_WIDTH = r * VGA_WIDTH + VGA_WIDTH
      /\ r + 1 = VGA_HEIGHT => r * VGA_WIDTH + VGA_WIDTH = w
  BY RowEnds
<1>3. VGA_WIDTH \in Nat /\ VGA_HEIGHT \in Nat /\ w \in Nat /\ Space \in Glyphs
  BY Dimensions
<1>4. CASE r + 1 = VGA_HEIGHT
  <2>1. next_row(t) = Terminal(r, 0, Scrolled(b), t.stray)
    BY <1>4, NextRowIs
  <2>2. Scrolled(b) \in Buffers
    BY <1>1, <1>3, BufferTypes
  <2>3. Ahead(r, 0, Scrolled(b))
    <3> SUFFICES ASSUME NEW i \in Cells, i >= r * VGA_WIDTH + 0 PROVE Scrolled(b)[i] = Space
      BY DEF Ahead
    <3>1. i \in Int /\ ~ i + VGA_WIDTH < w
      <4> DEFINE q == r * VGA_WIDTH
      <4>1. q \in Nat /\ q + VGA_WIDTH = w /\ i >= q /\ i \in Int
        BY <1>2, <1>3, <1>4 DEF Cells
      <4> HIDE DEF q, w
      <4> QED BY <1>3, <4>1
    <3>2. i + VGA_WIDTH \notin Cells
      BY <1>3, <3>1 DEF Cells
    <3> QED BY <3>2 DEF Scrolled
  <2> HIDE DEF b
  <2>4. /\ Terminal(r, 0, Scrolled(b), t.stray) \in Terminals
        /\ Terminal(r, 0, Scrolled(b), t.stray).row = r
        /\ Terminal(r, 0, Scrolled(b), t.stray).column = 0
        /\ Terminal(r, 0, Scrolled(b), t.stray).buffer = Scrolled(b)
    BY <1>1, <2>2, Parts
  <2> QED BY <2>1, <2>3, <2>4, RowStart DEF Settled
<1>5. CASE r + 1 # VGA_HEIGHT
  <2>1. next_row(t) = Terminal(r + 1, 0, b, t.stray)
    BY <1>5, NextRowIs
  <2>2. r + 1 \in 0 .. VGA_HEIGHT - 1 /\ r + 1 \in Nat
    BY <1>1, <1>3, <1>5
  <2>3. Ahead(r + 1, 0, b)
    <3>1. (r + 1) * VGA_WIDTH + 0 = r * VGA_WIDTH + VGA_WIDTH
      BY <1>2, <1>3
    <3> QED BY <3>1 DEF Ahead
  <2> DEFINE n == r + 1
  <2> HIDE DEF b, n
  <2>4. /\ Terminal(n, 0, b, t.stray) \in Terminals
        /\ Terminal(n, 0, b, t.stray).row = n
        /\ Terminal(n, 0, b, t.stray).column = 0
        /\ Terminal(n, 0, b, t.stray).buffer = b
    BY <1>1, <2>2, Parts DEF n
  <2> QED BY <2>1, <2>2, <2>3, <2>4, RowStart DEF Settled, n
<1> QED BY <1>4, <1>5

(* A point can be anywhere in the row, or left of it, for the next to be   *)
(* blank.                                                                  *)
LEMMA RowAhead ==
  ASSUME NEW r \in 0 .. VGA_HEIGHT - 1, NEW s \in Distances, NEW b, Ahead(r, s, b)
  PROVE  \A i \in Cells : i >= r * VGA_WIDTH + VGA_WIDTH => b[i] = Space
<1>1. r * VGA_WIDTH \in Nat /\ VGA_WIDTH \in Nat /\ MaxErased \in Nat /\ VGA_WIDTH * VGA_HEIGHT \in Nat
  BY RowEnds, Dimensions
<1>2. s \in Int /\ s < VGA_WIDTH
  BY <1>1 DEF Distances
<1> DEFINE q == r * VGA_WIDTH
<1>3. ASSUME NEW i \in Cells, i >= q + VGA_WIDTH PROVE i >= q + s
  <2>1. i \in Int /\ q \in Nat
    BY <1>1 DEF Cells
  <2> HIDE DEF q
  <2> QED BY <1>1, <1>2, <1>3, <2>1
<1> QED BY <1>3 DEF Ahead

(* A newline leaves what is ahead blank.                                   *)
LEMMA NewlineSettles ==
  ASSUME NEW t, Settled(t)
  PROVE  Settled(putchar(t, Newline))
<1>1. t \in Terminals /\ t.row \in 0 .. VGA_HEIGHT - 1
  BY DEF Settled
<1>2. \A i \in Cells : i >= t.row * VGA_WIDTH + VGA_WIDTH => t.buffer[i] = Space
  BY <1>1, RowAhead DEF Settled
<1>3. putchar(t, Newline) = next_row(t)
  BY <1>1, Dimensions, PutCharIs
<1> QED BY <1>1, <1>2, <1>3, NextRowSettles

(* A write at the point leaves all after it blank, and a blank the point   *)
(* as well.                                                                *)
LEMMA WroteAhead ==
  ASSUME NEW r \in 0 .. VGA_HEIGHT - 1, NEW s \in Distances, NEW b \in Buffers, NEW g \in Glyphs
  PROVE  /\ Ahead(r, s, b) => Ahead(r, s + 1, Wrote(b, SizeT(r * VGA_WIDTH + SizeT(s)), g))
         /\ Ahead(r, s + 1, b) => Ahead(r, s, Wrote(b, SizeT(r * VGA_WIDTH + SizeT(s)), Space))
<1> DEFINE q == r * VGA_WIDTH
           n == SizeT(q + SizeT(s))
           p == q + s
<1>1. q \in Nat /\ s \in Int
  BY RowEnds, Dimensions DEF Distances
<1>2. (n \in Cells <=> p >= 0) /\ (p >= 0 => n = p)
  BY Index
<1>3. q + (s + 1) = p + 1 /\ p \in Int
  BY <1>1
<1>4. Cells \subseteq Nat
  BY DEF Cells
<1> HIDE DEF q, n
<1>5. ASSUME NEW i \in Cells, i >= p + 1, Ahead(r, s, b) PROVE Wrote(b, n, g)[i] = Space
  <2>1. i \in Nat /\ i >= q + s /\ i # p
    BY <1>1, <1>3, <1>4, <1>5
  <2>2. b[i] = Space
    BY <1>5, <2>1 DEF Ahead, q
  <2>3. n \in Cells => n # i
    BY <1>2, <2>1
  <2> QED BY <2>2, <2>3 DEF Wrote, Buffers
<1>6. ASSUME NEW i \in Cells, i >= p, Ahead(r, s + 1, b) PROVE Wrote(b, n, Space)[i] = Space
  <2>1. CASE i = p
    <3>1. i \in Nat /\ p >= 0
      BY <1>4, <2>1
    <3>2. n = i /\ n \in Cells
      BY <1>2, <2>1, <3>1
    <3> QED BY <3>2 DEF Wrote, Buffers
  <2>2. CASE i # p
    <3>1. i \in Nat /\ i >= q + (s + 1)
      BY <1>1, <1>3, <1>4, <1>6, <2>2
    <3>2. b[i] = Space
      BY <1>6, <3>1 DEF Ahead, q
    <3>3. n \in Cells => n # i
      BY <1>2, <2>2, <1>4
    <3> QED BY <3>2, <3>3 DEF Wrote, Buffers
  <2> QED BY <2>1, <2>2
<1>7. Ahead(r, s, b) => Ahead(r, s + 1, Wrote(b, n, g))
  BY <1>3, <1>5 DEF Ahead, q
<1>8. Ahead(r, s + 1, b) => Ahead(r, s, Wrote(b, n, Space))
  BY <1>6 DEF Ahead, q
<1> QED BY <1>7, <1>8 DEF n, q

(* A glyph leaves what is ahead blank.                                     *)
LEMMA PutSettles ==
  ASSUME NEW t, Settled(t), NEW g \in Glyphs
  PROVE  Settled(putchar(t, g))
<1>1. PICK s \in Distances : t.column = SizeT(s) /\ Ahead(t.row, s, t.buffer)
  BY DEF Settled
<1> DEFINE r == t.row
           n == SizeT(r * VGA_WIDTH + t.column)
           b == Wrote(t.buffer, n, g)
           d == Strayed(t.stray, n)
           u == putentryat(t, g, t.column, r)
           c == SizeT(t.column + 1)
<1>2. t \in Terminals /\ r \in 0 .. VGA_HEIGHT - 1
  BY DEF Settled
<1>3. r \in Nat /\ t.column \in Nat /\ t.buffer \in Buffers /\ t.stray \in Strays
  BY <1>2, Fields
<1>4. b \in Buffers /\ d \in Strays
  BY <1>3, BufferTypes
<1>5. u = Terminal(r, t.column, b, d)
  BY <1>2, <1>3, PutIs
<1>6. Ahead(r, s + 1, b)
  BY <1>1, <1>2, <1>3, WroteAhead
<1>7. /\ s \in Int /\ c = SizeT(s + 1)
      /\ c = VGA_WIDTH <=> s + 1 = VGA_WIDTH
  BY <1>1, ColumnSteps
<1>8. putchar(t, g) = IF c = VGA_WIDTH THEN next_row(u) ELSE [u EXCEPT !.column = c]
  BY <1>2, PutCharIs
<1>9. c \in Nat
  BY <1>3, SizeTs
<1> HIDE DEF b, d, u, c, n
<1>10. /\ u \in Terminals /\ u.row = r /\ u.column = t.column /\ u.buffer = b /\ u.stray = d
  BY <1>3, <1>4, <1>5, Parts
<1>11. CASE c = VGA_WIDTH
  <2>1. s + 1 = VGA_WIDTH
    BY <1>7, <1>11
  <2>2. \A i \in Cells : i >= u.row * VGA_WIDTH + VGA_WIDTH => u.buffer[i] = Space
    BY <1>6, <1>10, <2>1 DEF Ahead
  <2> QED BY <1>2, <1>8, <1>10, <1>11, <2>2, NextRowSettles
<1>12. CASE c # VGA_WIDTH
  <2>1. s + 1 \in Distances
    BY <1>1, <1>7, <1>12, Dimensions DEF Distances
  <2>2. SetColumn(u, c) = Terminal(r, c, b, d)
    BY <1>9, <1>10, IsSetColumn
  <2>3. putchar(t, g) = Terminal(r, c, b, d)
    BY <1>8, <1>12, <2>2 DEF SetColumn
  <2>4. /\ Terminal(r, c, b, d) \in Terminals /\ Terminal(r, c, b, d).row = r
        /\ Terminal(r, c, b, d).column = c /\ Terminal(r, c, b, d).buffer = b
    BY <1>3, <1>4, <1>9, Parts
  <2> QED BY <1>2, <1>6, <1>7, <2>1, <2>3, <2>4 DEF Settled
<1> QED BY <1>11, <1>12

(* How far the point is to the left of its row's start.                    *)
LEMMA ErasedIs ==
  ASSUME NEW t \in Terminals, NEW s \in Distances, t.column = SizeT(s)
  PROVE  Erased(t) = IF s < 0 THEN - s ELSE 0
<1>1. SizeT(s) = (IF s < 0 THEN s + SIZE_MOD ELSE s) /\ s \in Int
  BY ColumnSteps
<1> DEFINE w == VGA_WIDTH * VGA_HEIGHT
<1>2. /\ VGA_WIDTH \in Nat \ {0} /\ w \in Nat /\ SIZE_MOD \in Nat /\ MaxErased \in Nat
      /\ 2 * w + 2 * MaxErased < SIZE_MOD /\ VGA_WIDTH <= w
  BY Dimensions
<1>3. - MaxErased <= s /\ s <= VGA_WIDTH - 1
  BY <1>1, <1>2 DEF Distances
<1> HIDE DEF w
<1> QED BY <1>1, <1>2, <1>3 DEF Erased

(* An erasure leaves what is ahead blank.                                  *)
LEMMA EraseSettles ==
  ASSUME NEW t, Settled(t), Erased(t) < MaxErased
  PROVE  Settled(removelastchar(t))
<1>1. PICK s \in Distances : t.column = SizeT(s) /\ Ahead(t.row, s, t.buffer)
  BY DEF Settled
<1> DEFINE r == t.row
           c == SizeT(t.column - 1)
           n == SizeT(r * VGA_WIDTH + c)
           b == Wrote(t.buffer, n, Space)
           d == Strayed(t.stray, n)
           u == SetColumn(t, c)
<1>2. t \in Terminals /\ r \in 0 .. VGA_HEIGHT - 1 /\ Space \in Glyphs
  BY Dimensions DEF Settled
<1>3. r \in Nat /\ t.column \in Nat /\ t.buffer \in Buffers /\ t.stray \in Strays
  BY <1>2, Fields
<1>4. b \in Buffers /\ d \in Strays
  BY <1>2, <1>3, BufferTypes
<1>5. c \in Nat /\ c = SizeT(s - 1)
  BY <1>1, <1>3, SizeTs, ColumnSteps
<1>6. s - 1 \in Distances /\ (s - 1) + 1 = s
  <2>1. s \in Int /\ Erased(t) = (IF s < 0 THEN - s ELSE 0) /\ MaxErased \in Nat /\ VGA_WIDTH \in Nat
    BY <1>1, <1>2, ErasedIs, Dimensions DEF Distances
  <2> QED BY <1>1, <2>1 DEF Distances
<1>7. Ahead(r, s - 1, b)
  <2> DEFINE e == s - 1
  <2>1. e \in Distances /\ c = SizeT(e) /\ Ahead(r, e + 1, t.buffer)
    BY <1>1, <1>5, <1>6
  <2> HIDE DEF e
  <2>2. Ahead(r, e, Wrote(t.buffer, SizeT(r * VGA_WIDTH + SizeT(e)), Space))
    BY <1>2, <1>3, <2>1, WroteAhead
  <2> QED BY <2>1, <2>2 DEF e
<1>8. CASE t.row > 0 \/ t.column > 0
  <2>1. removelastchar(t) = putentryat(u, Space, c, r)
    BY <1>2, <1>8, RemoveIs DEF SetColumn
  <2>2. u = Terminal(r, c, t.buffer, t.stray)
    BY <1>2, <1>5, IsSetColumn
  <2> HIDE DEF u, c
  <2>3. u \in Terminals /\ u.row = r /\ u.column = c /\ u.buffer = t.buffer /\ u.stray = t.stray
    BY <1>3, <1>5, <2>2, Parts
  <2>4. putentryat(u, Space, c, r) = Terminal(r, c, b, d)
    BY <1>2, <1>3, <1>5, <2>3, PutIs
  <2> HIDE DEF b, d, n
  <2>5. /\ Terminal(r, c, b, d) \in Terminals /\ Terminal(r, c, b, d).row = r
        /\ Terminal(r, c, b, d).column = c /\ Terminal(r, c, b, d).buffer = b
    BY <1>3, <1>4, <1>5, Parts
  <2> QED BY <1>2, <1>5, <1>6, <1>7, <2>1, <2>4, <2>5 DEF Settled
<1>9. CASE ~ (t.row > 0 \/ t.column > 0)
  BY <1>2, <1>9, RemoveIs
<1> QED BY <1>8, <1>9

-----------------------------------------------------------------------------
(* Each assignment brings the console nearer to what the call makes of it. *)

(* The steps are about the same functions.                                 *)
LEMMA OneConsole ==
  /\ Stp!Vga!Cells = Cells /\ Stp!Vga!terminal_initialize = terminal_initialize
  /\ \A t, c : Stp!Vga!putchar(t, c) = putchar(t, c)
  /\ \A t : Stp!Vga!removelastchar(t) = removelastchar(t) /\ Stp!Vga!Erased(t) = Erased(t)
  /\ \A t, g, c, r : Stp!Vga!putentryat(t, g, c, r) = putentryat(t, g, c, r)
  /\ \A n : Stp!Vga!SizeT(n) = SizeT(n)
<1>1. Stp!Vga!Cells = Cells /\ \A n : Stp!Vga!SizeT(n) = SizeT(n)
  BY DEF Stp!Vga!Cells, Cells, Stp!Vga!SizeT, SizeT
<1>2. \A t, g, c, r : Stp!Vga!putentryat(t, g, c, r) = putentryat(t, g, c, r)
  BY <1>1 DEF Stp!Vga!putentryat, putentryat
<1>3. \A t : Stp!Vga!move_up(t) = move_up(t)
  BY <1>1 DEF Stp!Vga!move_up, move_up
<1>4. \A t : Stp!Vga!next_row(t) = next_row(t)
  BY <1>3 DEF Stp!Vga!next_row, next_row, Stp!Vga!AtBottom, AtBottom
<1>5. \A t, c : Stp!Vga!putchar(t, c) = putchar(t, c)
  BY <1>1, <1>2, <1>4 DEF Stp!Vga!putchar, putchar, Stp!Vga!RowFull, RowFull
<1>6. \A t : Stp!Vga!removelastchar(t) = removelastchar(t)
  BY <1>1, <1>2 DEF Stp!Vga!removelastchar, removelastchar
<1>7. \A t : Stp!Vga!Erased(t) = Erased(t)
  BY DEF Stp!Vga!Erased, Erased
<1>8. Stp!Vga!terminal_initialize = terminal_initialize
  BY <1>1 DEF Stp!Vga!terminal_initialize, terminal_initialize
<1> QED BY <1>1, <1>2, <1>5, <1>6, <1>7, <1>8

(* What is left to do, from each place, to reach the goal.                 *)
Bottomed(t) == IF t.row = VGA_HEIGHT THEN move_up(t) ELSE t
Advanced(t) == IF SizeT(t.column + 1) = VGA_WIDTH THEN next_row(t) ELSE SetColumn(t, SizeT(t.column + 1))
Copied(b, n) ==
  [i \in Cells |-> IF i \div VGA_WIDTH < n THEN b[i] ELSE Scrolled(b)[i]]
Ongoing ==
  /\ label = "idle"   => goal = stepTerm
  /\ label = "put"    => arg \in Glyphs /\ goal = putchar(stepTerm, arg)
  /\ label = "column" => goal = Advanced(stepTerm)
  /\ label = "wrap"   => goal = next_row(stepTerm)
  /\ label = "row"    => goal = next_row(stepTerm) /\ stepTerm.column = 0
  /\ label = "newline row"    => goal = next_row(stepTerm)
  /\ label = "newline column" => goal = Bottomed(SetColumn(stepTerm, 0))
  /\ label = "copy"   => /\ stepTerm.row = VGA_HEIGHT
                         /\ goal = Terminal(VGA_HEIGHT - 1, stepTerm.column,
                                            Copied(stepTerm.buffer, y - 1), stepTerm.stray)
  /\ label = "dec"    => /\ stepTerm.row = VGA_HEIGHT
                         /\ goal = SetRow(stepTerm, VGA_HEIGHT - 1)
  /\ label = "erase"  => /\ stepTerm.row > 0 \/ stepTerm.column > 0
                         /\ goal = removelastchar(stepTerm)
  /\ label = "erased" => goal = putentryat(stepTerm, Space, stepTerm.column, stepTerm.row)

StepInv ==
  /\ label \in {"idle", "put", "column", "wrap", "row", "newline row", "newline column",
                "copy", "dec", "erase", "erased", "halted"}
  /\ label # "halted" =>
       /\ stepTerm \in Terminals /\ Settled(goal) /\ Ongoing
       /\ y \in 1 .. VGA_HEIGHT /\ (label # "copy" => y = 1)

(* A buffer's rows.                                                        *)
LEMMA RowOf ==
  ASSUME NEW i \in Cells
  PROVE  /\ i \in Nat /\ i \div VGA_WIDTH \in 0 .. VGA_HEIGHT - 1
         /\ i + VGA_WIDTH \in Cells <=> i \div VGA_WIDTH < VGA_HEIGHT - 1
         /\ (i + VGA_WIDTH) \div VGA_WIDTH = i \div VGA_WIDTH + 1
<1> DEFINE d == i \div VGA_WIDTH
           e == i % VGA_WIDTH
           w == VGA_WIDTH * VGA_HEIGHT
<1>1. VGA_WIDTH \in Nat \ {0} /\ VGA_HEIGHT \in Nat \ {0} /\ w \in Nat
  BY Dimensions
<1>2. i \in Nat /\ i < w /\ Cells = 0 .. w - 1
  BY <1>1 DEF Cells
<1>3. d \in Nat /\ e \in 0 .. VGA_WIDTH - 1 /\ i = VGA_WIDTH * d + e
  BY <1>1, <1>2, Quotients
<1> HIDE DEF d, e
<1>4. VGA_WIDTH * d \in Nat /\ VGA_WIDTH * (d + 1) = VGA_WIDTH * d + VGA_WIDTH
      /\ VGA_WIDTH * (d + 2) = VGA_WIDTH * d + 2 * VGA_WIDTH
  BY <1>1, <1>3
<1>5. d <= VGA_HEIGHT - 1
  <2> SUFFICES ASSUME VGA_HEIGHT <= d PROVE FALSE
    BY <1>1, <1>3
  <2>1. w <= VGA_WIDTH * d
    BY <1>1, <1>3, ProductOrder
  <2> HIDE DEF w
  <2> QED BY <1>1, <1>2, <1>3, <1>4, <2>1
<1>6. i + VGA_WIDTH < w <=> d < VGA_HEIGHT - 1
  <2>1. d < VGA_HEIGHT - 1 => VGA_WIDTH * (d + 2) <= w
    <3> SUFFICES ASSUME d < VGA_HEIGHT - 1 PROVE VGA_WIDTH * (d + 2) <= w
      OBVIOUS
    <3>1. d + 2 <= VGA_HEIGHT /\ d + 2 \in Nat
      BY <1>1, <1>3
    <3> QED BY <1>1, <3>1, ProductOrder
  <2>2. ~ d < VGA_HEIGHT - 1 => w <= VGA_WIDTH * (d + 1)
    <3> SUFFICES ASSUME ~ d < VGA_HEIGHT - 1 PROVE w <= VGA_WIDTH * (d + 1)
      OBVIOUS
    <3>1. VGA_HEIGHT <= d + 1 /\ d + 1 \in Nat
      BY <1>1, <1>3
    <3> QED BY <1>1, <3>1, ProductOrder
  <2> HIDE DEF w
  <2> QED BY <1>1, <1>2, <1>3, <1>4, <2>1, <2>2
<1>7. (i + VGA_WIDTH) \div VGA_WIDTH = d + 1
  <2> DEFINE n == i + VGA_WIDTH
             m == d + 1
  <2>1. n \in Nat /\ m \in Int /\ n = VGA_WIDTH * m + e
    BY <1>1, <1>2, <1>3, <1>4
  <2> HIDE DEF n, m
  <2>2. n \div VGA_WIDTH = m
    BY <1>1, <1>3, <2>1, OneQuotient
  <2> QED BY <2>2 DEF n, m
<1> HIDE DEF w
<1> QED BY <1>1, <1>2, <1>3, <1>5, <1>6, <1>7 DEF d

(* The next row, as its two assignments and the scroll they may call for.  *)
LEMMA NextRowParts ==
  ASSUME NEW t \in Terminals, NEW c \in Nat
  PROVE  /\ next_row(SetColumn(t, c)) = next_row(t)
         /\ SetColumn(t, c) \in Terminals
         /\ SetColumn(t, c).row = t.row /\ SetColumn(t, c).column = c
         /\ SetColumn(t, c).buffer = t.buffer /\ SetColumn(t, c).stray = t.stray
         /\ SetRow(t, t.row + 1) \in Terminals
         /\ SetRow(t, t.row + 1).row = t.row + 1 /\ SetRow(t, t.row + 1).column = t.column
         /\ SetRow(t, t.row + 1).buffer = t.buffer /\ SetRow(t, t.row + 1).stray = t.stray
         /\ next_row(t) = Bottomed(SetColumn(SetRow(t, t.row + 1), 0))
<1> DEFINE r == t.row
           n == r + 1
           b == t.buffer
           d == t.stray
           u == SetColumn(t, c)
           v == SetRow(t, n)
           x == SetColumn(v, 0)
<1>1. r \in Nat /\ n \in Nat /\ t.column \in Nat /\ b \in Buffers /\ d \in Strays
  BY Fields
<1>2. u = Terminal(r, c, b, d)
  BY IsSetColumn
<1>3. v = Terminal(n, t.column, b, d)
  BY <1>1, IsSetRow
<1> HIDE DEF u, v
<1>4. u \in Terminals /\ u.row = r /\ u.column = c /\ u.buffer = b /\ u.stray = d
  BY <1>1, <1>2, Parts
<1>5. v \in Terminals /\ v.row = n /\ v.column = t.column /\ v.buffer = b /\ v.stray = d
  BY <1>1, <1>3, Parts
<1>6. x = Terminal(n, 0, b, d)
  BY <1>5, IsSetColumn
<1>7. next_row(u) = next_row(t)
  BY <1>4, NextRowIs
<1>8. next_row(t) = Bottomed(x)
  <2> DEFINE z == SetRowColumn(t, n, 0)
  <2>1. z = x
    BY <1>1, <1>6, IsSetRowColumn
  <2>2. next_row(t) = Bottomed(z)
    BY DEF next_row, Bottomed, AtBottom, SetRowColumn
  <2> QED BY <2>1, <2>2
<1> HIDE DEF x
<1> QED BY <1>4, <1>5, <1>7, <1>8 DEF u, v, x

(* The column assigned again is the column assigned.                       *)
LEMMA SameColumn ==
  ASSUME NEW t \in Terminals
  PROVE  SetColumn(t, t.column) = t
BY Fields, IsSetColumn

(* What scrolling does, row by row: nothing is copied at first,            *)
LEMMA CopyStarts ==
  ASSUME NEW t \in Terminals, t.row = VGA_HEIGHT
  PROVE  move_up(t) = Terminal(VGA_HEIGHT - 1, t.column, Copied(t.buffer, 0), t.stray)
<1> DEFINE h == VGA_HEIGHT - 1
           b == Scrolled(t.buffer)
<1>1. h \in Nat /\ t.buffer \in Buffers /\ t.stray \in Strays
  BY Dimensions, Fields
<1>2. b \in Buffers
  BY <1>1, Dimensions, BufferTypes
<1>3. move_up(t) = SetBufferRow(t, b, h)
  BY DEF move_up, Scrolled, SetBufferRow
<1>4. SetBufferRow(t, b, h) = Terminal(h, t.column, b, t.stray)
  <2> HIDE DEF h, b
  <2> QED BY <1>1, <1>2, IsSetBufferRow
<1>5. Copied(t.buffer, 0) = b
  <2>1. \A i \in Cells : ~ i \div VGA_WIDTH < 0
    BY RowOf
  <2> QED BY <2>1 DEF Copied, Scrolled
<1> QED BY <1>3, <1>4, <1>5

(* one row more by each turn of the loop,                                  *)
LEMMA CopyGoesOn ==
  ASSUME NEW b \in Buffers, NEW n \in 1 .. VGA_HEIGHT - 1, NEW u,
         u = [i \in Cells |-> IF i \div VGA_WIDTH = n - 1 THEN b[i + VGA_WIDTH] ELSE b[i]]
  PROVE  u \in Buffers /\ Copied(u, n) = Copied(b, n - 1)
<1>1. VGA_WIDTH \in Nat /\ VGA_HEIGHT \in Nat /\ n \in Int
  BY Dimensions
<1>2. ASSUME NEW i \in Cells PROVE u[i] \in Glyphs
  <2>1. i \div VGA_WIDTH = n - 1 => i + VGA_WIDTH \in Cells
    BY <1>1, RowOf
  <2> QED BY <2>1 DEF Buffers
<1>3. u \in Buffers
  BY <1>2 DEF Buffers
<1>4. ASSUME NEW i \in Cells PROVE Copied(u, n)[i] = Copied(b, n - 1)[i]
  <2> DEFINE d == i \div VGA_WIDTH
             j == i + VGA_WIDTH
  <2>1. d \in Int /\ (j \in Cells <=> d < VGA_HEIGHT - 1) /\ j \div VGA_WIDTH = d + 1
    BY RowOf
  <2>2. /\ Copied(u, n)[i] = IF d < n THEN u[i] ELSE IF j \in Cells THEN u[j] ELSE Space
        /\ Copied(b, n - 1)[i] = IF d < n - 1 THEN b[i] ELSE IF j \in Cells THEN b[j] ELSE Space
    BY DEF Copied, Scrolled
  <2>3. u[i] = IF d = n - 1 THEN b[j] ELSE b[i]
    OBVIOUS
  <2>4. j \in Cells => u[j] = IF d + 1 = n - 1 THEN b[j + VGA_WIDTH] ELSE b[j]
    BY <2>1
  <2> HIDE DEF d, j
  <2> QED BY <1>1, <2>1, <2>2, <2>3, <2>4
<1>5. Copied(u, n) = Copied(b, n - 1)
  BY <1>4 DEF Copied
<1> QED BY <1>3, <1>5

(* and then the last row is blanked.                                       *)
LEMMA CopyEnds ==
  ASSUME NEW b \in Buffers
  PROVE  LET u == [i \in Cells |-> IF i \div VGA_WIDTH = VGA_HEIGHT - 1 THEN Space ELSE b[i]]
         IN  u \in Buffers /\ Copied(b, VGA_HEIGHT - 1) = u
<1>1. ASSUME NEW i \in Cells
      PROVE  Copied(b, VGA_HEIGHT - 1)[i] = IF i \div VGA_WIDTH = VGA_HEIGHT - 1 THEN Space ELSE b[i]
  <2> DEFINE d == i \div VGA_WIDTH
             j == i + VGA_WIDTH
  <2>1. d \in 0 .. VGA_HEIGHT - 1 /\ (j \in Cells <=> d < VGA_HEIGHT - 1)
    BY RowOf
  <2>2. Copied(b, VGA_HEIGHT - 1)[i] =
          IF d < VGA_HEIGHT - 1 THEN b[i] ELSE IF j \in Cells THEN b[j] ELSE Space
    BY DEF Copied, Scrolled
  <2>3. VGA_HEIGHT \in Nat
    BY Dimensions
  <2> HIDE DEF d, j
  <2>4. d < VGA_HEIGHT - 1 <=> d # VGA_HEIGHT - 1
    BY <2>1, <2>3
  <2> QED BY <2>1, <2>2, <2>4 DEF d
<1>2. [i \in Cells |-> IF i \div VGA_WIDTH = VGA_HEIGHT - 1 THEN Space ELSE b[i]] \in Buffers
  BY Dimensions DEF Buffers
<1> QED BY <1>1, <1>2 DEF Copied

(* A call begins.                                                          *)
LEMMA CallStep ==
  ASSUME StepInv, NEW c \in Glyphs \union {Newline}, Stp!Call(c)
  PROVE  StepInv'
<1>1. /\ label = "idle" /\ label' = IF c = Newline THEN "newline row" ELSE "put"
      /\ stepTerm' = stepTerm /\ arg' = c /\ goal' = putchar(stepTerm, c) /\ y' = y
  BY OneConsole DEF Stp!Call, Stp!Go
<1>2. stepTerm \in Terminals /\ Settled(stepTerm) /\ y = 1 /\ y \in 1 .. VGA_HEIGHT
  BY <1>1 DEF StepInv, Ongoing
<1>3. Settled(goal')
  BY <1>1, <1>2, PutSettles, NewlineSettles
<1>4. Ongoing'
  <2>1. CASE c = Newline
    <3>1. label' = "newline row" /\ goal' = next_row(stepTerm')
      BY <1>1, <1>2, <2>1, Dimensions, PutCharIs
    <3> QED BY <3>1 DEF Ongoing
  <2>2. CASE c # Newline
    <3>1. label' = "put" /\ arg' \in Glyphs /\ goal' = putchar(stepTerm', arg')
      BY <1>1, <2>2
    <3> QED BY <3>1 DEF Ongoing
  <2> QED BY <2>1, <2>2
<1>5. y' \in 1 .. VGA_HEIGHT /\ y' = 1
  BY <1>1, <1>2
<1>6. label' \in {"newline row", "put"} /\ stepTerm' \in Terminals
  BY <1>1, <1>2
<1> QED BY <1>3, <1>4, <1>5, <1>6 DEF StepInv

(* An erasure begins.                                                      *)
LEMMA EraseBegins ==
  ASSUME StepInv, Stp!Erase
  PROVE  StepInv'
<1>1. /\ label = "idle"
      /\ label' = IF stepTerm.row > 0 \/ stepTerm.column > 0 THEN "erase" ELSE "idle"
      /\ stepTerm' = stepTerm /\ goal' = removelastchar(stepTerm) /\ y' = y
      /\ Erased(stepTerm) < MaxErased
  BY OneConsole DEF Stp!Erase, Stp!Go
<1>2. stepTerm \in Terminals /\ Settled(stepTerm) /\ y = 1 /\ y \in 1 .. VGA_HEIGHT
  BY <1>1 DEF StepInv, Ongoing
<1>3. Settled(goal')
  BY <1>1, <1>2, EraseSettles
<1>4. Ongoing'
  <2>1. CASE stepTerm.row > 0 \/ stepTerm.column > 0
    <3>1. label' = "erase" /\ goal' = removelastchar(stepTerm')
          /\ (stepTerm'.row > 0 \/ stepTerm'.column > 0)
      BY <1>1, <2>1
    <3> QED BY <3>1 DEF Ongoing
  <2>2. CASE ~ (stepTerm.row > 0 \/ stepTerm.column > 0)
    <3>1. label' = "idle" /\ goal' = stepTerm'
      BY <1>1, <1>2, <2>2, RemoveIs
    <3> QED BY <3>1 DEF Ongoing
  <2> QED BY <2>1, <2>2
<1>5. y' \in 1 .. VGA_HEIGHT /\ y' = 1
  BY <1>1, <1>2
<1>6. label' \in {"erase", "idle"} /\ stepTerm' \in Terminals
  BY <1>1, <1>2
<1> QED BY <1>3, <1>4, <1>5, <1>6 DEF StepInv

(* A turn of move_up's loop.                                               *)
LEMMA CopyStep ==
  ASSUME StepInv, Stp!CopyRow
  PROVE  StepInv'
<1> DEFINE b == stepTerm.buffer
           u == [i \in Cells |-> IF i \div VGA_WIDTH = y - 1 THEN b[i + VGA_WIDTH] ELSE b[i]]
<1>1. /\ label = "copy" /\ label' = "copy" /\ y < VGA_HEIGHT /\ y' = y + 1 /\ goal' = goal
      /\ stepTerm' = SetBuffer(stepTerm, u)
  BY OneConsole DEF Stp!CopyRow, Stp!Go, SetBuffer
<1>2. /\ stepTerm \in Terminals /\ Settled(goal) /\ y \in 1 .. VGA_HEIGHT
      /\ stepTerm.row = VGA_HEIGHT
      /\ goal = Terminal(VGA_HEIGHT - 1, stepTerm.column, Copied(b, y - 1), stepTerm.stray)
  BY <1>1 DEF StepInv, Ongoing
<1>3. b \in Buffers /\ stepTerm.row \in Nat /\ stepTerm.column \in Nat /\ stepTerm.stray \in Strays
  BY <1>2, Fields
<1>4. y \in 1 .. VGA_HEIGHT - 1 /\ y + 1 \in 1 .. VGA_HEIGHT /\ (y + 1) - 1 = y
  BY <1>1, <1>2, Dimensions
<1>5. u \in Buffers /\ Copied(u, y) = Copied(b, y - 1)
  BY <1>3, <1>4, CopyGoesOn
<1> HIDE DEF b, u
<1>6. stepTerm' = Terminal(stepTerm.row, stepTerm.column, u, stepTerm.stray)
  BY <1>1, <1>2, <1>5, IsSetBuffer
<1>7. /\ stepTerm' \in Terminals /\ stepTerm'.row = stepTerm.row /\ stepTerm'.column = stepTerm.column
      /\ stepTerm'.buffer = u /\ stepTerm'.stray = stepTerm.stray
  BY <1>3, <1>5, <1>6, Parts
<1>8. goal' = Terminal(VGA_HEIGHT - 1, stepTerm'.column, Copied(stepTerm'.buffer, y' - 1), stepTerm'.stray)
  BY <1>1, <1>2, <1>4, <1>5, <1>7
<1>9. Ongoing'
  BY <1>1, <1>2, <1>7, <1>8 DEF Ongoing
<1> QED BY <1>1, <1>2, <1>4, <1>7, <1>9 DEF StepInv

(* The loop is over.                                                       *)
LEMMA BlankStep ==
  ASSUME StepInv, Stp!BlankRow
  PROVE  StepInv'
<1> DEFINE b == stepTerm.buffer
           u == [i \in Cells |-> IF i \div VGA_WIDTH = VGA_HEIGHT - 1 THEN Space ELSE b[i]]
<1>1. /\ label = "copy" /\ label' = "dec" /\ y = VGA_HEIGHT /\ y' = 1 /\ goal' = goal
      /\ stepTerm' = SetBuffer(stepTerm, u)
  BY OneConsole DEF Stp!BlankRow, Stp!Go, Stp!LastRow, SetBuffer
<1>2. /\ stepTerm \in Terminals /\ Settled(goal) /\ stepTerm.row = VGA_HEIGHT
      /\ goal = Terminal(VGA_HEIGHT - 1, stepTerm.column, Copied(b, VGA_HEIGHT - 1), stepTerm.stray)
  BY <1>1 DEF StepInv, Ongoing
<1>3. b \in Buffers /\ stepTerm.row \in Nat /\ stepTerm.column \in Nat /\ stepTerm.stray \in Strays
  BY <1>2, Fields
<1>4. u \in Buffers /\ Copied(b, VGA_HEIGHT - 1) = u
  BY <1>3, CopyEnds
<1> HIDE DEF b, u
<1>5. stepTerm' = Terminal(stepTerm.row, stepTerm.column, u, stepTerm.stray)
  BY <1>1, <1>2, <1>4, IsSetBuffer
<1>6. /\ stepTerm' \in Terminals /\ stepTerm'.row = stepTerm.row /\ stepTerm'.column = stepTerm.column
      /\ stepTerm'.buffer = u /\ stepTerm'.stray = stepTerm.stray
  BY <1>3, <1>4, <1>5, Parts
<1>7. goal' = SetRow(stepTerm', VGA_HEIGHT - 1)
  <2>1. VGA_HEIGHT - 1 \in Nat
    BY Dimensions
  <2>2. SetRow(stepTerm', VGA_HEIGHT - 1) = Terminal(VGA_HEIGHT - 1, stepTerm'.column, stepTerm'.buffer, stepTerm'.stray)
    BY <1>6, <2>1, IsSetRow
  <2> QED BY <1>1, <1>2, <1>4, <1>6, <2>2
<1>8. Ongoing'
  BY <1>1, <1>2, <1>6, <1>7 DEF Ongoing
<1>9. y' \in 1 .. VGA_HEIGHT
  BY <1>1, Dimensions
<1> QED BY <1>1, <1>2, <1>6, <1>8, <1>9 DEF StepInv

(* An assignment of terminal_putchar or terminal_removelastchar.           *)
LEMMA AssignStep ==
  ASSUME StepInv, Stp!Assign
  PROVE  StepInv'
<1> DEFINE t == stepTerm
           c == SizeT(t.column + 1)
           e == SizeT(t.column - 1)
<1>1. label # "halted" /\ UNCHANGED <<arg, y, goal>>
  BY DEF Stp!Assign, Stp!Go
<1>2. t \in Terminals /\ Settled(goal) /\ Ongoing /\ y \in 1 .. VGA_HEIGHT /\ (label # "copy" => y = 1)
  BY <1>1 DEF StepInv
<1>3. t.row \in Nat /\ t.column \in Nat /\ t.buffer \in Buffers /\ t.stray \in Strays
  BY <1>2, Fields
<1>4. c \in Nat /\ e \in Nat /\ Space \in Glyphs
  BY <1>3, SizeTs, Dimensions
<1>5. SUFFICES /\ label' \in {"idle", "column", "wrap", "row", "newline column", "copy", "erased"}
               /\ label # "copy" /\ stepTerm' \in Terminals /\ Ongoing'
  BY <1>1, <1>2 DEF StepInv
<1> HIDE DEF c, e
<1>6. CASE Stp!Go("put", "column", Stp!Vga!putentryat(t, arg, t.column, t.row))
  <2>1. label = "put" /\ label' = "column" /\ stepTerm' = putentryat(t, arg, t.column, t.row)
    BY <1>6, OneConsole DEF Stp!Go
  <2>2. arg \in Glyphs /\ goal = putchar(t, arg)
    BY <1>2, <2>1 DEF Ongoing
  <2> DEFINE n == SizeT(t.row * VGA_WIDTH + t.column)
             b == Wrote(t.buffer, n, arg)
             s == Strayed(t.stray, n)
  <2>3. b \in Buffers /\ s \in Strays
    BY <1>3, <2>2, BufferTypes
  <2>6. stepTerm' = Terminal(t.row, t.column, b, s)
    <3>1. putentryat(t, arg, t.column, t.row) = Terminal(t.row, t.column, b, s)
      BY <1>2, <1>3, <2>2, PutIs
    <3> QED BY <2>1, <3>1
  <2> HIDE DEF b, s, n
  <2>4. stepTerm' \in Terminals /\ stepTerm'.column = t.column
    BY <1>3, <2>3, <2>6, Parts
  <2>5. goal' = Advanced(stepTerm')
    BY <1>1, <1>2, <2>1, <2>2, <2>4, PutCharIs DEF Advanced, SetColumn
  <2> QED BY <2>1, <2>4, <2>5 DEF Ongoing
<1>7. CASE Stp!Go("column", IF c = VGA_WIDTH THEN "wrap" ELSE "idle", [t EXCEPT !.column = c])
  <2>1. /\ label = "column" /\ label' = (IF c = VGA_WIDTH THEN "wrap" ELSE "idle")
        /\ stepTerm' = SetColumn(t, c)
    BY <1>7 DEF Stp!Go, SetColumn
  <2>2. goal = IF c = VGA_WIDTH THEN next_row(t) ELSE SetColumn(t, c)
    BY <1>2, <2>1 DEF Ongoing, Advanced, c
  <2>3. stepTerm' \in Terminals /\ next_row(stepTerm') = next_row(t)
    <3>1. SetColumn(t, c) \in Terminals /\ next_row(SetColumn(t, c)) = next_row(t)
      BY <1>2, <1>4, NextRowParts
    <3> QED BY <2>1, <3>1
  <2>4. CASE c = VGA_WIDTH
    <3>1. label' = "wrap" /\ goal' = next_row(stepTerm')
      BY <1>1, <2>1, <2>2, <2>3, <2>4
    <3> QED BY <2>1, <2>3, <3>1 DEF Ongoing
  <2>5. CASE c # VGA_WIDTH
    <3>1. label' = "idle" /\ goal' = stepTerm'
      BY <1>1, <2>1, <2>2, <2>5
    <3> QED BY <2>1, <2>3, <3>1 DEF Ongoing
  <2> QED BY <2>4, <2>5
<1>8. CASE Stp!Go("wrap", "row", [t EXCEPT !.column = 0])
  <2>1. label = "wrap" /\ label' = "row" /\ stepTerm' = SetColumn(t, 0)
    BY <1>8 DEF Stp!Go, SetColumn
  <2>2. goal = next_row(t)
    BY <1>2, <2>1 DEF Ongoing
  <2>3. stepTerm' \in Terminals /\ stepTerm'.column = 0 /\ goal' = next_row(stepTerm')
    <3>1. SetColumn(t, 0) \in Terminals /\ SetColumn(t, 0).column = 0
          /\ next_row(SetColumn(t, 0)) = next_row(t)
      BY <1>2, 0 \in Nat, NextRowParts
    <3> QED BY <1>1, <2>1, <2>2, <3>1
  <2> QED BY <2>1, <2>3 DEF Ongoing
<1>9. ASSUME label' = Stp!AfterRow(stepTerm'.row), stepTerm' \in Terminals, goal' = Bottomed(stepTerm'),
             label # "copy", y = 1
      PROVE  label' \in {"copy", "idle"} /\ Ongoing'
  <2>1. CASE stepTerm'.row = VGA_HEIGHT
    <3>1. label' = "copy" /\ goal' = move_up(stepTerm')
      BY <1>9, <2>1 DEF Stp!AfterRow, Stp!ScrollsAt, Bottomed
    <3>2. goal' = Terminal(VGA_HEIGHT - 1, stepTerm'.column, Copied(stepTerm'.buffer, 0), stepTerm'.stray)
      BY <1>9, <2>1, <3>1, CopyStarts
    <3>3. y' - 1 = 0
      BY <1>1, <1>9
    <3> QED BY <2>1, <3>1, <3>2, <3>3 DEF Ongoing
  <2>2. CASE stepTerm'.row # VGA_HEIGHT
    <3>1. label' = "idle" /\ goal' = stepTerm'
      BY <1>9, <2>2 DEF Stp!AfterRow, Stp!ScrollsAt, Bottomed
    <3> QED BY <3>1 DEF Ongoing
  <2> QED BY <2>1, <2>2
<1>10. CASE Stp!Go("row", Stp!AfterRow(t.row + 1), [t EXCEPT !.row = @ + 1])
  <2>1. label = "row" /\ label' = Stp!AfterRow(t.row + 1) /\ stepTerm' = SetRow(t, t.row + 1)
    BY <1>10 DEF Stp!Go, SetRow
  <2>2. goal = next_row(t) /\ t.column = 0 /\ y = 1
    BY <1>2, <2>1 DEF Ongoing
  <2>3. /\ stepTerm' \in Terminals /\ stepTerm'.row = t.row + 1 /\ stepTerm'.column = 0
        /\ goal' = Bottomed(SetColumn(stepTerm', 0))
    <3> DEFINE u == SetRow(t, t.row + 1)
    <3>1. /\ u \in Terminals /\ u.row = t.row + 1 /\ u.column = t.column
          /\ next_row(t) = Bottomed(SetColumn(u, 0))
      BY <1>2, 0 \in Nat, NextRowParts
    <3> HIDE DEF u
    <3>2. stepTerm' = u
      BY <2>1 DEF u
    <3> QED BY <1>1, <2>2, <3>1, <3>2
  <2>4. SetColumn(stepTerm', 0) = stepTerm'
    BY <2>3, SameColumn
  <2> QED BY <1>9, <2>1, <2>2, <2>3, <2>4
<1>11. CASE Stp!Go("newline row", "newline column", [t EXCEPT !.row = @ + 1])
  <2>1. label = "newline row" /\ label' = "newline column" /\ stepTerm' = SetRow(t, t.row + 1)
    BY <1>11 DEF Stp!Go, SetRow
  <2>2. goal = next_row(t)
    BY <1>2, <2>1 DEF Ongoing
  <2>3. stepTerm' \in Terminals /\ goal' = Bottomed(SetColumn(stepTerm', 0))
    <3> DEFINE u == SetRow(t, t.row + 1)
    <3>1. u \in Terminals /\ next_row(t) = Bottomed(SetColumn(u, 0))
      BY <1>2, 0 \in Nat, NextRowParts
    <3> HIDE DEF u
    <3>2. stepTerm' = u
      BY <2>1 DEF u
    <3> QED BY <1>1, <2>2, <3>1, <3>2
  <2> QED BY <2>1, <2>3 DEF Ongoing
<1>12. CASE Stp!Go("newline column", Stp!AfterRow(t.row), [t EXCEPT !.column = 0])
  <2>1. label = "newline column" /\ label' = Stp!AfterRow(t.row) /\ stepTerm' = SetColumn(t, 0)
    BY <1>12 DEF Stp!Go, SetColumn
  <2>2. goal = Bottomed(SetColumn(t, 0)) /\ y = 1
    BY <1>2, <2>1 DEF Ongoing
  <2>3. stepTerm' \in Terminals /\ stepTerm'.row = t.row
    <3>1. SetColumn(t, 0) \in Terminals /\ SetColumn(t, 0).row = t.row
      BY <1>2, NextRowParts
    <3> QED BY <2>1, <3>1
  <2>4. goal' = Bottomed(stepTerm')
    BY <1>1, <2>1, <2>2
  <2> QED BY <1>9, <2>1, <2>2, <2>3, <2>4
<1>13. CASE Stp!Go("dec", "idle", [t EXCEPT !.row = @ - 1])
  <2>1. label = "dec" /\ label' = "idle" /\ stepTerm' = SetRow(t, t.row - 1)
    BY <1>13 DEF Stp!Go, SetRow
  <2>2. goal = SetRow(t, VGA_HEIGHT - 1) /\ t.row = VGA_HEIGHT
    BY <1>2, <2>1 DEF Ongoing
  <2>3. goal' = stepTerm' /\ stepTerm' \in Terminals
    BY <1>1, <1>2, <2>1, <2>2 DEF Settled
  <2> QED BY <2>1, <2>3 DEF Ongoing
<1>14. CASE Stp!Go("erase", "erased", [t EXCEPT !.column = Stp!Vga!SizeT(@ - 1)])
  <2>1. label = "erase" /\ label' = "erased" /\ stepTerm' = SetColumn(t, e)
    BY <1>14, OneConsole DEF Stp!Go, SetColumn, e
  <2>2. goal = removelastchar(t) /\ (t.row > 0 \/ t.column > 0)
    BY <1>2, <2>1 DEF Ongoing
  <2>3. goal = putentryat(stepTerm', Space, e, t.row)
    BY <1>2, <2>1, <2>2, RemoveIs DEF SetColumn, e
  <2>4. stepTerm' \in Terminals /\ stepTerm'.row = t.row /\ stepTerm'.column = e
    BY <1>2, <1>4, <2>1, NextRowParts
  <2>5. goal' = putentryat(stepTerm', Space, stepTerm'.column, stepTerm'.row)
    BY <1>1, <2>3, <2>4
  <2> QED BY <2>1, <2>4, <2>5 DEF Ongoing
<1>15. CASE Stp!Go("erased", "idle", Stp!Vga!putentryat(t, Space, t.column, t.row))
  <2>1. label = "erased" /\ label' = "idle" /\ stepTerm' = putentryat(t, Space, t.column, t.row)
    BY <1>15, OneConsole DEF Stp!Go
  <2>2. goal = stepTerm'
    BY <1>2, <2>1 DEF Ongoing
  <2>3. goal' = stepTerm' /\ stepTerm' \in Terminals
    BY <1>1, <1>2, <2>2 DEF Settled
  <2> QED BY <2>1, <2>3 DEF Ongoing
<1> QED
  <2>1. \/ Stp!Go("put", "column", Stp!Vga!putentryat(t, arg, t.column, t.row))
        \/ Stp!Go("column", IF c = VGA_WIDTH THEN "wrap" ELSE "idle", [t EXCEPT !.column = c])
        \/ Stp!Go("wrap", "row", [t EXCEPT !.column = 0])
        \/ Stp!Go("row", Stp!AfterRow(t.row + 1), [t EXCEPT !.row = @ + 1])
        \/ Stp!Go("newline row", "newline column", [t EXCEPT !.row = @ + 1])
        \/ Stp!Go("newline column", Stp!AfterRow(t.row), [t EXCEPT !.column = 0])
        \/ Stp!Go("dec", "idle", [t EXCEPT !.row = @ - 1])
        \/ Stp!Go("erase", "erased", [t EXCEPT !.column = Stp!Vga!SizeT(@ - 1)])
        \/ Stp!Go("erased", "idle", Stp!Vga!putentryat(t, Space, t.column, t.row))
    BY OneConsole DEF Stp!Assign, c
  <2> QED BY <1>6, <1>7, <1>8, <1>10, <1>11, <1>12, <1>13, <1>14, <1>15, <2>1

(* Every step of the console or of another unit.                           *)
LEMMA ConsoleMoves ==
  ASSUME StepInv, [UnitsNext]_unitsVars
  PROVE  StepInv'
<1>1. CASE Steps
  <2>1. Stp!Next
    BY <1>1 DEF Steps
  <2>2. Stp!fault_handler => StepInv'
    BY DEF Stp!fault_handler, StepInv
  <2>3. Stp!Loop => StepInv'
    BY DEF Stp!Loop, Stp!vars, StepInv
  <2> QED BY <2>1, <2>2, <2>3, CallStep, EraseBegins, CopyStep, BlankStep, AssignStep DEF Stp!Next
<1>2. CASE UNCHANGED stpVars
  <2>1. UNCHANGED <<stepTerm, label, arg, y, goal>>
    BY <1>2 DEF stpVars
  <2>2. Ongoing => Ongoing'
    BY <2>1, Zenon DEF Ongoing
  <2> QED BY <2>1, <2>2 DEF StepInv
<1> QED BY <1>1, <1>2 DEF UnitsNext, unitsVars, Calls, Keyboard, Clock, Itoa, Drawing

(* The cleared screen.                                                     *)
LEMMA ConsoleStart == UnitsInit => StepInv
<1> SUFFICES ASSUME UnitsInit PROVE StepInv
  OBVIOUS
<1> DEFINE b == [i \in Cells |-> Space]
<1>1. stepTerm = Terminal(0, 0, b, {}) /\ goal = stepTerm /\ label = "idle" /\ y = 1
  BY OneConsole DEF UnitsInit, Stp!Init, terminal_initialize, Terminal
<1>2. b \in Buffers /\ {} \in Strays /\ 1 \in 1 .. VGA_HEIGHT /\ 0 \in 0 .. VGA_HEIGHT - 1
  BY Dimensions DEF Buffers, Strays
<1>3. Ahead(0, 0, b)
  BY DEF Ahead
<1> HIDE DEF b
<1>4. /\ stepTerm \in Terminals /\ stepTerm.row = 0 /\ stepTerm.column = 0 /\ stepTerm.buffer = b
  BY <1>1, <1>2, Parts
<1>5. Settled(stepTerm)
  BY <1>2, <1>3, <1>4, RowStart DEF Settled
<1> QED BY <1>1, <1>2, <1>4, <1>5 DEF StepInv, Ongoing

(* Undisturbed by an exception, the assignments of a call of the console   *)
(* add up to the call, on a screen of any size, whatever is typed, erased  *)
(* or scrolled.                                                            *)
THEOREM CallsAddUp == UnitsSpec => []StepsAddUp
<1>1. UnitsInit => StepInv
  BY ConsoleStart
<1>2. StepInv /\ [UnitsNext]_unitsVars => StepInv'
  BY ConsoleMoves
<1>3. StepInv => StepsAddUp
  BY DEF StepInv, Ongoing, StepsAddUp, Stp!StepsAddUp
<1> QED BY <1>1, <1>2, <1>3, PTL DEF UnitsSpec

(* Between calls all that follows the point is blank, the point being to   *)
(* the left of its row's start, or of the screen, included: the code never *)
(* prints over older text that it then runs into.                          *)
THEOREM NothingAhead == UnitsSpec => []BlankAhead
<1>1. UnitsInit => StepInv
  BY ConsoleStart
<1>2. StepInv /\ [UnitsNext]_unitsVars => StepInv'
  BY ConsoleMoves
<1>3. StepInv => BlankAhead
  <2> SUFFICES ASSUME StepInv, label = "idle"
               PROVE  \A i \in Cells :
                        i >= stepTerm.row * VGA_WIDTH + stepTerm.column - (IF Erased(stepTerm) > 0 THEN SIZE_MOD ELSE 0)
                          => stepTerm.buffer[i] = Space
    BY OneConsole DEF BlankAhead, Stp!BlankAhead
  <2>1. Settled(stepTerm)
    BY DEF StepInv, Ongoing
  <2>2. stepTerm \in Terminals /\ stepTerm.row \in 0 .. VGA_HEIGHT - 1
    BY <2>1 DEF Settled
  <2>3. PICK s \in Distances : stepTerm.column = SizeT(s) /\ Ahead(stepTerm.row, s, stepTerm.buffer)
    BY <2>1 DEF Settled
  <2>4. Erased(stepTerm) = IF s < 0 THEN - s ELSE 0
    BY <2>2, <2>3, ErasedIs
  <2>5. s \in Int /\ SizeT(s) = (IF s < 0 THEN s + SIZE_MOD ELSE s) /\ SIZE_MOD \in Nat
    BY ColumnSteps, Dimensions
  <2>6. stepTerm.row * VGA_WIDTH \in Nat
    BY <2>2, RowEnds
  <2> DEFINE q == stepTerm.row * VGA_WIDTH
             c == stepTerm.column
             w == IF Erased(stepTerm) > 0 THEN SIZE_MOD ELSE 0
  <2>7. q + c - w = q + s
    <3> HIDE DEF q
    <3> QED BY <2>3, <2>4, <2>5, <2>6 DEF q
  <2> HIDE DEF w
  <2> QED BY <2>3, <2>7 DEF Ahead, w
<1> QED BY <1>1, <1>2, <1>3, PTL DEF UnitsSpec

-----------------------------------------------------------------------------
(* The report of an exception: a loop over its characters                  *)

(* A set of natural numbers that is not empty has a least one.             *)
LEMMA LeastOf ==
  ASSUME NEW S, S \subseteq Nat, S # {}
  PROVE  \E m \in S : \A k \in S : m <= k
<1>1. IsWellFoundedOn(OpToRel(<, Nat), Nat)
  BY NatLessThanWellFounded
<1>2. PICK m \in S : \A k \in S : ~ (<<k, m>> \in OpToRel(<, Nat))
  BY <1>1, WFMin
<1>3. \A k \in S : ~ (k < m)
  <2>1. OpToRel(<, Nat) = {ss \in Nat \X Nat : ss[1] < ss[2]}
    BY DEF OpToRel
  <2> QED BY <1>2, <2>1
<1> QED BY <1>3

(* What holds at first and is kept by each turn holds of the last: I[i] is *)
(* what the console may be after i characters.                             *)
LEMMA TurnsKeep ==
  ASSUME NEW n \in Nat, NEW I, NEW w, w[0] \in I[0],
         \A i \in 0 .. n - 1 : w[i] \in I[i] => w[i + 1] \in I[i + 1]
  PROVE  w[n] \in I[n]
<1> DEFINE Bad == {i \in 0 .. n : w[i] \notin I[i]}
<1> SUFFICES ASSUME Bad # {} PROVE FALSE
  OBVIOUS
<1>1. PICK m \in Bad : \A k \in Bad : m <= k
  <2>1. Bad \subseteq Nat
    OBVIOUS
  <2> HIDE DEF Bad
  <2> QED BY <2>1, LeastOf
<1>2. m # 0 /\ m - 1 \in 0 .. n - 1 /\ w[m - 1] \in I[m - 1] /\ (m - 1) + 1 = m
  BY <1>1
<1>3. w[(m - 1) + 1] \in I[(m - 1) + 1]
  BY <1>2
<1> QED BY <1>1, <1>2, <1>3

(* A loop that puts one character after the other is a function.           *)
Puts(w, t, s, n) ==
  w = [i \in 0 .. n |-> IF i = 0 THEN t ELSE Stp!Vga!putchar(w[i - 1], s[i])]
(* Over one character more, if over the first.                             *)
LEMMA PutsOne ==
  ASSUME NEW t, NEW s, NEW n \in Nat, NEW w, Puts(w, t, s, n)
  PROVE  \E v : Puts(v, t, s, n + 1)
<1> DEFINE v == [i \in 0 .. n + 1 |-> IF i = n + 1 THEN Stp!Vga!putchar(w[n], s[n + 1]) ELSE w[i]]
<1>1. ASSUME NEW i \in 0 .. n + 1
      PROVE  v[i] = IF i = 0 THEN t ELSE Stp!Vga!putchar(v[i - 1], s[i])
  <2>1. CASE i = n + 1
    <3>1. v[i - 1] = w[n] /\ i # 0
      BY <2>1
    <3> QED BY <2>1, <3>1
  <2>2. CASE i # n + 1
    <3>1. i \in 0 .. n /\ v[i] = w[i] /\ (i # 0 => v[i - 1] = w[i - 1])
      BY <2>2
    <3> QED BY <3>1 DEF Puts
  <2> QED BY <2>1, <2>2
<1>2. v = [i \in 0 .. n + 1 |-> v[i]]
  OBVIOUS
<1> HIDE DEF v
<1>3. Puts(v, t, s, n + 1)
  BY <1>1, <1>2 DEF Puts
<1> QED BY <1>3

(* So over any number of them.                                             *)
LEMMA PutsAll ==
  ASSUME NEW t, NEW s, NEW n \in Nat
  PROVE  \E w : Puts(w, t, s, n)
<1> DEFINE Bad == {i \in Nat : ~ \E w : Puts(w, t, s, i)}
<1> SUFFICES ASSUME Bad # {} PROVE FALSE
  OBVIOUS
<1>1. PICK m \in Bad : \A k \in Bad : m <= k
  <2>1. Bad \subseteq Nat
    OBVIOUS
  <2> HIDE DEF Bad
  <2> QED BY <2>1, LeastOf
<1>2. m # 0
  <2>1. Puts([i \in 0 .. 0 |-> t], t, s, 0)
    BY DEF Puts
  <2> QED BY <1>1, <2>1
<1>3. m - 1 \in Nat /\ (m - 1) + 1 = m /\ \E w : Puts(w, t, s, m - 1)
  BY <1>1, <1>2
<1> QED BY <1>1, <1>3, PutsOne

(* terminal_writestring keeps what each character keeps.                   *)
LEMMA WriteKeeps ==
  ASSUME NEW t, NEW s, Len(s) \in Nat, NEW I, t \in I[0],
         \A i \in 0 .. Len(s) - 1 : \A u \in I[i] : putchar(u, s[i + 1]) \in I[i + 1]
  PROVE  Stp!Vga!writestring(t, s) \in I[Len(s)]
<1> DEFINE n == Len(s)
<1>1. PICK w : Puts(w, t, s, n) /\ Stp!Vga!writestring(t, s) = w[n]
  <2>1. \E w : Puts(w, t, s, n)
    BY PutsAll
  <2>2. Stp!Vga!writestring(t, s) = (CHOOSE w : Puts(w, t, s, n))[n]
    BY DEF Stp!Vga!writestring, Puts
  <2> QED BY <2>1, <2>2
<1>2. w[0] = t /\ \A i \in 0 .. n - 1 : w[i + 1] = putchar(w[i], s[i + 1])
  <2>1. \A i \in 0 .. n : w[i] = IF i = 0 THEN t ELSE Stp!Vga!putchar(w[i - 1], s[i])
    BY <1>1 DEF Puts
  <2>2. ASSUME NEW i \in 0 .. n - 1 PROVE w[i + 1] = putchar(w[i], s[i + 1])
    <3>1. i + 1 \in 0 .. n /\ i + 1 # 0 /\ (i + 1) - 1 = i
      OBVIOUS
    <3>2. w[i + 1] = Stp!Vga!putchar(w[i], s[i + 1])
      BY <2>1, <3>1
    <3> QED BY <3>2, OneConsole
  <2> QED BY <2>1, <2>2
<1>3. w[n] \in I[n]
  <2>1. w[0] \in I[0] /\ \A i \in 0 .. n - 1 : w[i] \in I[i] => w[i + 1] \in I[i + 1]
    BY <1>2
  <2> HIDE DEF n
  <2> QED BY <2>1, TurnsKeep DEF n
<1> QED BY <1>1, <1>3

(* One sequence after another.                                             *)
LEMMA Concatenated ==
  \A S : \A p, q \in Seq(S) :
     /\ p \o q \in Seq(S) /\ Len(p \o q) = Len(p) + Len(q)
     /\ \A i \in 1 .. Len(p) : (p \o q)[i] = p[i]
     /\ \A i \in 1 .. Len(q) : (p \o q)[Len(p) + i] = q[i]
<1> TAKE S
<1> TAKE p, q \in Seq(S)
<1>1. /\ p \o q \in Seq(S) /\ Len(p \o q) = Len(p) + Len(q)
      /\ \A i \in 1 .. Len(p) + Len(q) : (p \o q)[i] = IF i <= Len(p) THEN p[i] ELSE q[i - Len(p)]
  BY ConcatProperties
<1>2. Len(p) \in Nat /\ Len(q) \in Nat
  OBVIOUS
<1>3. ASSUME NEW i \in 1 .. Len(p) PROVE (p \o q)[i] = p[i]
  BY <1>1, <1>2
<1>4. ASSUME NEW i \in 1 .. Len(q) PROVE (p \o q)[Len(p) + i] = q[i]
  <2>1. /\ Len(p) + i \in 1 .. Len(p) + Len(q) /\ ~ (Len(p) + i <= Len(p))
        /\ (Len(p) + i) - Len(p) = i
    BY <1>2
  <2> QED BY <1>1, <2>1
<1> QED BY <1>1, <1>3, <1>4

(* The report, character by character.                                     *)
LEMMA ReportIs ==
  LET a == Len(FirstLine)
      l == Len(LastLine)
      s == Stp!Report
  IN  /\ a \in Nat /\ l \in 1 .. VGA_WIDTH - 1 /\ Len(s) = (a + 1) + (l + 1)
      /\ \A i \in 1 .. Len(s) : s[i] \in Glyphs \union {Newline}
      /\ s[a + 1] = Newline /\ s[(a + 1) + (l + 1)] = Newline
      /\ \A k \in 1 .. l : s[(a + 1) + k] = LastLine[k] /\ LastLine[k] \in Glyphs
<1> DEFINE C == Glyphs \union {Newline}
           N == <<Newline>>
           f == FirstLine \o N
           g == f \o LastLine
           s == g \o N
<1>1. /\ FirstLine \in Seq(Glyphs) /\ LastLine \in Seq(Glyphs \ {Space})
      /\ Len(LastLine) \in 1 .. VGA_WIDTH - 1
  BY UnitsAssumption DEF Stp!ConsoleStepsAssumption
<1>2. FirstLine \in Seq(C) /\ LastLine \in Seq(C) /\ LastLine \in Seq(Glyphs)
  BY <1>1, SeqMonotonic
<1>3. N \in Seq(C) /\ Len(N) = 1 /\ N[1] = Newline
  OBVIOUS
<1>4. /\ Len(FirstLine) \in Nat /\ Len(LastLine) \in 1 .. VGA_WIDTH - 1 /\ Len(LastLine) \in Nat
      /\ \A k \in 1 .. Len(LastLine) : LastLine[k] \in Glyphs
  BY <1>1, <1>2, LenProperties, ElementOfSeq
<1> DEFINE a == Len(FirstLine)
           l == Len(LastLine)
<1> HIDE DEF C, N
<1>6. f \in Seq(C) /\ Len(f) = a + 1 /\ f[a + 1] = Newline
  <2>1. FirstLine \in Seq(C) /\ N \in Seq(C)
    BY <1>2, <1>3
  <2>2. /\ f \in Seq(C) /\ Len(f) = a + Len(N)
        /\ \A i \in 1 .. Len(N) : f[a + i] = N[i]
    BY <2>1, Concatenated
  <2> HIDE DEF f
  <2> QED BY <1>3, <2>2
<1> HIDE DEF f
<1>7. /\ g \in Seq(C) /\ Len(g) = (a + 1) + l /\ g[a + 1] = Newline
      /\ \A k \in 1 .. l : g[(a + 1) + k] = LastLine[k]
  <2>1. /\ g \in Seq(C) /\ Len(g) = Len(f) + l
        /\ \A i \in 1 .. Len(f) : g[i] = f[i]
        /\ \A i \in 1 .. l : g[Len(f) + i] = LastLine[i]
    <3>1. f \in Seq(C) /\ LastLine \in Seq(C)
      BY <1>2, <1>6
    <3> QED BY <3>1, Concatenated
  <2>2. a + 1 \in 1 .. Len(f)
    BY <1>4, <1>6
  <2> QED BY <1>6, <2>1, <2>2
<1> HIDE DEF g
<1>8. /\ s \in Seq(C) /\ Len(s) = (a + 1) + (l + 1) /\ s[a + 1] = Newline
      /\ \A k \in 1 .. l : s[(a + 1) + k] = LastLine[k]
      /\ s[(a + 1) + (l + 1)] = Newline
  <2>1. /\ s \in Seq(C) /\ Len(s) = Len(g) + 1
        /\ \A i \in 1 .. Len(g) : s[i] = g[i]
        /\ s[Len(g) + 1] = Newline
    <3>1. g \in Seq(C) /\ N \in Seq(C)
      BY <1>3, <1>7
    <3>2. /\ s \in Seq(C) /\ Len(s) = Len(g) + Len(N)
          /\ \A i \in 1 .. Len(g) : s[i] = g[i]
          /\ \A i \in 1 .. Len(N) : s[Len(g) + i] = N[i]
      BY <3>1, Concatenated
    <3> HIDE DEF s
    <3> QED BY <1>3, <3>2
  <2> HIDE DEF s
  <2>2. a + 1 \in 1 .. Len(g) /\ \A k \in 1 .. l : (a + 1) + k \in 1 .. Len(g)
    BY <1>4, <1>7
  <2>3. Len(g) + 1 = (a + 1) + (l + 1)
    BY <1>4, <1>7
  <2> QED BY <1>7, <2>1, <2>2, <2>3
<1>9. s = Stp!Report
  BY DEF Stp!Report, g, f, N
<1> HIDE DEF s
<1>10. \A i \in 1 .. Len(s) : s[i] \in C
  BY <1>8, ElementOfSeq
<1> QED BY <1>4, <1>8, <1>9, <1>10 DEF C

(* The point is on the screen, or in front of its row, and nothing strayed *)
(* past the end.                                                           *)
OnScreenAt(t) ==
  /\ t \in Terminals /\ t.row \in 0 .. VGA_HEIGHT - 1 /\ "past" \notin t.stray
  /\ \E s \in Distances : t.column = SizeT(s)

(* There, a glyph is put into the buffer or below it.                      *)
LEMMA PutOnScreen ==
  ASSUME NEW t, OnScreenAt(t), NEW g \in Glyphs
  PROVE  LET u == putentryat(t, g, t.column, t.row)
         IN  /\ OnScreenAt(u) /\ u.row = t.row /\ u.column = t.column
<1> DEFINE i == SizeT(t.row * VGA_WIDTH + t.column)
           b == Wrote(t.buffer, i, g)
           d == Strayed(t.stray, i)
           u == putentryat(t, g, t.column, t.row)
<1>1. t \in Terminals /\ t.row \in 0 .. VGA_HEIGHT - 1 /\ "past" \notin t.stray
  BY DEF OnScreenAt
<1>2. PICK s \in Distances : t.column = SizeT(s)
  BY DEF OnScreenAt
<1>3. t.row \in Nat /\ t.column \in Nat /\ t.buffer \in Buffers /\ t.stray \in Strays
  BY <1>1, Fields
<1>4. u = Terminal(t.row, t.column, b, d) /\ b \in Buffers /\ d \in Strays
  <2>1. t.row \in Int /\ t.column \in Int
    BY <1>3
  <2>2. u = Terminal(t.row, t.column, b, d)
    BY <1>1, <2>1, PutIs
  <2> HIDE DEF i
  <2>3. b \in Buffers /\ d \in Strays
    BY <1>3, BufferTypes
  <2> QED BY <2>2, <2>3
<1> HIDE DEF b, u
<1>5. u \in Terminals /\ u.row = t.row /\ u.column = t.column /\ u.stray = d
  <2> HIDE DEF d
  <2> QED BY <1>3, <1>4, Parts
<1>6. i \notin Cells => 2 * i > SIZE_MOD
  <2> DEFINE q == t.row * VGA_WIDTH
             p == q + s
             w == VGA_WIDTH * VGA_HEIGHT
  <2>1. p \in Int /\ p < w /\ (i \in Cells <=> p >= 0)
    BY <1>1, <1>2, Index
  <2>2. /\ w \in Nat /\ SIZE_MOD \in Nat /\ MaxErased \in Nat /\ VGA_WIDTH \in Nat
        /\ 2 * w + 2 * MaxErased < SIZE_MOD
    BY Dimensions
  <2>3. q \in Nat /\ s \in Int /\ - MaxErased <= s /\ s < VGA_WIDTH
    BY <1>1, <2>2, RowEnds DEF Distances
  <2>4. SizeT(s) = IF s < 0 THEN s + SIZE_MOD ELSE s
    BY ColumnSteps
  <2>5. i = SizeT(q + SizeT(s))
    BY <1>2
  <2> HIDE DEF q, w, i
  <2> SUFFICES ASSUME p < 0 PROVE 2 * i > SIZE_MOD
    BY <2>1
  <2>6. q + SizeT(s) = p + SIZE_MOD /\ - MaxErased <= p
    BY <2>2, <2>3, <2>4
  <2>7. SizeT(p + SIZE_MOD) = p + SIZE_MOD
    <3> DEFINE n == p + SIZE_MOD
    <3>1. n \in Int /\ n >= 0 - SIZE_MOD /\ n < SIZE_MOD /\ ~ n < 0
      BY <2>1, <2>2, <2>6
    <3> HIDE DEF n
    <3>2. SizeT(n) = n
      BY <3>1, SizeTIs
    <3> QED BY <3>2 DEF n
  <2> QED BY <2>1, <2>2, <2>5, <2>6, <2>7
<1>7. "past" \notin d
  <2> HIDE DEF i
  <2> QED BY <1>1, <1>6 DEF Strayed, d
<1> QED BY <1>1, <1>2, <1>5, <1>7 DEF OnScreenAt, u

(* The next row is on the screen.                                          *)
LEMMA NextRowOnScreen ==
  ASSUME NEW t \in Terminals, t.row \in 0 .. VGA_HEIGHT - 1, "past" \notin t.stray
  PROVE  OnScreenAt(next_row(t))
<1>1. t.row \in Nat /\ t.buffer \in Buffers /\ t.stray \in Strays /\ Scrolled(t.buffer) \in Buffers
  BY Fields, BufferTypes, Dimensions
<1>2. VGA_HEIGHT \in Nat
  BY Dimensions
<1>3. CASE t.row + 1 = VGA_HEIGHT
  <2> DEFINE u == Terminal(t.row, 0, Scrolled(t.buffer), t.stray)
  <2>1. next_row(t) = u
    BY <1>3, NextRowIs
  <2>2. u \in Terminals /\ u.row = t.row /\ u.column = 0 /\ u.stray = t.stray
    BY <1>1, Parts
  <2> HIDE DEF u
  <2> QED BY <2>1, <2>2, RowStart DEF OnScreenAt
<1>4. CASE t.row + 1 # VGA_HEIGHT
  <2>2. PICK m \in 0 .. VGA_HEIGHT - 1 : m = t.row + 1
    BY <1>1, <1>2, <1>4
  <2> DEFINE u == Terminal(m, 0, t.buffer, t.stray)
  <2>1. next_row(t) = u
    BY <1>4, <2>2, NextRowIs
  <2>3. u \in Terminals /\ u.row = m /\ u.column = 0 /\ u.stray = t.stray
    <3>1. m \in Nat /\ 0 \in Nat
      BY <1>2
    <3> QED BY <1>1, <3>1, Parts
  <2> HIDE DEF u
  <2> QED BY <2>1, <2>2, <2>3, RowStart DEF OnScreenAt
<1> QED BY <1>3, <1>4

(* Whatever is printed there, it stays there.                              *)
LEMMA PutStays ==
  ASSUME NEW t, OnScreenAt(t), NEW g \in Glyphs \union {Newline}
  PROVE  OnScreenAt(putchar(t, g))
<1>1. t \in Terminals /\ t.row \in 0 .. VGA_HEIGHT - 1 /\ "past" \notin t.stray
  BY DEF OnScreenAt
<1>2. CASE g = Newline
  <2>1. putchar(t, g) = next_row(t)
    BY <1>1, <1>2, Dimensions, PutCharIs
  <2> QED BY <1>1, <2>1, NextRowOnScreen
<1>3. CASE g \in Glyphs
  <2> DEFINE u == putentryat(t, g, t.column, t.row)
             c == SizeT(t.column + 1)
  <2>1. OnScreenAt(u) /\ u.row = t.row /\ u.column = t.column
    BY <1>3, PutOnScreen
  <2>2. putchar(t, g) = IF c = VGA_WIDTH THEN next_row(u) ELSE SetColumn(u, c)
    BY <1>1, <1>3, PutCharIs DEF SetColumn
  <2>3. PICK s \in Distances : t.column = SizeT(s)
    BY DEF OnScreenAt
  <2>4. s \in Int /\ c = SizeT(s + 1) /\ (c = VGA_WIDTH <=> s + 1 = VGA_WIDTH) /\ c \in Nat
    BY <1>1, <2>3, ColumnSteps, Fields, SizeTs
  <2> HIDE DEF u, c
  <2>5. u \in Terminals /\ u.row \in 0 .. VGA_HEIGHT - 1 /\ "past" \notin u.stray
    BY <2>1 DEF OnScreenAt
  <2>6. CASE c = VGA_WIDTH
    BY <2>2, <2>5, <2>6, NextRowOnScreen
  <2>7. CASE c # VGA_WIDTH
    <3>1. s + 1 \in Distances
      BY <2>3, <2>4, <2>7, Dimensions DEF Distances
    <3>2. /\ SetColumn(u, c) \in Terminals /\ SetColumn(u, c).row = u.row
          /\ SetColumn(u, c).column = c /\ SetColumn(u, c).stray = u.stray
      BY <2>4, <2>5, NextRowParts
    <3> QED BY <2>2, <2>4, <2>5, <2>7, <3>1, <3>2 DEF OnScreenAt
  <2> QED BY <2>6, <2>7
<1> QED BY <1>2, <1>3

(* Where the point is at each place of a call: below the screen only until *)
(* it has scrolled, at the right margin only until the next assignment.    *)
Scrolling == {"newline column", "copy", "dec"}
Placed ==
  label # "halted" =>
    /\ stepTerm \in Terminals /\ "past" \notin stepTerm.stray
    /\ stepTerm.row \in 0 .. VGA_HEIGHT
    /\ stepTerm.row = VGA_HEIGHT => label \in Scrolling
    /\ \/ \E s \in Distances : stepTerm.column = SizeT(s)
       \/ stepTerm.column = VGA_WIDTH /\ label = "wrap"

(* Between calls it is on the screen.                                      *)
LEMMA IdlePlaced ==
  ASSUME StepInv, label = "idle", "past" \notin stepTerm.stray
  PROVE  OnScreenAt(stepTerm) /\ Placed
<1>1. stepTerm \in Terminals /\ Settled(stepTerm)
  BY DEF StepInv, Ongoing
<1>2. OnScreenAt(stepTerm)
  BY <1>1 DEF Settled, OnScreenAt
<1>3. VGA_HEIGHT \in Nat
  BY Dimensions
<1> QED BY <1>2, <1>3 DEF OnScreenAt, Placed

(* It is, when a call has ended.                                           *)
LEMMA IdlePlacedNext ==
  ASSUME StepInv', label' = "idle", "past" \notin stepTerm'.stray
  PROVE  Placed'
<1>1. stepTerm' \in Terminals /\ Settled(stepTerm')
  BY DEF StepInv, Ongoing
<1>2. VGA_HEIGHT \in Nat
  BY Dimensions
<1> QED BY <1>1, <1>2 DEF Settled, Placed

(* Placed on the screen, unless at the bottom or at the right margin.      *)
LEMMA PlacedOnScreen ==
  ASSUME Placed, label # "halted", label # "wrap", label \notin Scrolling
  PROVE  OnScreenAt(stepTerm)
<1>1. VGA_HEIGHT \in Nat
  BY Dimensions
<1> QED BY <1>1 DEF Placed, OnScreenAt

(* Each assignment leaves the point where it belongs.                      *)
LEMMA AssignPlaces ==
  ASSUME StepInv, StepInv', Placed, Stp!Assign
  PROVE  Placed'
<1> DEFINE t == stepTerm
           c == SizeT(t.column + 1)
           e == SizeT(t.column - 1)
<1>1. label # "halted"
  BY DEF Stp!Assign, Stp!Go
<1>2. t \in Terminals /\ Ongoing
  BY <1>1 DEF StepInv
<1>3. t.row \in Nat /\ t.column \in Nat /\ t.row \in 0 .. VGA_HEIGHT /\ "past" \notin t.stray
  BY <1>1, <1>2, Fields DEF Placed
<1>4. c \in Nat /\ e \in Nat /\ Space \in Glyphs /\ VGA_HEIGHT \in Nat
  BY <1>3, SizeTs, Dimensions
<1>5. stepTerm' \in Terminals \/ label' = "halted"
  BY DEF StepInv
<1> HIDE DEF c, e
<1>6. CASE Stp!Go("put", "column", Stp!Vga!putentryat(t, arg, t.column, t.row))
  <2>1. label = "put" /\ label' = "column" /\ stepTerm' = putentryat(t, arg, t.column, t.row)
    BY <1>6, OneConsole DEF Stp!Go
  <2>2. arg \in Glyphs
    BY <1>2, <2>1 DEF Ongoing
  <2>3. OnScreenAt(stepTerm')
    BY <2>1, <2>2, PlacedOnScreen, PutOnScreen DEF Scrolling
  <2> QED BY <1>4, <2>3 DEF OnScreenAt, Placed
<1>7. CASE Stp!Go("column", IF c = VGA_WIDTH THEN "wrap" ELSE "idle", [t EXCEPT !.column = c])
  <2>1. /\ label = "column" /\ label' = (IF c = VGA_WIDTH THEN "wrap" ELSE "idle")
        /\ stepTerm' = SetColumn(t, c)
    BY <1>7 DEF Stp!Go, SetColumn
  <2>2. /\ stepTerm' \in Terminals /\ stepTerm'.row = t.row /\ stepTerm'.column = c
        /\ stepTerm'.stray = t.stray
    <3>1. /\ SetColumn(t, c) \in Terminals /\ SetColumn(t, c).row = t.row
          /\ SetColumn(t, c).column = c /\ SetColumn(t, c).stray = t.stray
      BY <1>2, <1>4, NextRowParts
    <3> QED BY <2>1, <3>1
  <2>3. CASE c = VGA_WIDTH
    <3>1. t.row # VGA_HEIGHT
      BY <2>1 DEF Placed, Scrolling
    <3> QED BY <1>3, <2>1, <2>2, <2>3, <3>1 DEF Placed
  <2>4. CASE c # VGA_WIDTH
    BY <1>3, <2>1, <2>2, <2>4, IdlePlacedNext
  <2> QED BY <2>3, <2>4
<1>8. CASE Stp!Go("wrap", "row", [t EXCEPT !.column = 0])
  <2>1. label = "wrap" /\ label' = "row" /\ stepTerm' = SetColumn(t, 0)
    BY <1>8 DEF Stp!Go, SetColumn
  <2>2. /\ stepTerm' \in Terminals /\ stepTerm'.row = t.row /\ stepTerm'.column = 0
        /\ stepTerm'.stray = t.stray
    <3>1. /\ SetColumn(t, 0) \in Terminals /\ SetColumn(t, 0).row = t.row
          /\ SetColumn(t, 0).column = 0 /\ SetColumn(t, 0).stray = t.stray
      BY <1>2, 0 \in Nat, NextRowParts
    <3> QED BY <2>1, <3>1
  <2>3. t.row # VGA_HEIGHT
    BY <2>1 DEF Placed, Scrolling
  <2> QED BY <1>3, <2>1, <2>2, <2>3, RowStart DEF Placed, Scrolling
<1>9. CASE Stp!Go("row", Stp!AfterRow(t.row + 1), [t EXCEPT !.row = @ + 1])
  <2>1. label = "row" /\ label' = Stp!AfterRow(t.row + 1) /\ stepTerm' = SetRow(t, t.row + 1)
    BY <1>9 DEF Stp!Go, SetRow
  <2>2. t.column = 0 /\ t.row # VGA_HEIGHT
    BY <1>2, <2>1 DEF Ongoing, Placed, Scrolling
  <2>3. /\ stepTerm' \in Terminals /\ stepTerm'.row = t.row + 1 /\ stepTerm'.column = 0
        /\ stepTerm'.stray = t.stray
    <3> DEFINE u == SetRow(t, t.row + 1)
    <3>1. u \in Terminals /\ u.row = t.row + 1 /\ u.column = t.column /\ u.stray = t.stray
      BY <1>2, 0 \in Nat, NextRowParts
    <3> HIDE DEF u
    <3>2. stepTerm' = u
      BY <2>1 DEF u
    <3> QED BY <2>2, <3>1, <3>2
  <2>4. t.row + 1 \in 0 .. VGA_HEIGHT
    BY <1>3, <1>4, <2>2
  <2>5. t.row + 1 = VGA_HEIGHT => label' = "copy"
    BY <2>1 DEF Stp!AfterRow, Stp!ScrollsAt
  <2> QED BY <1>3, <2>3, <2>4, <2>5, RowStart DEF Placed, Scrolling
<1>10. CASE Stp!Go("newline row", "newline column", [t EXCEPT !.row = @ + 1])
  <2>1. label = "newline row" /\ label' = "newline column" /\ stepTerm' = SetRow(t, t.row + 1)
    BY <1>10 DEF Stp!Go, SetRow
  <2>2. t.row # VGA_HEIGHT /\ \E s \in Distances : t.column = SizeT(s)
    BY <2>1 DEF Placed, Scrolling
  <2>3. /\ stepTerm' \in Terminals /\ stepTerm'.row = t.row + 1 /\ stepTerm'.column = t.column
        /\ stepTerm'.stray = t.stray
    <3> DEFINE u == SetRow(t, t.row + 1)
    <3>1. u \in Terminals /\ u.row = t.row + 1 /\ u.column = t.column /\ u.stray = t.stray
      BY <1>2, 0 \in Nat, NextRowParts
    <3> HIDE DEF u
    <3>2. stepTerm' = u
      BY <2>1 DEF u
    <3> QED BY <3>1, <3>2
  <2>4. t.row + 1 \in 0 .. VGA_HEIGHT
    BY <1>3, <1>4, <2>2
  <2> QED BY <1>3, <2>1, <2>2, <2>3, <2>4 DEF Placed, Scrolling
<1>11. CASE Stp!Go("newline column", Stp!AfterRow(t.row), [t EXCEPT !.column = 0])
  <2>1. label = "newline column" /\ label' = Stp!AfterRow(t.row) /\ stepTerm' = SetColumn(t, 0)
    BY <1>11 DEF Stp!Go, SetColumn
  <2>2. /\ stepTerm' \in Terminals /\ stepTerm'.row = t.row /\ stepTerm'.column = 0
        /\ stepTerm'.stray = t.stray
    <3>1. /\ SetColumn(t, 0) \in Terminals /\ SetColumn(t, 0).row = t.row
          /\ SetColumn(t, 0).column = 0 /\ SetColumn(t, 0).stray = t.stray
      BY <1>2, 0 \in Nat, NextRowParts
    <3> QED BY <2>1, <3>1
  <2>3. t.row = VGA_HEIGHT => label' = "copy"
    BY <2>1 DEF Stp!AfterRow, Stp!ScrollsAt
  <2> QED BY <1>3, <2>2, <2>3, RowStart DEF Placed, Scrolling
<1>12. CASE Stp!Go("dec", "idle", [t EXCEPT !.row = @ - 1])
  <2>1. label = "dec" /\ label' = "idle" /\ stepTerm' = SetRow(t, t.row - 1)
    BY <1>12 DEF Stp!Go, SetRow
  <2>2. stepTerm'.stray = t.stray
    BY <1>2, <2>1 DEF SetRow, Terminals
  <2> QED BY <1>3, <2>1, <2>2, IdlePlacedNext
<1>13. CASE Stp!Go("erase", "erased", [t EXCEPT !.column = Stp!Vga!SizeT(@ - 1)])
  <2>1. label = "erase" /\ label' = "erased" /\ stepTerm' = SetColumn(t, e)
    BY <1>13, OneConsole DEF Stp!Go, SetColumn, e
  <2>2. /\ stepTerm' \in Terminals /\ stepTerm'.row = t.row /\ stepTerm'.column = e
        /\ stepTerm'.stray = t.stray
    <3>1. /\ SetColumn(t, e) \in Terminals /\ SetColumn(t, e).row = t.row
          /\ SetColumn(t, e).column = e /\ SetColumn(t, e).stray = t.stray
      BY <1>2, <1>4, NextRowParts
    <3> QED BY <2>1, <3>1
  <2>3. \E s \in Distances : e = SizeT(s)
    <3> DEFINE u == SetColumn(t, e)
               n == SizeT(t.row * VGA_WIDTH + e)
               b == Wrote(u.buffer, n, Space)
               d == Strayed(u.stray, n)
    <3>1. goal = putentryat(u, Space, e, t.row)
      <4>1. goal = removelastchar(t) /\ (t.row > 0 \/ t.column > 0)
        BY <1>2, <2>1 DEF Ongoing
      <4> QED BY <1>2, <4>1, RemoveIs DEF SetColumn, e
    <3>2. u \in Terminals /\ u.column = e /\ u.row = t.row
      BY <2>1, <2>2
    <3> HIDE DEF u
    <3>3. goal = Terminal(u.row, u.column, b, d)
      BY <1>3, <1>4, <3>1, <3>2, PutIs
    <3>4. u.row \in Nat /\ u.column \in Nat /\ u.buffer \in Buffers /\ u.stray \in Strays
      BY <3>2, Fields
    <3> HIDE DEF n
    <3>5. b \in Buffers /\ d \in Strays
      BY <1>4, <3>4, BufferTypes
    <3> HIDE DEF b, d
    <3>6. goal.column = e
      BY <3>2, <3>3, <3>4, <3>5, Parts
    <3>7. Settled(goal)
      BY <1>1 DEF StepInv
    <3> QED BY <3>6, <3>7 DEF Settled
  <2>4. t.row # VGA_HEIGHT
    BY <2>1 DEF Placed, Scrolling
  <2> QED BY <1>3, <2>1, <2>2, <2>3, <2>4 DEF Placed
<1>14. CASE Stp!Go("erased", "idle", Stp!Vga!putentryat(t, Space, t.column, t.row))
  <2>1. label = "erased" /\ label' = "idle" /\ stepTerm' = putentryat(t, Space, t.column, t.row)
    BY <1>14, OneConsole DEF Stp!Go
  <2>2. OnScreenAt(stepTerm')
    BY <1>4, <2>1, PlacedOnScreen, PutOnScreen DEF Scrolling
  <2> QED BY <2>1, <2>2, IdlePlacedNext DEF OnScreenAt
<1> QED
  <2>1. \/ Stp!Go("put", "column", Stp!Vga!putentryat(t, arg, t.column, t.row))
        \/ Stp!Go("column", IF c = VGA_WIDTH THEN "wrap" ELSE "idle", [t EXCEPT !.column = c])
        \/ Stp!Go("wrap", "row", [t EXCEPT !.column = 0])
        \/ Stp!Go("row", Stp!AfterRow(t.row + 1), [t EXCEPT !.row = @ + 1])
        \/ Stp!Go("newline row", "newline column", [t EXCEPT !.row = @ + 1])
        \/ Stp!Go("newline column", Stp!AfterRow(t.row), [t EXCEPT !.column = 0])
        \/ Stp!Go("dec", "idle", [t EXCEPT !.row = @ - 1])
        \/ Stp!Go("erase", "erased", [t EXCEPT !.column = Stp!Vga!SizeT(@ - 1)])
        \/ Stp!Go("erased", "idle", Stp!Vga!putentryat(t, Space, t.column, t.row))
    BY OneConsole DEF Stp!Assign, c
  <2> QED BY <1>6, <1>7, <1>8, <1>9, <1>10, <1>11, <1>12, <1>13, <1>14, <2>1

-----------------------------------------------------------------------------
(* Where the report is printed                                             *)

(* From a row of the screen the rows of the screen follow.                 *)
Within(t) == t \in Terminals /\ t.row \in 0 .. VGA_HEIGHT - 1
(* From below it, never: the row passes VGA_HEIGHT without being equal to  *)
(* it again.                                                               *)
Below(t)  == t \in Terminals /\ t.row >= VGA_HEIGHT

(* The next row, and the row a character leaves the point in.              *)
LEMMA NextRowFields ==
  ASSUME NEW t \in Terminals
  PROVE  /\ next_row(t) \in Terminals /\ next_row(t).column = 0
         /\ next_row(t).row = IF t.row + 1 = VGA_HEIGHT THEN t.row ELSE t.row + 1
         /\ next_row(t).buffer = IF t.row + 1 = VGA_HEIGHT THEN Scrolled(t.buffer) ELSE t.buffer
<1> DEFINE n == t.row + 1
           b == Scrolled(t.buffer)
<1>1. t.row \in Nat /\ n \in Nat /\ t.buffer \in Buffers /\ t.stray \in Strays /\ 0 \in Nat
  BY Fields
<1>2. b \in Buffers
  BY <1>1, BufferTypes, Dimensions
<1>3. CASE n = VGA_HEIGHT
  <2>1. next_row(t) = Terminal(t.row, 0, b, t.stray)
    BY <1>3, NextRowIs
  <2> HIDE DEF b
  <2>2. /\ next_row(t) \in Terminals /\ next_row(t).column = 0 /\ next_row(t).row = t.row
        /\ next_row(t).buffer = b
    BY <1>1, <1>2, <2>1, Parts
  <2> QED BY <1>3, <2>2 DEF b
<1>4. CASE n # VGA_HEIGHT
  <2>1. next_row(t) = Terminal(n, 0, t.buffer, t.stray)
    BY <1>4, NextRowIs
  <2> HIDE DEF n
  <2>2. /\ next_row(t) \in Terminals /\ next_row(t).column = 0 /\ next_row(t).row = n
        /\ next_row(t).buffer = t.buffer
    BY <1>1, <2>1, Parts
  <2> QED BY <1>4, <2>2 DEF n
<1> QED BY <1>3, <1>4

(* A glyph that is put leaves the point where it is.                       *)
LEMMA PutFields ==
  ASSUME NEW t \in Terminals, NEW g \in Glyphs
  PROVE  LET u == putentryat(t, g, t.column, t.row)
         IN  /\ u \in Terminals /\ u.row = t.row /\ u.column = t.column
             /\ u.buffer = Wrote(t.buffer, SizeT(t.row * VGA_WIDTH + t.column), g)
<1> DEFINE i == SizeT(t.row * VGA_WIDTH + t.column)
           b == Wrote(t.buffer, i, g)
           d == Strayed(t.stray, i)
           u == putentryat(t, g, t.column, t.row)
<1>1. t.row \in Nat /\ t.column \in Nat /\ t.buffer \in Buffers /\ t.stray \in Strays
  BY Fields
<1>2. u = Terminal(t.row, t.column, b, d)
  <2>1. t.row \in Int /\ t.column \in Int
    BY <1>1
  <2> QED BY <2>1, PutIs
<1> HIDE DEF i, u
<1>3. b \in Buffers /\ d \in Strays
  BY <1>1, BufferTypes
<1> HIDE DEF b, d
<1>4. u \in Terminals /\ u.row = t.row /\ u.column = t.column /\ u.buffer = b
  BY <1>1, <1>2, <1>3, Parts
<1> QED BY <1>4 DEF u, b, i

(* A character leaves the point in its row, or takes it to the next.       *)
LEMMA PutRow ==
  ASSUME NEW t \in Terminals, NEW g \in Glyphs \union {Newline}
  PROVE  /\ putchar(t, g) \in Terminals
         /\ \/ putchar(t, g).row = t.row
            \/ putchar(t, g).row = IF t.row + 1 = VGA_HEIGHT THEN t.row ELSE t.row + 1
<1>1. CASE g = Newline
  <2>1. putchar(t, g) = next_row(t)
    BY <1>1, Dimensions, PutCharIs
  <2> QED BY <2>1, NextRowFields
<1>2. CASE g \in Glyphs
  <2> DEFINE u == putentryat(t, g, t.column, t.row)
             c == SizeT(t.column + 1)
  <2>1. u \in Terminals /\ u.row = t.row
    BY <1>2, PutFields
  <2>2. putchar(t, g) = IF c = VGA_WIDTH THEN next_row(u) ELSE SetColumn(u, c)
    BY <1>2, PutCharIs DEF SetColumn
  <2>3. c \in Nat
    <3>1. t.column + 1 \in Int
      BY Fields
    <3> QED BY <3>1, SizeTs
  <2> HIDE DEF u, c
  <2>4. /\ next_row(u) \in Terminals
        /\ next_row(u).row = IF t.row + 1 = VGA_HEIGHT THEN t.row ELSE t.row + 1
    BY <2>1, NextRowFields
  <2>5. SetColumn(u, c) \in Terminals /\ SetColumn(u, c).row = t.row
    BY <2>1, <2>3, NextRowParts
  <2> QED BY <2>2, <2>4, <2>5
<1> QED BY <1>1, <1>2

(* A row of the screen is followed by one of the screen.                   *)
LEMMA PutWithin ==
  ASSUME NEW t, Within(t), NEW g \in Glyphs \union {Newline}
  PROVE  Within(putchar(t, g))
<1>1. t \in Terminals /\ t.row \in 0 .. VGA_HEIGHT - 1 /\ VGA_HEIGHT \in Nat
  BY Dimensions DEF Within
<1>2. /\ putchar(t, g) \in Terminals
      /\ \/ putchar(t, g).row = t.row
         \/ putchar(t, g).row = IF t.row + 1 = VGA_HEIGHT THEN t.row ELSE t.row + 1
  BY <1>1, PutRow
<1>3. putchar(t, g).row \in 0 .. VGA_HEIGHT - 1
  BY <1>1, <1>2
<1> QED BY <1>2, <1>3 DEF Within

(* A row below the screen is followed by one below it.                     *)
LEMMA PutBelow ==
  ASSUME NEW t, Below(t), NEW g \in Glyphs \union {Newline}
  PROVE  Below(putchar(t, g))
<1>1. t \in Terminals /\ t.row \in Nat /\ t.row >= VGA_HEIGHT /\ VGA_HEIGHT \in Nat
  BY Dimensions, Fields DEF Below
<1>2. /\ putchar(t, g) \in Terminals
      /\ \/ putchar(t, g).row = t.row
         \/ putchar(t, g).row = IF t.row + 1 = VGA_HEIGHT THEN t.row ELSE t.row + 1
  BY <1>1, PutRow
<1>3. putchar(t, g).row >= VGA_HEIGHT
  BY <1>1, <1>2
<1> QED BY <1>2, <1>3 DEF Below

(* The last line, printed so far: its first k characters are at the start  *)
(* of their row, and the point follows them.                               *)
InLine(t, k) ==
  /\ t \in Terminals /\ t.row \in 1 .. VGA_HEIGHT - 1 /\ t.column = k
  /\ \A x \in 1 .. k : t.buffer[t.row * VGA_WIDTH + x - 1] = LastLine[x]

(* It begins in a row of its own,                                          *)
LEMMA LineBegins ==
  ASSUME VGA_HEIGHT > 1, NEW t, Within(t)
  PROVE  InLine(putchar(t, Newline), 0)
<1>1. t \in Terminals /\ t.row \in 0 .. VGA_HEIGHT - 1 /\ VGA_HEIGHT \in Nat /\ Space \in Glyphs
  BY Dimensions DEF Within
<1>2. putchar(t, Newline) = next_row(t)
  BY <1>1, PutCharIs
<1>3. /\ next_row(t) \in Terminals /\ next_row(t).column = 0
      /\ next_row(t).row = IF t.row + 1 = VGA_HEIGHT THEN t.row ELSE t.row + 1
  BY <1>1, NextRowFields
<1>4. next_row(t).row \in 1 .. VGA_HEIGHT - 1
  BY <1>1, <1>3
<1> QED BY <1>2, <1>3, <1>4 DEF InLine

(* The cell of a column: within the row, each column has its own.          *)
LEMMA CellOf ==
  ASSUME NEW r \in 0 .. VGA_HEIGHT - 1, NEW c \in 0 .. VGA_WIDTH - 1
  PROVE  r * VGA_WIDTH + c \in Cells /\ SizeT(r * VGA_WIDTH + c) = r * VGA_WIDTH + c
<1> DEFINE q == r * VGA_WIDTH
           w == VGA_WIDTH * VGA_HEIGHT
           p == q + c
<1>1. q \in Nat /\ q + VGA_WIDTH <= w
  BY RowEnds
<1>2. VGA_WIDTH \in Nat /\ w \in Nat /\ SIZE_MOD \in Nat /\ MaxErased \in Nat /\ 2 * w + 2 * MaxErased < SIZE_MOD
  BY Dimensions
<1>3. Cells = 0 .. w - 1
  BY DEF Cells
<1> HIDE DEF q, w
<1>4. p \in 0 .. w - 1 /\ p \in Int /\ p >= 0 - SIZE_MOD /\ p < SIZE_MOD /\ ~ p < 0
  BY <1>1, <1>2
<1> HIDE DEF p
<1>5. SizeT(p) = p
  BY <1>4, SizeTIs
<1> QED BY <1>3, <1>4, <1>5 DEF p, q, w

(* goes on character by character, never to the right margin,              *)
LEMMA LineGoesOn ==
  ASSUME NEW k \in 0 .. Len(LastLine) - 1, NEW t, InLine(t, k)
  PROVE  InLine(putchar(t, LastLine[k + 1]), k + 1)
<1> DEFINE l == Len(LastLine)
           g == LastLine[k + 1]
           q == t.row * VGA_WIDTH
           u == putentryat(t, g, t.column, t.row)
<1>1. l \in 1 .. VGA_WIDTH - 1 /\ \A i \in 1 .. l : LastLine[i] \in Glyphs
  BY ReportIs
<1>2. VGA_WIDTH \in Nat /\ VGA_HEIGHT \in Nat
  BY Dimensions
<1>3. t \in Terminals /\ t.row \in 1 .. VGA_HEIGHT - 1 /\ t.row \in 0 .. VGA_HEIGHT - 1 /\ t.column = k
  BY <1>2 DEF InLine
<1>4. k \in 0 .. VGA_WIDTH - 1 /\ k + 1 \in 0 .. VGA_WIDTH - 1 /\ k + 1 \in 1 .. l /\ k \in Nat
  BY <1>1, <1>2
<1>5. g \in Glyphs
  BY <1>1, <1>4
<1>6. q + k \in Cells /\ SizeT(q + k) = q + k /\ q \in Nat
  BY <1>3, <1>4, CellOf, RowEnds
<1>7. u \in Terminals /\ u.row = t.row /\ u.column = k /\ u.buffer = Wrote(t.buffer, q + k, g)
  BY <1>3, <1>5, <1>6, PutFields
<1>8. SizeT(t.column + 1) = k + 1 /\ k + 1 # VGA_WIDTH /\ k + 1 \in Nat
  <2>1. k \in Int /\ k + 1 >= 0 - SIZE_MOD /\ k + 1 < SIZE_MOD /\ ~ k + 1 < 0 /\ k + 1 \in Int
    BY <1>2, <1>4, Dimensions
  <2>2. SizeT(k + 1) = k + 1
    BY <2>1, SizeTIs
  <2> QED BY <1>2, <1>3, <1>4, <2>2
<1>9. putchar(t, g) = SetColumn(u, k + 1)
  BY <1>3, <1>5, <1>8, PutCharIs DEF SetColumn
<1> HIDE DEF u, g
<1> DEFINE v == SetColumn(u, k + 1)
<1>10. v \in Terminals /\ v.row = t.row /\ v.column = k + 1 /\ v.buffer = Wrote(t.buffer, q + k, g)
  BY <1>7, <1>8, NextRowParts
<1> HIDE DEF v
<1>11. \A x \in 1 .. k + 1 : v.buffer[q + x - 1] = LastLine[x]
  <2> SUFFICES ASSUME NEW x \in 1 .. k + 1 PROVE v.buffer[q + x - 1] = LastLine[x]
    OBVIOUS
  <2>1. v.buffer = [t.buffer EXCEPT ![q + k] = g] /\ t.buffer \in Buffers
    BY <1>3, <1>6, <1>10, Fields DEF Wrote
  <2>2. x - 1 \in 0 .. VGA_WIDTH - 1 /\ q + x - 1 = q + (x - 1)
    BY <1>2, <1>4, <1>6
  <2>3. q + x - 1 \in Cells
    BY <1>3, <2>2, CellOf
  <2>4. CASE x = k + 1
    <3>1. q + x - 1 = q + k
      BY <1>4, <1>6, <2>4
    <3>2. v.buffer[q + k] = g
      BY <1>6, <2>1 DEF Buffers
    <3> QED BY <2>4, <3>1, <3>2 DEF g
  <2>5. CASE x # k + 1
    <3>1. x \in 1 .. k /\ q + x - 1 # q + k
      BY <1>4, <1>6, <2>5
    <3>2. v.buffer[q + x - 1] = t.buffer[q + x - 1]
      BY <2>1, <2>3, <3>1 DEF Buffers
    <3> QED BY <3>1, <3>2 DEF InLine
  <2> QED BY <2>4, <2>5
<1> QED BY <1>3, <1>9, <1>10, <1>11 DEF InLine, g, v

(* and ends above the point, scrolled up with it or not.                   *)
LineShown(t) ==
  /\ t \in Terminals /\ t.row \in 1 .. VGA_HEIGHT - 1
  /\ \A x \in 1 .. Len(LastLine) : t.buffer[(t.row - 1) * VGA_WIDTH + x - 1] = LastLine[x]
(* It does when its newline is printed.                                    *)
LEMMA LineEnds ==
  ASSUME NEW t, InLine(t, Len(LastLine))
  PROVE  LineShown(putchar(t, Newline))
<1> DEFINE l == Len(LastLine)
           q == t.row * VGA_WIDTH
           r == t.row
           v == next_row(t)
<1>1. l \in 1 .. VGA_WIDTH - 1
  BY ReportIs
<1>2. VGA_WIDTH \in Nat /\ VGA_HEIGHT \in Nat /\ Space \in Glyphs
  BY Dimensions
<1>3. t \in Terminals /\ r \in 1 .. VGA_HEIGHT - 1 /\ r \in 0 .. VGA_HEIGHT - 1
      /\ \A x \in 1 .. l : t.buffer[q + x - 1] = LastLine[x]
  BY <1>2 DEF InLine
<1>4. putchar(t, Newline) = v
  BY <1>2, <1>3, PutCharIs
<1>5. /\ v \in Terminals
      /\ v.row = IF r + 1 = VGA_HEIGHT THEN r ELSE r + 1
      /\ v.buffer = IF r + 1 = VGA_HEIGHT THEN Scrolled(t.buffer) ELSE t.buffer
  BY <1>3, NextRowFields
<1> HIDE DEF v
<1>6. CASE r + 1 = VGA_HEIGHT
  <2>1. v.row = r /\ v.buffer = Scrolled(t.buffer)
    BY <1>5, <1>6
  <2>2. ASSUME NEW x \in 1 .. l PROVE v.buffer[(r - 1) * VGA_WIDTH + x - 1] = LastLine[x]
    <3> DEFINE p == (r - 1) * VGA_WIDTH
               i == p + x - 1
    <3>1. r - 1 \in 0 .. VGA_HEIGHT - 1 /\ (r - 1) + 1 = r
      BY <1>2, <1>3
    <3>2. p \in Nat /\ q = p + VGA_WIDTH
      BY <3>1, RowEnds
    <3>3. x - 1 \in 0 .. VGA_WIDTH - 1 /\ i = p + (x - 1) /\ i + VGA_WIDTH = q + x - 1 /\ q + x - 1 = q + (x - 1)
      <4> HIDE DEF p, q
      <4> QED BY <1>1, <1>2, <3>2
    <3>4. i \in Cells
      BY <3>1, <3>3, CellOf
    <3>5. i + VGA_WIDTH \in Cells
      BY <1>3, <3>3, CellOf
    <3> HIDE DEF i
    <3>6. v.buffer[i] = t.buffer[i + VGA_WIDTH]
      BY <2>1, <3>4, <3>5 DEF Scrolled
    <3>7. v.buffer[i] = LastLine[x]
      BY <1>3, <3>3, <3>6
    <3> QED BY <3>7 DEF i
  <2> QED BY <1>3, <1>4, <1>5, <2>1, <2>2 DEF LineShown
<1>7. CASE r + 1 # VGA_HEIGHT
  <2>1. v.row = r + 1 /\ v.buffer = t.buffer /\ r + 1 \in 1 .. VGA_HEIGHT - 1 /\ (r + 1) - 1 = r
    BY <1>2, <1>3, <1>5, <1>7
  <2>2. v.row - 1 = r
    BY <2>1
  <2> QED BY <1>3, <1>4, <1>5, <2>1, <2>2 DEF LineShown
<1> QED BY <1>6, <1>7

(* Printed from the screen, the report writes nothing past the buffer.     *)
LEMMA ReportOnScreen ==
  ASSUME NEW t, OnScreenAt(t)
  PROVE  "past" \notin Stp!Vga!writestring(t, Stp!Report).stray
<1> DEFINE s == Stp!Report
           n == Len(s)
           I == [i \in 0 .. n |-> {u \in Terminals : OnScreenAt(u)}]
<1>1. n \in Nat /\ \A i \in 1 .. n : s[i] \in Glyphs \union {Newline}
  BY ReportIs
<1>2. \A i \in 0 .. n - 1 : \A u \in I[i] : putchar(u, s[i + 1]) \in I[i + 1]
  <2> SUFFICES ASSUME NEW i \in 0 .. n - 1, NEW u \in I[i] PROVE putchar(u, s[i + 1]) \in I[i + 1]
    OBVIOUS
  <2>1. i \in 0 .. n /\ i + 1 \in 0 .. n /\ i + 1 \in 1 .. n
    BY <1>1
  <2>2. OnScreenAt(u) /\ s[i + 1] \in Glyphs \union {Newline}
    BY <1>1, <2>1
  <2>3. OnScreenAt(putchar(u, s[i + 1]))
    BY <2>2, PutStays
  <2>4. putchar(u, s[i + 1]) \in Terminals
    BY <2>3 DEF OnScreenAt
  <2> QED BY <2>1, <2>3, <2>4
<1>3. t \in I[0]
  BY <1>1 DEF OnScreenAt
<1> HIDE DEF I, s
<1>4. Stp!Vga!writestring(t, s) \in I[n]
  BY <1>1, <1>2, <1>3, WriteKeeps
<1>5. OnScreenAt(Stp!Vga!writestring(t, s))
  <2>1. n \in 0 .. n
    BY <1>1
  <2> HIDE DEF n
  <2> QED BY <1>4, <2>1 DEF I
<1> QED BY <1>5 DEF OnScreenAt, s

(* Printed from below the screen, it ends below the screen.                *)
LEMMA ReportBelow ==
  ASSUME NEW t, Below(t)
  PROVE  Below(Stp!Vga!writestring(t, Stp!Report))
<1> DEFINE s == Stp!Report
           n == Len(s)
           I == [i \in 0 .. n |-> {u \in Terminals : Below(u)}]
<1>1. n \in Nat /\ \A i \in 1 .. n : s[i] \in Glyphs \union {Newline}
  BY ReportIs
<1>2. \A i \in 0 .. n - 1 : \A u \in I[i] : putchar(u, s[i + 1]) \in I[i + 1]
  <2> SUFFICES ASSUME NEW i \in 0 .. n - 1, NEW u \in I[i] PROVE putchar(u, s[i + 1]) \in I[i + 1]
    OBVIOUS
  <2>1. i \in 0 .. n /\ i + 1 \in 0 .. n /\ i + 1 \in 1 .. n
    BY <1>1
  <2>2. Below(u) /\ s[i + 1] \in Glyphs \union {Newline}
    BY <1>1, <2>1
  <2>3. Below(putchar(u, s[i + 1]))
    BY <2>2, PutBelow
  <2>4. putchar(u, s[i + 1]) \in Terminals
    BY <2>3 DEF Below
  <2> QED BY <2>1, <2>3, <2>4
<1>3. t \in I[0]
  BY <1>1 DEF Below
<1> HIDE DEF I, s
<1>4. Stp!Vga!writestring(t, s) \in I[n]
  BY <1>1, <1>2, <1>3, WriteKeeps
<1>5. Below(Stp!Vga!writestring(t, s))
  <2>1. n \in 0 .. n
    BY <1>1
  <2> HIDE DEF n
  <2> QED BY <1>4, <2>1 DEF I
<1> QED BY <1>5 DEF s

(* Printed from a row of the screen, wherever in it, its last line shows.  *)
LEMMA ReportWithin ==
  ASSUME VGA_HEIGHT > 1, NEW t, Within(t)
  PROVE  LineShown(Stp!Vga!writestring(t, Stp!Report))
<1> DEFINE s == Stp!Report
           n == Len(s)
           a == Len(FirstLine)
           l == Len(LastLine)
           P(i, u) == IF i <= a THEN Within(u)
                      ELSE IF i < n THEN InLine(u, i - (a + 1)) ELSE LineShown(u)
           I == [i \in 0 .. n |-> {u \in Terminals : P(i, u)}]
<1>1. /\ n \in Nat /\ a \in Nat /\ l \in Nat \ {0} /\ n = (a + 1) + (l + 1)
      /\ \A i \in 1 .. n : s[i] \in Glyphs \union {Newline}
      /\ s[a + 1] = Newline /\ s[n] = Newline
      /\ \A k \in 1 .. l : s[(a + 1) + k] = LastLine[k]
  <2>1. VGA_WIDTH \in Nat
    BY Dimensions
  <2> QED BY <2>1, ReportIs
<1> HIDE DEF s, n, a, l
<1>2. \A u : (Within(u) \/ LineShown(u) \/ \E k : InLine(u, k)) => u \in Terminals
  BY DEF Within, LineShown, InLine
<1>3. ASSUME NEW i \in 0 .. n - 1, NEW u, P(i, u)
      PROVE  P(i + 1, putchar(u, s[i + 1]))
  <2>1. CASE i < a
    <3>1. i + 1 \in 1 .. n /\ i + 1 <= a /\ i <= a
      BY <1>1, <2>1
    <3>2. Within(putchar(u, s[i + 1]))
      BY <1>1, <1>3, <3>1, PutWithin
    <3> QED BY <3>1, <3>2
  <2>2. CASE i = a
    <3>1. i <= a /\ ~ i + 1 <= a /\ i + 1 < n /\ (i + 1) - (a + 1) = 0
      BY <1>1, <2>2
    <3>2. s[i + 1] = Newline
      BY <1>1, <2>2
    <3>3. InLine(putchar(u, s[i + 1]), 0)
      BY <1>3, <3>1, <3>2, LineBegins
    <3> QED BY <3>1, <3>3
  <2>3. CASE i > a /\ i < n - 1
    <3> DEFINE k == i - (a + 1)
    <3>1. /\ k \in 0 .. l - 1 /\ k + 1 \in 1 .. l /\ i + 1 = (a + 1) + (k + 1)
          /\ ~ i <= a /\ i < n /\ ~ i + 1 <= a /\ i + 1 < n /\ (i + 1) - (a + 1) = k + 1
      BY <1>1, <2>3
    <3>2. InLine(u, k)
      BY <1>3, <3>1
    <3> HIDE DEF k
    <3>3. s[i + 1] = LastLine[k + 1]
      BY <1>1, <3>1
    <3>4. InLine(putchar(u, LastLine[k + 1]), k + 1)
      BY <3>1, <3>2, LineGoesOn DEF l
    <3> QED BY <3>1, <3>3, <3>4
  <2>4. CASE i = n - 1
    <3>1. /\ ~ i <= a /\ i < n /\ i - (a + 1) = l
          /\ ~ i + 1 <= a /\ ~ i + 1 < n /\ i + 1 = n
      BY <1>1, <2>4
    <3>2. InLine(u, l)
      BY <1>3, <3>1
    <3>3. s[i + 1] = Newline
      BY <1>1, <3>1
    <3>4. LineShown(putchar(u, Newline))
      BY <3>2, LineEnds DEF l
    <3> QED BY <3>1, <3>3, <3>4
  <2> QED BY <1>1, <2>1, <2>2, <2>3, <2>4
<1>4. \A i, u : P(i, u) => u \in Terminals
  BY <1>2
<1> HIDE DEF P
<1>5. \A i \in 0 .. n - 1 : \A u \in I[i] : putchar(u, s[i + 1]) \in I[i + 1]
  <2> SUFFICES ASSUME NEW i \in 0 .. n - 1, NEW u \in I[i] PROVE putchar(u, s[i + 1]) \in I[i + 1]
    OBVIOUS
  <2>1. i \in 0 .. n /\ i + 1 \in 0 .. n
    BY <1>1
  <2>2. P(i, u)
    BY <2>1
  <2>3. P(i + 1, putchar(u, s[i + 1]))
    BY <1>3, <2>2
  <2> QED BY <1>4, <2>1, <2>3
<1>6. t \in I[0]
  <2>1. P(0, t)
    BY <1>1 DEF P
  <2>2. 0 \in 0 .. n
    BY <1>1
  <2> QED BY <1>4, <2>1, <2>2
<1> HIDE DEF I
<1>7. Stp!Vga!writestring(t, s) \in I[n]
  BY <1>1, <1>5, <1>6, WriteKeeps DEF n
<1>8. P(n, Stp!Vga!writestring(t, s))
  <2>1. n \in 0 .. n
    BY <1>1
  <2> QED BY <1>7, <2>1 DEF I
<1>9. ~ n <= a /\ ~ n < n
  BY <1>1
<1> QED BY <1>8, <1>9 DEF P, s

(* The report of an exception tears what is printed, as ReportTorn says.   *)
LEMMA ReportStep ==
  ASSUME VGA_HEIGHT > 1, Placed, Stp!fault_handler
  PROVE  ReportTorn'
<1> DEFINE t == stepTerm
           v == Stp!Vga!writestring(t, Stp!Report)
<1>1. label # "halted" /\ label' = "halted" /\ hit' = t /\ stepTerm' = v
  BY DEF Stp!fault_handler
<1>2. t \in Terminals /\ t.row \in 0 .. VGA_HEIGHT /\ t.row \in Nat /\ VGA_HEIGHT \in Nat
  BY <1>1, Dimensions, Fields DEF Placed
<1> HIDE DEF v
<1>3. Stp!PastEndOnlyTorn'
  <2> SUFFICES ASSUME ~ (t.row = VGA_HEIGHT \/ t.column = VGA_WIDTH)
               PROVE  "past" \notin v.stray
    BY <1>1 DEF Stp!PastEndOnlyTorn, Stp!OffScreen
  <2>1. OnScreenAt(t)
    BY <1>1, <1>2 DEF Placed, OnScreenAt
  <2> QED BY <2>1, ReportOnScreen DEF v
<1>4. Stp!Shown' <=> /\ v.row \in 1 .. VGA_HEIGHT - 1
                     /\ \A x \in 1 .. Len(LastLine) : v.buffer[(v.row - 1) * VGA_WIDTH + x - 1] = LastLine[x]
  BY <1>1 DEF Stp!Shown
<1>5. Stp!Shown' <=> t.row < VGA_HEIGHT
  <2>1. CASE t.row < VGA_HEIGHT
    <3>1. Within(t)
      BY <1>2, <2>1 DEF Within
    <3>2. LineShown(v)
      BY <3>1, ReportWithin DEF v
    <3> QED BY <1>4, <2>1, <3>2 DEF LineShown
  <2>2. CASE ~ t.row < VGA_HEIGHT
    <3>1. Below(t)
      BY <1>2, <2>2 DEF Below
    <3>2. Below(v)
      BY <3>1, ReportBelow DEF v
    <3>3. v.row \in Nat /\ v.row >= VGA_HEIGHT
      BY <3>2, Fields DEF Below
    <3>4. v.row \notin 1 .. VGA_HEIGHT - 1
      BY <1>2, <3>3
    <3> QED BY <1>4, <2>2, <3>4
  <2> QED BY <2>1, <2>2
<1>6. Stp!LostOnlyInScroll'
  BY <1>1, <1>5 DEF Stp!LostOnlyInScroll
<1> QED BY <1>3, <1>6 DEF ReportTorn

(* Where the point is, until an exception; and what its report left, then. *)
Torn == Placed /\ (label = "halted" => ReportTorn)

(* Every step of the console or of another unit.                           *)
LEMMA TornNext ==
  ASSUME VGA_HEIGHT > 1, StepInv, StepInv', Torn, [UnitsNext]_unitsVars
  PROVE  Torn'
<1>1. CASE Steps
  <2>1. Stp!Next
    BY <1>1 DEF Steps
  <2>2. ASSUME NEW c \in Glyphs \union {Newline}, Stp!Call(c) PROVE Torn'
    <3>1. /\ label = "idle" /\ label' = IF c = Newline THEN "newline row" ELSE "put"
          /\ stepTerm' = stepTerm
      BY <2>2 DEF Stp!Call, Stp!Go
    <3>2. OnScreenAt(stepTerm)
      BY <3>1, PlacedOnScreen DEF Torn, Scrolling
    <3>3. label' # "halted" /\ stepTerm' = stepTerm
      BY <3>1
    <3>4. VGA_HEIGHT \in Nat
      BY Dimensions
    <3> QED BY <3>2, <3>3, <3>4 DEF OnScreenAt, Placed, Torn
  <2>3. ASSUME Stp!Erase PROVE Torn'
    <3>1. label = "idle" /\ label' \in {"erase", "idle"} /\ stepTerm' = stepTerm
      BY <2>3 DEF Stp!Erase, Stp!Go
    <3>2. OnScreenAt(stepTerm)
      BY <3>1, PlacedOnScreen DEF Torn, Scrolling
    <3>3. label' # "halted" /\ VGA_HEIGHT \in Nat
      BY <3>1, Dimensions
    <3> QED BY <3>1, <3>2, <3>3 DEF OnScreenAt, Placed, Torn
  <2>4. ASSUME Stp!CopyRow \/ Stp!BlankRow PROVE Torn'
    <3>1. PICK b : /\ label = "copy" /\ label' \in {"copy", "dec"} /\ stepTerm' = SetBuffer(stepTerm, b)
      BY <2>4 DEF Stp!CopyRow, Stp!BlankRow, Stp!Go, SetBuffer
    <3>2. stepTerm \in Terminals /\ stepTerm' \in Terminals
      BY <3>1 DEF StepInv
    <3>3. stepTerm'.row = stepTerm.row /\ stepTerm'.column = stepTerm.column /\ stepTerm'.stray = stepTerm.stray
      BY <3>1, <3>2 DEF SetBuffer, Terminals
    <3>4. label' # "halted" /\ label' \in Scrolling
      BY <3>1 DEF Scrolling
    <3> QED BY <3>1, <3>2, <3>3, <3>4 DEF Placed, Torn
  <2>5. ASSUME Stp!Assign PROVE Torn'
    <3>1. Placed'
      BY <2>5, AssignPlaces DEF Torn
    <3>2. label' # "halted"
      BY <2>5 DEF Stp!Assign, Stp!Go, Stp!AfterRow
    <3> QED BY <3>1, <3>2 DEF Torn
  <2>6. ASSUME Stp!fault_handler PROVE Torn'
    <3>1. ReportTorn'
      BY <2>6, ReportStep DEF Torn
    <3>2. label' = "halted"
      BY <2>6 DEF Stp!fault_handler
    <3> QED BY <3>1, <3>2 DEF Torn, Placed
  <2>7. ASSUME Stp!Loop PROVE Torn'
    <3>1. label = "halted" /\ label' = label /\ stepTerm' = stepTerm /\ hit' = hit
      BY <2>7 DEF Stp!Loop, Stp!vars
    <3>2. ReportTorn => ReportTorn'
      BY <3>1 DEF ReportTorn, Stp!PastEndOnlyTorn, Stp!LostOnlyInScroll, Stp!Shown, Stp!OffScreen
    <3> QED BY <3>1, <3>2 DEF Torn, Placed
  <2> QED BY <2>1, <2>2, <2>3, <2>4, <2>5, <2>6, <2>7 DEF Stp!Next
<1>2. CASE UNCHANGED stpVars
  <2>1. label' = label /\ stepTerm' = stepTerm /\ hit' = hit
    BY <1>2 DEF stpVars
  <2>2. ReportTorn => ReportTorn'
    BY <2>1 DEF ReportTorn, Stp!PastEndOnlyTorn, Stp!LostOnlyInScroll, Stp!Shown, Stp!OffScreen
  <2> QED BY <2>1, <2>2 DEF Torn, Placed
<1> QED BY <1>1, <1>2 DEF UnitsNext, unitsVars, Calls, Keyboard, Clock, Itoa, Drawing

(* On a screen of at least two rows, of any size, whatever was printed,    *)
(* typed, erased or scrolled and between whichever two assignments the     *)
(* exception comes: nothing is ever written past the frame buffer, except  *)
(* by a report that found the point off the screen, and the report can be  *)
(* read unless the console was scrolling; then it is lost.                 *)
THEOREM ReportsRight == VGA_HEIGHT > 1 => (UnitsSpec => []ReportTorn)
<1> SUFFICES ASSUME VGA_HEIGHT > 1 PROVE UnitsSpec => []ReportTorn
  OBVIOUS
<1>1. UnitsInit => StepInv /\ Torn
  <2> SUFFICES ASSUME UnitsInit PROVE StepInv /\ Torn
    OBVIOUS
  <2>1. StepInv
    BY ConsoleStart
  <2>2. label = "idle" /\ "past" \notin stepTerm.stray
    BY OneConsole DEF UnitsInit, Stp!Init, terminal_initialize
  <2> QED BY <2>1, <2>2, IdlePlaced DEF Torn
<1>2. StepInv /\ Torn /\ [UnitsNext]_unitsVars => StepInv' /\ Torn'
  BY ConsoleMoves, TornNext
<1>3. StepInv /\ Torn => ReportTorn
  <2> SUFFICES ASSUME Torn, label # "halted" PROVE ReportTorn
    BY DEF Torn
  <2> QED BY DEF Torn, Placed, ReportTorn, Stp!PastEndOnlyTorn, Stp!LostOnlyInScroll
<1> QED BY <1>1, <1>2, <1>3, PTL DEF UnitsSpec

-----------------------------------------------------------------------------
(* itoa: a loop over the digits and a loop that inverts them               *)

(* Induction, for a set in place of a predicate.                           *)
LEMMA AllOf ==
  ASSUME NEW S, 0 \in S, \A n \in Nat : n \in S => n + 1 \in S
  PROVE  Nat \subseteq S
<1> DEFINE Bad == {n \in Nat : n \notin S}
<1> SUFFICES ASSUME Bad # {} PROVE FALSE
  OBVIOUS
<1>1. PICK m \in Bad : \A k \in Bad : m <= k
  <2>1. Bad \subseteq Nat
    OBVIOUS
  <2> HIDE DEF Bad
  <2> QED BY <2>1, LeastOf
<1>2. m # 0 /\ m - 1 \in Nat /\ m - 1 \in S /\ (m - 1) + 1 = m
  BY <1>1
<1>3. (m - 1) + 1 \in S
  BY <1>2
<1> QED BY <1>1, <1>2, <1>3

(* The powers of the base, up to the n-th.                                 *)
PowersTo(f, n) == f = [i \in 0 .. n |-> IF i = 0 THEN 1 ELSE base * f[i - 1]]

(* One more power can be added,                                            *)
LEMMA PowersOne ==
  ASSUME NEW n \in Nat, NEW f, PowersTo(f, n)
  PROVE  \E g : PowersTo(g, n + 1)
<1> DEFINE g == [i \in 0 .. n + 1 |-> IF i = n + 1 THEN base * f[n] ELSE f[i]]
<1>1. ASSUME NEW i \in 0 .. n + 1
      PROVE  g[i] = IF i = 0 THEN 1 ELSE base * g[i - 1]
  <2>1. CASE i = n + 1
    <3>1. g[i - 1] = f[n] /\ i # 0
      BY <2>1
    <3> QED BY <2>1, <3>1
  <2>2. CASE i # n + 1
    <3>1. i \in 0 .. n /\ g[i] = f[i] /\ (i # 0 => g[i - 1] = f[i - 1])
      BY <2>2
    <3> QED BY <3>1 DEF PowersTo
  <2> QED BY <2>1, <2>2
<1>2. g = [i \in 0 .. n + 1 |-> g[i]]
  OBVIOUS
<1> HIDE DEF g
<1>3. PowersTo(g, n + 1)
  BY <1>1, <1>2 DEF PowersTo
<1> QED BY <1>3

(* hence there are powers up to any.                                       *)
LEMMA PowersAll ==
  ASSUME NEW n \in Nat
  PROVE  \E f : PowersTo(f, n)
<1> DEFINE S == {i \in Nat : \E f : PowersTo(f, i)}
<1>1. 0 \in S
  <2>1. PowersTo([i \in 0 .. 0 |-> 1], 0)
    BY DEF PowersTo
  <2> QED BY <2>1
<1>2. \A i \in Nat : i \in S => i + 1 \in S
  BY PowersOne
<1>3. Nat \subseteq S
  <2> HIDE DEF S
  <2> QED BY <1>1, <1>2, AllOf
<1> QED BY <1>3

(* They do not depend on how far they go.                                  *)
LEMMA PowersAgree ==
  ASSUME NEW m \in Nat, NEW n \in Nat, NEW f, NEW g, PowersTo(f, m), PowersTo(g, n),
         NEW k \in Nat, k <= m, k <= n
  PROVE  f[k] = g[k]
<1> DEFINE S == {i \in Nat : i <= m /\ i <= n => f[i] = g[i]}
<1>1. 0 \in S
  BY DEF PowersTo
<1>2. ASSUME NEW i \in Nat, i \in S PROVE i + 1 \in S
  <2> SUFFICES ASSUME i + 1 <= m, i + 1 <= n PROVE f[i + 1] = g[i + 1]
    OBVIOUS
  <2>1. f[i] = g[i] /\ i + 1 \in 0 .. m /\ i + 1 \in 0 .. n /\ i + 1 # 0 /\ (i + 1) - 1 = i
    BY <1>2
  <2>2. f[i + 1] = base * f[(i + 1) - 1]
    BY <2>1 DEF PowersTo
  <2>3. g[i + 1] = base * g[(i + 1) - 1]
    BY <2>1 DEF PowersTo
  <2> QED BY <2>1, <2>2, <2>3
<1>3. Nat \subseteq S
  <2> HIDE DEF S
  <2> QED BY <1>1, <1>2, AllOf
<1> QED BY <1>3

(* So they are what their definition says.                                 *)
LEMMA PowerIs ==
  ASSUME base \in Nat
  PROVE  /\ Num!Power[0] = 1
         /\ \A n \in Nat : Num!Power[n] \in Nat /\ Num!Power[n + 1] = base * Num!Power[n]
<1> DEFINE To(n) == CHOOSE f : PowersTo(f, n)
           F == [n \in Nat |-> To(n)[n]]
<1>1. \A n \in Nat : PowersTo(To(n), n)
  BY PowersAll
<1> HIDE DEF To
<1>2. ASSUME NEW n \in Nat PROVE F[n] = IF n = 0 THEN 1 ELSE base * F[n - 1]
  <2>1. CASE n = 0
    <3>1. To(0)[0] = 1
      BY <1>1 DEF PowersTo
    <3> QED BY <2>1, <3>1
  <2>2. CASE n # 0
    <3>1. n - 1 \in Nat /\ n - 1 <= n /\ n \in 0 .. n
      BY <2>2
    <3>2. PowersTo(To(n), n) /\ PowersTo(To(n - 1), n - 1)
      BY <1>1, <3>1
    <3>3. To(n)[n] = base * To(n)[n - 1]
      BY <2>2, <3>1, <3>2 DEF PowersTo
    <3>4. To(n)[n - 1] = To(n - 1)[n - 1]
      BY <3>1, <3>2, PowersAgree
    <3> QED BY <2>2, <3>1, <3>3, <3>4
  <2> QED BY <2>1, <2>2
<1>3. F = [n \in Nat |-> IF n = 0 THEN 1 ELSE base * F[n - 1]]
  <2>1. F = [n \in Nat |-> F[n]]
    OBVIOUS
  <2> HIDE DEF F
  <2> QED BY <1>2, <2>1
<1>4. Num!Power = [n \in Nat |-> IF n = 0 THEN 1 ELSE base * Num!Power[n - 1]]
  <2>1. Num!Power = CHOOSE f : f = [n \in Nat |-> IF n = 0 THEN 1 ELSE base * f[n - 1]]
    BY DEF Num!Power
  <2> HIDE DEF F
  <2> QED BY <1>3, <2>1
<1>5. Num!Power[0] = 1 /\ \A n \in Nat : Num!Power[n + 1] = base * Num!Power[n]
  <2>1. \A n \in Nat : Num!Power[n] = IF n = 0 THEN 1 ELSE base * Num!Power[n - 1]
    BY <1>4
  <2>2. ASSUME NEW n \in Nat PROVE Num!Power[n + 1] = base * Num!Power[n]
    <3>1. n + 1 \in Nat /\ n + 1 # 0 /\ (n + 1) - 1 = n
      OBVIOUS
    <3> QED BY <2>1, <3>1
  <2> QED BY <2>1, <2>2
<1> DEFINE S == {n \in Nat : Num!Power[n] \in Nat}
<1>6. Nat \subseteq S
  <2>1. 0 \in S
    BY <1>5
  <2>2. \A n \in Nat : n \in S => n + 1 \in S
    BY <1>5
  <2> HIDE DEF S
  <2> QED BY <2>1, <2>2, AllOf
<1> QED BY <1>5, <1>6

(* They grow, faster than their number.                                    *)
LEMMA PowersGrow ==
  ASSUME base \in Nat, base >= 2
  PROVE  /\ \A n \in Nat : Num!Power[n] \in Nat /\ n < Num!Power[n]
         /\ \A n \in Nat : \A m \in 0 .. n : Num!Power[m] <= Num!Power[n]
<1>1. Num!Power[0] = 1 /\ \A n \in Nat : Num!Power[n] \in Nat /\ Num!Power[n + 1] = base * Num!Power[n]
  BY PowerIs
<1>2. ASSUME NEW n \in Nat PROVE 2 * Num!Power[n] <= Num!Power[n + 1]
  <2> DEFINE p == Num!Power[n]
  <2>1. p \in Nat /\ Num!Power[n + 1] = base * p
    BY <1>1
  <2> HIDE DEF p
  <2>2. p * 2 <= p * base /\ p * 2 = 2 * p /\ p * base = base * p
    BY <2>1, ProductOrder
  <2> QED BY <2>1, <2>2 DEF p
<1>3. \A n \in Nat : Num!Power[n] <= Num!Power[n + 1]
  BY <1>1, <1>2
<1> DEFINE S == {n \in Nat : n < Num!Power[n] /\ \A m \in 0 .. n : Num!Power[m] <= Num!Power[n]}
<1>4. Nat \subseteq S
  <2>1. 0 \in S
    BY <1>1
  <2>2. ASSUME NEW n \in Nat, n \in S PROVE n + 1 \in S
    <3>1. n + 1 \in Nat /\ Num!Power[n] \in Nat /\ Num!Power[n + 1] \in Nat /\ n < Num!Power[n]
      BY <1>1, <2>2
    <3>2. n + 1 < Num!Power[n + 1]
      BY <1>2, <3>1
    <3>3. ASSUME NEW m \in 0 .. n + 1 PROVE Num!Power[m] <= Num!Power[n + 1]
      <4>1. CASE m = n + 1
        BY <3>1, <4>1
      <4>2. CASE m # n + 1
        <5>1. m \in 0 .. n /\ m \in Nat
          BY <4>2
        <5>2. Num!Power[m] <= Num!Power[n] /\ Num!Power[n] <= Num!Power[n + 1]
          BY <1>3, <2>2, <5>1
        <5> QED BY <1>1, <3>1, <5>1, <5>2
      <4> QED BY <4>1, <4>2
    <3> QED BY <3>1, <3>2, <3>3
  <2> HIDE DEF S
  <2> QED BY <2>1, <2>2, AllOf
<1> QED BY <1>1, <1>4

(* The digits of a value, least first, and how many there are.             *)
Magnitude == Num!Abs(value)
DigitAt(i) == (Magnitude \div Num!Power[i - 1]) % base
IntIn2To36 == /\ INT_MAX \in Nat /\ value \in Int /\ -INT_MAX - 1 <= value /\ value <= INT_MAX
              /\ base \in Nat /\ base >= 2 /\ base <= 36

(* Division that rounds towards zero divides the magnitude, and leaves the *)
(* magnitude's remainder.                                                  *)
LEMMA RoundsToZero ==
  ASSUME NEW v \in Int, NEW b \in Nat \ {0}
  PROVE  /\ Num!Abs(v) \in Nat /\ Num!CQuotient(v, b) \in Int
         /\ Num!Abs(Num!CQuotient(v, b)) = Num!Abs(v) \div b
         /\ Num!Digit(v, b) = Num!Abs(v) % b
         /\ Num!CQuotient(v, b) = 0 <=> Num!Abs(v) \div b = 0
<1>1. CASE v >= 0
  <2> DEFINE q == v \div b
             r == v % b
  <2>1. q \in Nat /\ r \in 0 .. b - 1 /\ v = b * q + r
    <3>1. v \in Nat
      BY <1>1
    <3> QED BY <3>1, Quotients
  <2>2. Num!Abs(v) = v /\ Num!CQuotient(v, b) = q
    BY <1>1 DEF Num!Abs, Num!CQuotient
  <2> HIDE DEF q, r
  <2>3. b * q \in Nat /\ v - b * q = r /\ Num!Abs(r) = r /\ Num!Abs(q) = q
    BY <2>1 DEF Num!Abs
  <2>4. Num!Digit(v, b) = r
    BY <2>2, <2>3 DEF Num!Digit
  <2> QED BY <1>1, <2>1, <2>2, <2>3, <2>4 DEF q, r
<1>2. CASE v < 0
  <2> DEFINE n == - v
             q == n \div b
             r == n % b
  <2>1. n \in Nat
    BY <1>2
  <2>2. q \in Nat /\ r \in 0 .. b - 1 /\ n = b * q + r
    BY <2>1, Quotients
  <2>3. Num!Abs(v) = n /\ Num!CQuotient(v, b) = - q
    BY <1>2 DEF Num!Abs, Num!CQuotient
  <2> HIDE DEF q, r
  <2>4. b * q \in Nat /\ b * (- q) = - (b * q) /\ v - b * (- q) = - r
    <3>1. b * q \in Nat
      BY <2>2
    <3>2. b * (- q) = - (b * q)
      BY <2>2
    <3> QED BY <2>2, <3>1, <3>2
  <2>5. Num!Abs(- r) = r /\ Num!Abs(- q) = q /\ (- q = 0 <=> q = 0)
    BY <2>2 DEF Num!Abs
  <2>6. Num!Digit(v, b) = r
    BY <2>3, <2>4, <2>5 DEF Num!Digit
  <2> QED BY <2>1, <2>2, <2>3, <2>5, <2>6 DEF q, r
<1> QED BY <1>1, <1>2

(* A turn of the loop: it writes the next digit, and leaves the rest.      *)
LEMMA NextDigit ==
  ASSUME IntIn2To36, NEW k \in Nat, NEW v \in Int,
         Num!Abs(v) = Magnitude \div Num!Power[k]
  PROVE  /\ Num!CQuotient(v, base) \in Int
         /\ Num!Digit(v, base) = DigitAt(k + 1)
         /\ Num!Abs(Num!CQuotient(v, base)) = Magnitude \div Num!Power[k + 1]
         /\ Num!CQuotient(v, base) = 0 <=> Magnitude \div Num!Power[k + 1] = 0
<1> DEFINE n == Magnitude
           p == Num!Power[k]
           q == n \div p
<1>1. base \in Nat \ {0} /\ base >= 2 /\ base \in Nat
  BY DEF IntIn2To36
<1>2. p \in Nat \ {0} /\ Num!Power[k + 1] = base * p /\ Num!Power[k + 1] \in Nat
  <2>1. k + 1 \in Nat
    OBVIOUS
  <2>2. p \in Nat /\ k < p
    BY <1>1, PowersGrow
  <2>3. p # 0
    BY <2>2
  <2> QED BY <1>1, <2>1, <2>2, <2>3, PowerIs
<1>3. n \in Nat
  BY RoundsToZero, <1>1 DEF Magnitude, IntIn2To36
<1> HIDE DEF n, p
<1>4. q \in Nat
  BY <1>2, <1>3, Quotients
<1>5. Num!Power[k + 1] # 0 /\ q \div base = n \div Num!Power[k + 1]
  <2>1. IsProduct(Num!Power[k + 1], p, base)
    BY <1>1, <1>2 DEF IsProduct
  <2>2. IsQuotient(q, n, p)
    BY DEF IsQuotient
  <2> DEFINE de == Num!Power[k + 1]
  <2>3. de \in Nat /\ IsProduct(de, p, base)
    BY <1>2, <2>1
  <2> HIDE DEF q, de
  <2>4. de # 0 /\ IsQuotient(q \div base, n, de)
    <3>1. Halved(n, p, base, de, q)
      BY <1>1, <1>2, <1>3, <1>4, <2>2, <2>3, Nested
    <3> QED BY <3>1 DEF Halved
  <2> QED BY <2>4 DEF IsQuotient, de
<1>6. Num!Abs(v) = q
  BY DEF n, p
<1>7. Num!Digit(v, base) = q % base /\ Num!Abs(Num!CQuotient(v, base)) = q \div base
      /\ (Num!CQuotient(v, base) = 0 <=> q \div base = 0) /\ Num!CQuotient(v, base) \in Int
  BY <1>1, <1>6, RoundsToZero
<1>8. DigitAt(k + 1) = q % base
  <2>1. (k + 1) - 1 = k
    OBVIOUS
  <2> QED BY <2>1 DEF DigitAt, n, p
<1> QED BY <1>5, <1>7, <1>8 DEF n

(* When nothing is left, there are as many digits as the number has.       *)
LEMMA LengthIs ==
  ASSUME IntIn2To36, NEW k \in Nat \ {0}, Magnitude \div Num!Power[k] = 0,
         k > 1 => Magnitude \div Num!Power[k - 1] # 0
  PROVE  k \in 1 .. INT_MAX + 2 /\ Num!Length = k
<1> DEFINE n == Magnitude
           P == Num!Power
           Spans(i) == n < P[i] /\ (i > 1 => P[i - 1] <= n)
<1>1. base \in Nat \ {0} /\ base >= 2 /\ base \in Nat
  BY DEF IntIn2To36
<1>2. n \in Nat /\ INT_MAX \in Nat /\ n <= INT_MAX + 1
  BY DEF Magnitude, IntIn2To36, Num!Abs
<1>3. /\ \A i \in Nat : P[i] \in Nat /\ i < P[i]
      /\ \A i \in Nat : \A m \in 0 .. i : P[m] <= P[i]
  BY <1>1, PowersGrow
<1>4. ASSUME NEW i \in Nat PROVE n \div P[i] = 0 <=> n < P[i]
  <2> DEFINE p == P[i]
             q == n \div p
             r == n % p
  <2>1. p \in Nat \ {0}
    <3>1. P[i] \in Nat /\ i < P[i]
      BY <1>3
    <3> QED BY <3>1
  <2>2. q \in Nat /\ r \in 0 .. p - 1 /\ n = p * q + r
    <3> HIDE DEF n, p
    <3> QED BY <1>2, <2>1, Quotients
  <2> HIDE DEF n, p, q, r
  <2>3. CASE q = 0
    <3>1. p * q = 0
      BY <2>1, <2>3
    <3>2. n = r
      BY <2>2, <3>1
    <3> QED BY <2>1, <2>2, <2>3, <3>2 DEF p, q
  <2>4. CASE q # 0
    <3>1. p * 1 <= p * q /\ p * 1 = p /\ p * q \in Nat
      BY <2>1, <2>2, <2>4, ProductOrder
    <3>2. p <= n
      BY <2>1, <2>2, <3>1
    <3>3. ~ n < p
      BY <1>2, <2>1, <3>2
    <3> QED BY <2>4, <3>3 DEF p, q
  <2> QED BY <2>3, <2>4
<1> HIDE DEF n, P
<1>5. Spans(k)
  <2>1. n < P[k]
    BY <1>4 DEF n, P
  <2>2. ASSUME k > 1 PROVE P[k - 1] <= n
    <3>1. k - 1 \in Nat /\ n \div P[k - 1] # 0
      BY <2>2 DEF n, P
    <3>2. ~ n < P[k - 1] /\ P[k - 1] \in Nat
      BY <1>3, <1>4, <3>1
    <3> QED BY <1>2, <3>2
  <2> QED BY <2>1, <2>2
<1>6. k \in 1 .. INT_MAX + 2
  <2> SUFFICES ASSUME k > INT_MAX + 2 PROVE FALSE
    BY <1>2
  <2>1. k > 1 /\ P[k - 1] <= n /\ k - 1 \in Nat
    BY <1>2, <1>5
  <2>2. k - 1 < P[k - 1] /\ P[k - 1] \in Nat
    BY <1>3, <2>1
  <2> QED BY <1>2, <2>1, <2>2
<1>7. ASSUME NEW i \in 1 .. INT_MAX + 2, NEW j \in 1 .. INT_MAX + 2, Spans(i), Spans(j), i < j PROVE FALSE
  <2>1. P[j - 1] <= n /\ j - 1 \in Nat /\ i \in 0 .. j - 1
    BY <1>7
  <2>2. P[i] <= P[j - 1] /\ P[i] \in Nat /\ P[j - 1] \in Nat /\ n < P[i]
    BY <1>3, <1>7, <2>1
  <2> QED BY <1>2, <2>1, <2>2
<1>8. ASSUME NEW i \in 1 .. INT_MAX + 2, Spans(i) PROVE i = k
  BY <1>5, <1>6, <1>7, <1>8
<1>9. Num!Length = CHOOSE i \in 1 .. INT_MAX + 2 : Spans(i)
  BY DEF Num!Length, Magnitude, n, P
<1> HIDE DEF Spans
<1> QED BY <1>5, <1>6, <1>8, <1>9

(* The characters: the sign, if there is one, and digits in some order.    *)
Signed == IF value < 0 /\ base = 10 THEN 1 ELSE 0
Text(d, k) == [p \in 1 .. Signed + k |-> IF p <= Signed THEN Minus ELSE d[p - Signed]]

(* Least first, as they are written; most first, as they should be; and    *)
(* with j of them exchanged at each end.                                   *)
LeastFirst(k) == [i \in 1 .. k |-> DigitAt(i)]
MostFirst(k)  == [i \in 1 .. k |-> DigitAt(k + 1 - i)]
Turned(k, j)  == [i \in 1 .. k |-> IF i <= j \/ i > k - j THEN DigitAt(k + 1 - i) ELSE DigitAt(i)]

(* What is known while digits are written, while they are inverted, and    *)
(* then.                                                                   *)
LeftOver(k) == IF k = 0 THEN left = value
               ELSE left # 0 /\ Num!Abs(left) = Magnitude \div Num!Power[k]
Converting(k) ==
  /\ IntIn2To36 /\ left \in Int /\ LeftOver(k)
  /\ str = Text(LeastFirst(k), k) /\ low = Signed + 1
Inverting(j) ==
  /\ IntIn2To36 /\ Num!Length \in Nat \ {0} /\ 2 * j <= Num!Length + 1
  /\ str = Text(Turned(Num!Length, j), Num!Length)
  /\ low = Signed + 1 + j /\ ptr = Signed + Num!Length - j
NumInv ==
  /\ at \in {"start", "convert", "invert", "done"}
  /\ at = "convert" => \E k \in Nat : Converting(k)
  /\ at = "invert"  => \E j \in Nat : Inverting(j)
  /\ ItoaExact

(* The number stays the same, and with it all that is defined from it.     *)
LEMMA SameNumber ==
  ASSUME value' = value, base' = base
  PROVE  /\ IntIn2To36' <=> IntIn2To36
         /\ Num!Power' = Num!Power /\ Magnitude' = Magnitude
         /\ Num!Length' = Num!Length /\ Num!Positional' = Num!Positional /\ Signed' = Signed
         /\ \A k : LeastFirst(k)' = LeastFirst(k)
         /\ \A k, j : Turned(k, j)' = Turned(k, j)
         /\ \A d, k : Text(d, k)' = Text(d, k)
<1>1. Num!Power' = Num!Power
  BY DEF Num!Power
<1>2. Magnitude' = Magnitude
  BY DEF Magnitude, Num!Abs
<1>3. Num!Length' = Num!Length
  BY <1>1 DEF Num!Length, Num!Abs
<1>4. Num!Positional' = Num!Positional
  BY <1>1, <1>3 DEF Num!Positional, Num!Abs
<1>5. IntIn2To36' <=> IntIn2To36
  BY DEF IntIn2To36
<1>6. Signed' = Signed
  BY DEF Signed
<1>7. \A i : DigitAt(i)' = DigitAt(i)
  BY <1>1, <1>2 DEF DigitAt
<1>8. \A k : LeastFirst(k)' = LeastFirst(k)
  BY <1>7 DEF LeastFirst
<1>9. \A k, j : Turned(k, j)' = Turned(k, j)
  BY <1>7 DEF Turned
<1>10. \A d, k : Text(d, k)' = Text(d, k)
  BY <1>6 DEF Text
<1> QED BY <1>1, <1>2, <1>3, <1>4, <1>5, <1>6, <1>8, <1>9, <1>10

(* The sign takes one place or none.                                       *)
LEMMA SignedIs == Signed \in {0, 1} /\ Signed \in Nat
BY DEF Signed

(* A digit more.                                                           *)
LEMMA TextGrows ==
  ASSUME NEW k \in Nat
  PROVE  /\ Append(Text(LeastFirst(k), k), DigitAt(k + 1)) = Text(LeastFirst(k + 1), k + 1)
         /\ Len(Append(Text(LeastFirst(k), k), DigitAt(k + 1))) = Signed + k + 1
<1> DEFINE t == Text(LeastFirst(k), k)
           c == DigitAt(k + 1)
           n == Signed + k
           u == Text(LeastFirst(k + 1), k + 1)
           a == Append(t, c)
           S == {Minus} \union {DigitAt(i) : i \in Nat}
<1>1. n \in Nat /\ Signed \in Nat /\ Signed + (k + 1) = n + 1
  BY SignedIs
<1>2. \A p \in 1 .. n : t[p] = IF p <= Signed THEN Minus ELSE DigitAt(p - Signed)
  <2> SUFFICES ASSUME NEW p \in 1 .. n PROVE t[p] = IF p <= Signed THEN Minus ELSE DigitAt(p - Signed)
    OBVIOUS
  <2>1. ~ p <= Signed => p - Signed \in 1 .. k
    BY <1>1
  <2> QED BY <2>1 DEF Text, LeastFirst
<1>3. t = [p \in 1 .. n |-> t[p]]
  BY DEF Text
<1>4. \A p \in 1 .. n + 1 : u[p] = IF p <= Signed THEN Minus ELSE DigitAt(p - Signed)
  <2> SUFFICES ASSUME NEW p \in 1 .. n + 1 PROVE u[p] = IF p <= Signed THEN Minus ELSE DigitAt(p - Signed)
    OBVIOUS
  <2>1. p \in 1 .. Signed + (k + 1) /\ (~ p <= Signed => p - Signed \in 1 .. k + 1)
    BY <1>1
  <2> QED BY <2>1 DEF Text, LeastFirst
<1>5. u = [p \in 1 .. n + 1 |-> u[p]]
  BY <1>1 DEF Text
<1>6. \A p \in 1 .. n : t[p] \in S
  <2> SUFFICES ASSUME NEW p \in 1 .. n PROVE t[p] \in S
    OBVIOUS
  <2>1. ~ p <= Signed => p - Signed \in Nat
    BY <1>1
  <2> HIDE DEF t
  <2> QED BY <1>2, <2>1
<1>7. c \in S
  OBVIOUS
<1> HIDE DEF t, c, n, u, S
<1>8. t \in Seq(S) /\ Len(t) = n
  <2>1. t \in [1 .. n -> S]
    BY <1>3, <1>6
  <2> QED BY <1>1, <2>1
<1>9. /\ a \in Seq(S) /\ Len(a) = n + 1
      /\ \A p \in 1 .. n : a[p] = t[p]
      /\ a[n + 1] = c
  BY <1>1, <1>7, <1>8, AppendProperties
<1> HIDE DEF a
<1>10. \A p \in 1 .. n + 1 : a[p] = u[p]
  <2> SUFFICES ASSUME NEW p \in 1 .. n + 1 PROVE a[p] = u[p]
    OBVIOUS
  <2>1. CASE p = n + 1
    <3>1. ~ p <= Signed /\ p - Signed = k + 1
      BY <1>1, <2>1 DEF n
    <3> QED BY <1>4, <1>9, <2>1, <3>1 DEF c
  <2>2. CASE p # n + 1
    <3>1. p \in 1 .. n
      BY <1>1, <2>2
    <3> QED BY <1>2, <1>4, <1>9, <3>1
  <2> QED BY <2>1, <2>2
<1>11. a = [p \in 1 .. n + 1 |-> a[p]]
  BY <1>9
<1>12. a = u
  BY <1>5, <1>10, <1>11
<1> QED BY <1>1, <1>9, <1>12 DEF a, t, c, u, n

(* Two digits exchanged.                                                   *)
LEMMA TextTurns ==
  ASSUME NEW k \in Nat \ {0}, NEW j \in Nat, 2 * j + 1 < k
  PROVE  LET t == Text(Turned(k, j), k)
             l == Signed + 1 + j
             r == Signed + k - j
         IN  [t EXCEPT ![l] = t[r], ![r] = t[l]] = Text(Turned(k, j + 1), k)
<1> DEFINE t == Text(Turned(k, j), k)
           u == Text(Turned(k, j + 1), k)
           l == Signed + 1 + j
           r == Signed + k - j
           n == Signed + k
           v == [t EXCEPT ![l] = t[r], ![r] = t[l]]
<1>1. Signed \in Nat /\ n \in Nat /\ l \in 1 .. n /\ r \in 1 .. n /\ l # r
      /\ ~ l <= Signed /\ ~ r <= Signed /\ l - Signed = j + 1 /\ r - Signed = k - j
  BY SignedIs
<1>2. \A m \in Nat : \A p \in 1 .. n : Text(Turned(k, m), k)[p] =
        IF p <= Signed THEN Minus
        ELSE IF p - Signed <= m \/ p - Signed > k - m THEN DigitAt(k + 1 - (p - Signed)) ELSE DigitAt(p - Signed)
  <2> SUFFICES ASSUME NEW m \in Nat, NEW p \in 1 .. n
               PROVE  Text(Turned(k, m), k)[p] =
                        IF p <= Signed THEN Minus
                        ELSE IF p - Signed <= m \/ p - Signed > k - m THEN DigitAt(k + 1 - (p - Signed)) ELSE DigitAt(p - Signed)
    OBVIOUS
  <2>1. ~ p <= Signed => p - Signed \in 1 .. k
    BY <1>1
  <2> QED BY <2>1 DEF Text, Turned
<1>3. t = [p \in 1 .. n |-> t[p]] /\ u = [p \in 1 .. n |-> u[p]]
  BY DEF Text
<1>4. \A p \in 1 .. n : /\ t[p] = IF p <= Signed THEN Minus
                                 ELSE IF p - Signed <= j \/ p - Signed > k - j THEN DigitAt(k + 1 - (p - Signed)) ELSE DigitAt(p - Signed)
                        /\ u[p] = IF p <= Signed THEN Minus
                                 ELSE IF p - Signed <= j + 1 \/ p - Signed > k - (j + 1) THEN DigitAt(k + 1 - (p - Signed)) ELSE DigitAt(p - Signed)
  <2>1. j \in Nat /\ j + 1 \in Nat
    OBVIOUS
  <2> HIDE DEF n
  <2> QED BY <1>2, <2>1
<1> HIDE DEF t, u, l, r, n
<1>5. \A p \in 1 .. n : v[p] = IF p = r THEN t[l] ELSE IF p = l THEN t[r] ELSE t[p]
  BY <1>1, <1>3
<1>6. v = [p \in 1 .. n |-> v[p]]
  BY <1>3
<1> HIDE DEF v
<1>7. ASSUME NEW p \in 1 .. n PROVE v[p] = u[p]
  <2>1. CASE p = l
    <3>1. t[r] = DigitAt(k - j)
      <4>1. ~ (k - j <= j \/ k - j > k - j)
        OBVIOUS
      <4> QED BY <1>1, <1>4, <4>1
    <3>2. u[l] = DigitAt(k - j)
      <4>1. j + 1 <= j + 1 /\ k + 1 - (j + 1) = k - j
        OBVIOUS
      <4> QED BY <1>1, <1>4, <4>1
    <3> QED BY <1>1, <1>5, <2>1, <3>1, <3>2
  <2>2. CASE p = r
    <3>1. t[l] = DigitAt(j + 1)
      <4>1. ~ (j + 1 <= j \/ j + 1 > k - j)
        OBVIOUS
      <4> QED BY <1>1, <1>4, <4>1
    <3>2. u[r] = DigitAt(j + 1)
      <4>1. k - j > k - (j + 1) /\ k + 1 - (k - j) = j + 1
        OBVIOUS
      <4> QED BY <1>1, <1>4, <4>1
    <3> QED BY <1>1, <1>5, <2>2, <3>1, <3>2
  <2>3. CASE p # l /\ p # r
    <3>1. v[p] = t[p]
      BY <1>5, <2>3
    <3>2. ~ p <= Signed => ((p - Signed <= j \/ p - Signed > k - j) <=> (p - Signed <= j + 1 \/ p - Signed > k - (j + 1)))
      BY <1>1, <2>3
    <3> QED BY <1>4, <3>1, <3>2
  <2> QED BY <2>1, <2>2, <2>3
<1>8. v = u
  BY <1>3, <1>6, <1>7
<1> QED BY <1>8 DEF v, t, u, l, r

(* None have been, and all have been.                                      *)
LEMMA TurnsEnds ==
  ASSUME NEW k \in Nat
  PROVE  /\ Turned(k, 0) = LeastFirst(k)
         /\ \A j \in Nat : 2 * j <= k + 1 /\ 2 * j + 1 >= k => Turned(k, j) = MostFirst(k)
<1>1. Turned(k, 0) = LeastFirst(k)
  <2>1. \A i \in 1 .. k : ~ (i <= 0 \/ i > k - 0)
    OBVIOUS
  <2> QED BY <2>1 DEF Turned, LeastFirst
<1>2. ASSUME NEW j \in Nat, 2 * j <= k + 1, 2 * j + 1 >= k PROVE Turned(k, j) = MostFirst(k)
  <2>1. \A i \in 1 .. k : (i <= j \/ i > k - j) \/ k + 1 - i = i
    BY <1>2
  <2> QED BY <2>1 DEF Turned, MostFirst
<1> QED BY <1>1, <1>2

(* The number in positional notation, with its sign.                       *)
LEMMA TextIs ==
  ASSUME IntIn2To36, Num!Length \in Nat \ {0}
  PROVE  Text(MostFirst(Num!Length), Num!Length) =
           (IF value < 0 /\ base = 10 THEN <<Minus>> ELSE <<>>) \o Num!Positional
<1> DEFINE k == Num!Length
           d == MostFirst(k)
           S == {Minus} \union {DigitAt(i) : i \in Nat}
           e == IF value < 0 /\ base = 10 THEN <<Minus>> ELSE <<>>
<1>1. d = Num!Positional
  <2>1. \A i \in 1 .. k : (k + 1 - i) - 1 = k - i
    OBVIOUS
  <2>2. \A i \in 1 .. k : DigitAt(k + 1 - i) = (Num!Abs(value) \div Num!Power[k - i]) % base
    BY <2>1 DEF DigitAt, Magnitude
  <2> QED BY <2>2 DEF MostFirst, Num!Positional
<1>2. d = [i \in 1 .. k |-> d[i]] /\ \A i \in 1 .. k : d[i] \in S
  <2>1. \A i \in 1 .. k : k + 1 - i \in Nat
    OBVIOUS
  <2> QED BY <2>1 DEF MostFirst
<1>3. k \in Nat
  OBVIOUS
<1>7. Minus \in S
  OBVIOUS
<1> HIDE DEF k, d, S
<1>4. d \in Seq(S) /\ Len(d) = k
  <2>1. d \in [1 .. k -> S]
    BY <1>2
  <2> QED BY <1>3, <2>1
<1>5. e \in Seq(S) /\ Len(e) = Signed /\ \A p \in 1 .. Signed : e[p] = Minus
  <2>1. CASE value < 0 /\ base = 10
    BY <1>7, <2>1 DEF Signed
  <2>2. CASE ~ (value < 0 /\ base = 10)
    BY <2>2 DEF Signed
  <2> QED BY <2>1, <2>2
<1> HIDE DEF e
<1> DEFINE c == e \o d
           t == Text(d, k)
<1>6. /\ c \in Seq(S) /\ Len(c) = Signed + k
      /\ \A p \in 1 .. Signed : c[p] = e[p]
      /\ \A i \in 1 .. k : c[Signed + i] = d[i]
  <2>0. e \in Seq(S) /\ d \in Seq(S)
    BY <1>4, <1>5
  <2>1. /\ c \in Seq(S) /\ Len(c) = Len(e) + Len(d)
        /\ \A i \in 1 .. Len(e) : c[i] = e[i]
        /\ \A i \in 1 .. Len(d) : c[Len(e) + i] = d[i]
    BY <2>0, Concatenated
  <2> HIDE DEF c
  <2> QED BY <1>4, <1>5, <2>1
<1> HIDE DEF c
<1>8. \A p \in 1 .. Signed + k : c[p] = IF p <= Signed THEN Minus ELSE d[p - Signed]
  <2> SUFFICES ASSUME NEW p \in 1 .. Signed + k PROVE c[p] = IF p <= Signed THEN Minus ELSE d[p - Signed]
    OBVIOUS
  <2>1. CASE p <= Signed
    <3>1. p \in 1 .. Signed
      BY <1>3, <2>1, SignedIs
    <3> QED BY <1>5, <1>6, <2>1, <3>1
  <2>2. CASE ~ p <= Signed
    <3>1. p - Signed \in 1 .. k /\ Signed + (p - Signed) = p
      BY <1>3, <2>2, SignedIs
    <3>2. c[Signed + (p - Signed)] = d[p - Signed]
      BY <1>6, <3>1
    <3> QED BY <2>2, <3>1, <3>2
  <2> QED BY <2>1, <2>2
<1>9. c = [p \in 1 .. Signed + k |-> c[p]]
  BY <1>6
<1>10. c = t
  BY <1>8, <1>9 DEF Text
<1> QED BY <1>1, <1>10 DEF c, e, k, d

(* The arguments arrive.                                                   *)
LEMMA NumStarts ==
  ASSUME NEW v \in Values, NEW b \in Bases, Num!Start(v, b)
  PROVE  NumInv'
<1>1. INT_MAX \in Nat /\ v \in Int /\ -INT_MAX - 1 <= v /\ v <= INT_MAX /\ b \in Nat
  BY UnitsAssumption DEF Num!ItoaAssumption
<1>2. value' = v /\ base' = b /\ left' = v /\ low' = Len(str') + 1
  BY DEF Num!Start
<1>3. CASE Num!Supported(b)
  <2>1. at' = "convert" /\ str' = IF v < 0 /\ b = 10 THEN <<Minus>> ELSE <<>>
    BY <1>3 DEF Num!Start
  <2>2. IntIn2To36'
    BY <1>1, <1>2, <1>3 DEF IntIn2To36, Num!Supported
  <2>3. Signed' = (IF v < 0 /\ b = 10 THEN 1 ELSE 0)
    BY <1>2 DEF Signed
  <2>4. Text(LeastFirst(0), 0)' = [p \in 1 .. Signed' |-> Minus]
    <3>1. Signed' + 0 = Signed' /\ \A p \in 1 .. Signed' : p <= Signed'
      BY <2>3
    <3> QED BY <3>1 DEF Text
  <2>5. Len(str') = Signed' /\ str' = Text(LeastFirst(0), 0)'
    <3>1. CASE v < 0 /\ b = 10
      <4>1. <<Minus>> = [p \in 1 .. 1 |-> Minus]
        OBVIOUS
      <4> QED BY <2>1, <2>3, <2>4, <3>1, <4>1
    <3>2. CASE ~ (v < 0 /\ b = 10)
      <4>1. << >> = [p \in 1 .. 0 |-> Minus]
        OBVIOUS
      <4> QED BY <2>1, <2>3, <2>4, <3>2, <4>1
    <3> QED BY <3>1, <3>2
  <2>6. Converting(0)'
    BY <1>1, <1>2, <2>2, <2>5 DEF Converting, LeftOver
  <2>7. \E k \in Nat : Converting(k)'
    BY <2>6
  <2> QED BY <2>1, <2>7 DEF NumInv, ItoaExact, Num!ItoaExact
<1>4. CASE ~ Num!Supported(b)
  <2>1. at' = "done" /\ str' = << >> /\ base' \notin 2 .. 36
    BY <1>1, <1>2, <1>4 DEF Num!Start, Num!Supported
  <2> QED BY <2>1 DEF NumInv, ItoaExact, Num!ItoaExact
<1> QED BY <1>3, <1>4

(* A turn of the loop over the digits.                                     *)
LEMMA NumConverts ==
  ASSUME NumInv, Num!Convert
  PROVE  NumInv'
<1>1. PICK k \in Nat : Converting(k)
  BY DEF NumInv, Num!Convert
<1>2. /\ value' = value /\ base' = base /\ low' = low /\ left' = Num!CQuotient(left, base)
      /\ str' = Append(str, Num!Digit(left, base)) /\ ptr' = Len(str')
      /\ at' = IF left' # 0 THEN "convert" ELSE "invert"
  BY DEF Num!Convert, Num!args
<1>3. IntIn2To36 /\ left \in Int /\ str = Text(LeastFirst(k), k) /\ low = Signed + 1
  BY <1>1 DEF Converting
<1>4. base \in Nat \ {0} /\ base \in Nat /\ Magnitude \in Nat
  BY <1>3, RoundsToZero DEF IntIn2To36, Magnitude
<1>5. Num!Abs(left) = Magnitude \div Num!Power[k]
  <2>1. CASE k = 0
    <3>1. left = value /\ Num!Power[0] = 1
      BY <1>1, <1>4, <2>1, PowerIs DEF Converting, LeftOver
    <3>2. Magnitude \div 1 = Magnitude
      <4> DEFINE q == Magnitude \div 1
                 r == Magnitude % 1
      <4>1. q \in Nat /\ r \in 0 .. 1 - 1 /\ Magnitude = 1 * q + r
        BY <1>4, Quotients
      <4> HIDE DEF q, r
      <4> QED BY <4>1 DEF q
    <3> QED BY <2>1, <3>1, <3>2 DEF Magnitude
  <2>2. CASE k # 0
    BY <1>1, <2>2 DEF Converting, LeftOver
  <2> QED BY <2>1, <2>2
<1>6. /\ left' \in Int /\ Num!Digit(left, base) = DigitAt(k + 1)
      /\ Num!Abs(left') = Magnitude \div Num!Power[k + 1]
      /\ left' = 0 <=> Magnitude \div Num!Power[k + 1] = 0
  BY <1>2, <1>3, <1>5, NextDigit
<1>7. str' = Text(LeastFirst(k + 1), k + 1) /\ ptr' = Signed + k + 1
  BY <1>2, <1>3, <1>6, TextGrows
<1>8. /\ IntIn2To36' /\ Num!Power' = Num!Power /\ Magnitude' = Magnitude
      /\ Num!Length' = Num!Length /\ Signed' = Signed
      /\ \A i : LeastFirst(i)' = LeastFirst(i)
      /\ \A i, j : Turned(i, j)' = Turned(i, j)
      /\ \A d, i : Text(d, i)' = Text(d, i)
  BY <1>2, <1>3, SameNumber
<1>9. CASE left' # 0
  <2>1. LeftOver(k + 1)'
    <3>1. Num!Abs(left)' = Num!Abs(left')
      BY DEF Num!Abs
    <3>2. (Magnitude \div Num!Power[k + 1])' = Magnitude \div Num!Power[k + 1]
      BY <1>8
    <3> QED BY <1>6, <1>9, <3>1, <3>2 DEF LeftOver
  <2>2. Text(LeastFirst(k + 1), k + 1)' = Text(LeastFirst(k + 1), k + 1)
    BY <1>8 DEF Text, LeastFirst
  <2>3. Converting(k + 1)'
    BY <1>2, <1>3, <1>6, <1>7, <1>8, <2>1, <2>2 DEF Converting
  <2>4. k + 1 \in Nat
    OBVIOUS
  <2> QED BY <1>2, <1>9, <2>3, <2>4 DEF NumInv, ItoaExact, Num!ItoaExact
<1>10. CASE left' = 0
  <2>1. k + 1 \in Nat \ {0} /\ (k + 1) - 1 = k
    OBVIOUS
  <2>2. k + 1 > 1 => Magnitude \div Num!Power[(k + 1) - 1] # 0
    <3> SUFFICES ASSUME k # 0 PROVE Num!Abs(left) # 0
      BY <1>5, <2>1
    <3>1. left # 0
      BY <1>1 DEF Converting, LeftOver
    <3> QED BY <1>3, <3>1 DEF Num!Abs
  <2>3. Num!Length = k + 1
    BY <1>3, <1>6, <1>10, <2>1, <2>2, LengthIs
  <2>4. Turned(k + 1, 0) = LeastFirst(k + 1)
    BY <2>1, TurnsEnds
  <2>5. Text(Turned(Num!Length, 0), Num!Length)' = Text(LeastFirst(k + 1), k + 1)
    <3>1. Turned(Num!Length, 0)' = Turned(Num!Length, 0)
      BY <1>8 DEF Turned
    <3> QED BY <1>8, <2>3, <2>4, <3>1 DEF Text
  <2>6. 2 * 0 <= Num!Length + 1 /\ Signed + 1 + 0 = Signed + 1 /\ Signed + (k + 1) - 0 = Signed + k + 1
    BY <2>3, SignedIs
  <2>7. Inverting(0)'
    BY <1>2, <1>3, <1>7, <1>8, <2>1, <2>3, <2>5, <2>6 DEF Inverting
  <2> QED BY <1>2, <1>10, <2>7 DEF NumInv, ItoaExact, Num!ItoaExact
<1> QED BY <1>9, <1>10

(* A turn of the loop that inverts them, or its end.                       *)
LEMMA NumInverts ==
  ASSUME NumInv, Num!Invert
  PROVE  NumInv'
<1>1. PICK j \in Nat : Inverting(j)
  BY DEF NumInv, Num!Invert
<1> DEFINE k == Num!Length
<1>2. /\ IntIn2To36 /\ k \in Nat \ {0} /\ 2 * j <= k + 1
      /\ str = Text(Turned(k, j), k) /\ low = Signed + 1 + j /\ ptr = Signed + k - j
  BY <1>1 DEF Inverting
<1>3. value' = value /\ base' = base
  BY DEF Num!Invert, Num!args
<1>4. /\ IntIn2To36' /\ Num!Power' = Num!Power /\ Magnitude' = Magnitude
      /\ Num!Length' = Num!Length /\ Num!Positional' = Num!Positional /\ Signed' = Signed
      /\ \A i, m : Turned(i, m)' = Turned(i, m)
      /\ \A d, i : Text(d, i)' = Text(d, i)
  BY <1>2, <1>3, SameNumber
<1>5. low \in Nat /\ ptr \in Int /\ (low < ptr <=> 2 * j + 1 < k)
  <2> HIDE DEF k
  <2> QED BY <1>2, SignedIs
<1>6. CASE low < ptr
  <2>1. /\ str' = [str EXCEPT ![low] = str[ptr], ![ptr] = str[low]]
        /\ low' = low + 1 /\ ptr' = ptr - 1 /\ at' = "invert"
    BY <1>5, <1>6 DEF Num!Invert, Num!Crossed
  <2>2. str' = Text(Turned(k, j + 1), k)
    <3> HIDE DEF k
    <3> QED BY <1>2, <1>5, <1>6, <2>1, TextTurns
  <2>3. Text(Turned(Num!Length, j + 1), Num!Length)' = Text(Turned(k, j + 1), k)
    <3>1. Turned(Num!Length, j + 1)' = Turned(Num!Length, j + 1)
      BY <1>4 DEF Turned
    <3> QED BY <1>4, <3>1 DEF Text
  <2>4. /\ 2 * (j + 1) <= k + 1 /\ j + 1 \in Nat
        /\ low' = Signed + 1 + (j + 1) /\ ptr' = Signed + k - (j + 1)
    <3> HIDE DEF k
    <3> QED BY <1>2, <1>5, <1>6, <2>1, SignedIs
  <2>5. Inverting(j + 1)'
    BY <1>2, <1>4, <2>2, <2>3, <2>4 DEF Inverting
  <2> QED BY <2>1, <2>4, <2>5 DEF NumInv, ItoaExact, Num!ItoaExact
<1>7. CASE ~ low < ptr
  <2>1. at' = "done" /\ str' = str
    BY <1>5, <1>7 DEF Num!Invert, Num!Crossed
  <2>2. Turned(k, j) = MostFirst(k)
    <3>1. k \in Nat /\ 2 * j + 1 >= k
      <4> HIDE DEF k
      <4> QED BY <1>2, <1>5, <1>7
    <3> HIDE DEF k
    <3> QED BY <1>2, <3>1, TurnsEnds
  <2>3. str' = (IF value < 0 /\ base = 10 THEN <<Minus>> ELSE << >>) \o Num!Positional
    BY <1>2, <2>1, <2>2, TextIs
  <2>4. base' \in 2 .. 36
    BY <1>4 DEF IntIn2To36
  <2>5. ItoaExact'
    BY <1>3, <1>4, <2>3, <2>4 DEF ItoaExact, Num!ItoaExact
  <2> QED BY <2>1, <2>5 DEF NumInv
<1> QED BY <1>6, <1>7

(* Nothing else touches the number.                                        *)
LEMMA NumStays ==
  ASSUME NumInv, UNCHANGED numVars
  PROVE  NumInv'
<1>1. value' = value /\ base' = base /\ left' = left /\ str' = str /\ low' = low /\ ptr' = ptr /\ at' = at
  BY DEF numVars
<1>2. /\ IntIn2To36' = IntIn2To36 /\ Num!Power' = Num!Power /\ Magnitude' = Magnitude
      /\ Num!Length' = Num!Length /\ Num!Positional' = Num!Positional /\ Signed' = Signed
  BY <1>1, SameNumber DEF IntIn2To36
<1>3. ASSUME NEW k \in Nat, Converting(k) PROVE Converting(k)'
  <2>1. Text(LeastFirst(k), k)' = Text(LeastFirst(k), k)
    BY <1>1, <1>2 DEF Text, LeastFirst, DigitAt
  <2>2. LeftOver(k)' = LeftOver(k)
    BY <1>1, <1>2 DEF LeftOver, Num!Abs
  <2> QED BY <1>1, <1>2, <1>3, <2>1, <2>2 DEF Converting
<1>4. ASSUME NEW j \in Nat, Inverting(j) PROVE Inverting(j)'
  <2>1. Text(Turned(Num!Length, j), Num!Length)' = Text(Turned(Num!Length, j), Num!Length)
    BY <1>1, <1>2 DEF Text, Turned, DigitAt
  <2> QED BY <1>1, <1>2, <1>4, <2>1 DEF Inverting
<1>5. ItoaExact'
  BY <1>1, <1>2 DEF NumInv, ItoaExact, Num!ItoaExact
<1> QED BY <1>1, <1>3, <1>4, <1>5 DEF NumInv

(* itoa: every int there is, however wide, is written in every base from 2 *)
(* to 36 as its positional notation says, the most significant digit       *)
(* first, without a leading zero, signed in base ten; in any other base    *)
(* nothing is.                                                             *)
THEOREM ItoaRight == UnitsSpec => []ItoaExact
<1>1. UnitsInit => NumInv
  BY DEF UnitsInit, Num!Init, NumInv, ItoaExact, Num!ItoaExact
<1>2. NumInv /\ [UnitsNext]_unitsVars => NumInv'
  <2> SUFFICES ASSUME NumInv, [UnitsNext]_unitsVars PROVE NumInv'
    OBVIOUS
  <2>1. (\E v \in Values, b \in Bases : Num!Start(v, b)) \/ Num!Convert \/ Num!Invert \/ UNCHANGED numVars
    BY DEF UnitsNext, Calls, Steps, Keyboard, Clock, Itoa, Drawing, Num!Next, Num!Done, Num!vars, numVars, unitsVars
  <2> QED BY <2>1, NumStarts, NumConverts, NumInverts, NumStays
<1>3. NumInv => ItoaExact
  BY DEF NumInv
<1> QED BY <1>1, <1>2, <1>3, PTL DEF UnitsSpec

-----------------------------------------------------------------------------
(* The console, call by call: on a screen of any size, typed at by someone *)
(* who does not erase past the start of a row, every write hits its cell,  *)
(* and the flat buffer is the two-dimensional teletype.                    *)

(* The inductive invariant: the point is on the screen.                    *)
OnConsole ==
  \E r \in 0 .. VGA_HEIGHT - 1, c \in 0 .. VGA_WIDTH - 1, b \in Buffers :
    term = Terminal(r, c, b, {})

-----------------------------------------------------------------------------
(* Arithmetic of the flat buffer                                           *)

(* Row r of h rows ends before the next begins.                            *)
LEMMA Products ==
  ASSUME NEW h \in Nat, NEW w \in Nat, NEW r \in 0 .. h - 1
  PROVE  r * w \in Nat /\ (r + 1) * w = r * w + w /\ r * w + w <= h * w
<1>1. r * w \in Nat
  OBVIOUS
<1>2. (r + 1) * w = r * w + w
  OBVIOUS
<1>3. PICK d \in Nat : h = r + 1 + d
  <2>1. h - r - 1 \in Nat /\ h = r + 1 + (h - r - 1)
    OBVIOUS
  <2>. QED  BY <2>1
<1>4. h * w = (r + 1) * w + d * w
  BY <1>3
<1>5. d * w \in Nat
  BY <1>3
<1>. QED  BY <1>1, <1>2, <1>4, <1>5

(* The screen has a row and a column.                                      *)
LEMMA Extents ==
  ASSUME VgaTextAssumption
  PROVE  VGA_WIDTH \in Nat \ {0} /\ VGA_HEIGHT \in Nat \ {0}
  BY DEF VgaTextAssumption

(* The whole buffer can be addressed.                                      *)
LEMMA Size ==
  ASSUME VgaTextAssumption
  PROVE  /\ VGA_WIDTH \in Nat \ {0} /\ VGA_HEIGHT \in Nat \ {0}
         /\ SIZE_MOD \in Nat /\ MaxErased \in Nat
         /\ VGA_WIDTH * VGA_HEIGHT \in Nat /\ VGA_WIDTH * VGA_HEIGHT = VGA_HEIGHT * VGA_WIDTH
         /\ 2 * (VGA_WIDTH * VGA_HEIGHT) < SIZE_MOD
         /\ VGA_WIDTH <= VGA_WIDTH * VGA_HEIGHT /\ VGA_HEIGHT <= VGA_WIDTH * VGA_HEIGHT
  BY DEF VgaTextAssumption

(* size_t holds a column.                                                  *)
LEMMA ColumnFits == ASSUME VgaTextAssumption, NEW c \in 0 .. VGA_WIDTH PROVE SizeT(c) = c
<1>1. c \in Nat /\ SIZE_MOD \in Nat /\ c < SIZE_MOD
  BY Size
<1>. QED  BY <1>1 DEF SizeT

(* A point on the screen has a cell of the buffer, and size_t holds it.    *)
LEMMA Flat ==
  ASSUME VgaTextAssumption, NEW r \in 0 .. VGA_HEIGHT - 1, NEW c \in 0 .. VGA_WIDTH - 1
  PROVE  r * VGA_WIDTH + c \in Cells /\ SizeT(r * VGA_WIDTH + c) = r * VGA_WIDTH + c
<1>1. r * VGA_WIDTH \in Nat /\ r * VGA_WIDTH + VGA_WIDTH <= VGA_HEIGHT * VGA_WIDTH
  BY Products, Size
<1>2. DEFINE i == r * VGA_WIDTH + c
<1>3. i \in Nat /\ i < VGA_WIDTH * VGA_HEIGHT /\ i < SIZE_MOD
  BY <1>1, Size
<1>4. i % SIZE_MOD = i
  <2>. HIDE DEF i
  <2>. QED  BY <1>3, Size
<1>. QED  BY <1>3, <1>4, Size DEF Cells, SizeT

(* Two points have two cells.                                              *)
LEMMA OneCell ==
  ASSUME VgaTextAssumption, NEW r \in 0 .. VGA_HEIGHT - 1, NEW c \in 0 .. VGA_WIDTH - 1,
         NEW s \in 0 .. VGA_HEIGHT - 1, NEW d \in 0 .. VGA_WIDTH - 1,
         r * VGA_WIDTH + c = s * VGA_WIDTH + d
  PROVE  r = s /\ c = d
<1>1. ~ r < s
  <2>. SUFFICES ASSUME r < s PROVE FALSE
    OBVIOUS
  <2>1. r * VGA_WIDTH + VGA_WIDTH <= s * VGA_WIDTH
    BY r \in 0 .. s - 1, Products, Size
  <2>. QED  BY <2>1, Products, Size
<1>2. ~ s < r
  <2>. SUFFICES ASSUME s < r PROVE FALSE
    OBVIOUS
  <2>1. s * VGA_WIDTH + VGA_WIDTH <= r * VGA_WIDTH
    BY s \in 0 .. r - 1, Products, Size
  <2>. QED  BY <2>1, Products, Size
<1>3. r = s
  BY <1>1, <1>2
<1>4. r * VGA_WIDTH \in Nat
  BY Products, Size
<1>. QED  BY <1>3, <1>4

-----------------------------------------------------------------------------
(* The functions of vgatext.c on a point of the screen                     *)

(* The assignments they make.                                              *)
Consoles == [row : Int, column : Int, buffer : Buffers, stray : {{}}]

(* A console is made of its three fields,                                  *)
LEMMA FieldsAre ==
  ASSUME NEW r \in Int, NEW c \in Int, NEW b \in Buffers
  PROVE  /\ Terminal(r, c, b, {}) \in Consoles
         /\ Terminal(r, c, b, {}).row = r /\ Terminal(r, c, b, {}).column = c /\ Terminal(r, c, b, {}).buffer = b
  BY DEF Terminal, Consoles

(* and is determined by them.                                              *)
LEMMA ByFields ==
  ASSUME NEW t \in Consoles
  PROVE  t = Terminal(t.row, t.column, t.buffer, {})
  BY DEF Terminal, Consoles

(* Only the column changes.                                                *)
LEMMA ColumnSet ==
  ASSUME NEW t \in Consoles, NEW c \in Int
  PROVE  [t EXCEPT !.column = c] = Terminal(t.row, c, t.buffer, {})
<1>. DEFINE u == [t EXCEPT !.column = c]
<1>1. u \in Consoles /\ u.row = t.row /\ u.column = c /\ u.buffer = t.buffer
  BY DEF Consoles
<1>. QED  BY <1>1, ByFields

(* Row and column change.                                                  *)
RowColumn(t, r, c) == [t EXCEPT !.row = r, !.column = c]

(* The terminal whose row and column change.                               *)
LEMMA RowColumnSet ==
  ASSUME NEW t \in Consoles, NEW r \in Int, NEW c \in Int
  PROVE  RowColumn(t, r, c) = Terminal(r, c, t.buffer, {})
<1>. DEFINE u == [t EXCEPT !.row = r, !.column = c]
<1>1. u \in Consoles /\ u.row = r /\ u.column = c /\ u.buffer = t.buffer
  BY DEF Consoles
<1>. QED  BY <1>1, ByFields DEF RowColumn

(* The buffer changes, and the row.                                        *)
BufferRow(t, b, r) == [t EXCEPT !.buffer = b, !.row = r]

(* The terminal whose buffer and row change.                               *)
LEMMA BufferRowSet ==
  ASSUME NEW t \in Consoles, NEW b \in Buffers, NEW r \in Int
  PROVE  BufferRow(t, b, r) = Terminal(r, t.column, b, {})
<1>. DEFINE u == [t EXCEPT !.buffer = b, !.row = r]
<1>1. u \in Consoles /\ u.row = r /\ u.column = t.column /\ u.buffer = b
  BY DEF Consoles
<1>. QED  BY <1>1, ByFields DEF BufferRow

(* Scrolling leaves glyphs in the cells.                                   *)
LEMMA ScrolledType == ASSUME VgaTextAssumption, NEW b \in Buffers PROVE Scrolled(b) \in Buffers
  BY DEF Buffers, Scrolled, VgaTextAssumption

(* A glyph is put into the cell of the point.                              *)
LEMMA Put ==
  ASSUME VgaTextAssumption,
         NEW r \in 0 .. VGA_HEIGHT - 1, NEW c \in 0 .. VGA_WIDTH - 1, NEW b \in Buffers, NEW g
  PROVE  putentryat(Terminal(r, c, b, {}), g, c, r) = Terminal(r, c, [b EXCEPT ![r * VGA_WIDTH + c] = g], {})
<1>1. SizeT(r * VGA_WIDTH + c) \in Cells /\ SizeT(r * VGA_WIDTH + c) = r * VGA_WIDTH + c
  BY Flat
<1>. QED  BY <1>1 DEF putentryat, Terminal

(* The next row, or the scroll at the bottom.                              *)
LEMMA RowBelow ==
  ASSUME VgaTextAssumption, NEW r \in 0 .. VGA_HEIGHT - 1, NEW c \in Int, NEW b \in Buffers
  PROVE  next_row(Terminal(r, c, b, {})) =
           IF r = VGA_HEIGHT - 1 THEN Terminal(r, 0, Scrolled(b), {}) ELSE Terminal(r + 1, 0, b, {})
<1>1. [Terminal(r, c, b, {}) EXCEPT !.row = @ + 1, !.column = 0] = Terminal(r + 1, 0, b, {})
  <2>. DEFINE t == Terminal(r, c, b, {})
              n == t.row + 1
  <2>1. t \in Consoles /\ t.row = r /\ t.buffer = b
    BY r \in Int, FieldsAre
  <2>2. n \in Int /\ n = r + 1
    BY <2>1
  <2>. HIDE DEF t, n
  <2>3. [t EXCEPT !.row = n, !.column = 0] = Terminal(n, 0, b, {})
    <3>1. RowColumn(t, n, 0) = Terminal(n, 0, b, {})
      BY <2>1, <2>2, RowColumnSet
    <3>. QED  BY <3>1 DEF RowColumn
  <2>. QED  BY <2>2, <2>3 DEF t, n
<1>2. CASE r = VGA_HEIGHT - 1
  <2>1. AtBottom(Terminal(r + 1, 0, b, {}))
    BY <1>2, Size DEF AtBottom, Terminal
  <2>2. move_up(Terminal(r + 1, 0, b, {})) = Terminal(r, 0, Scrolled(b), {})
    <3>. DEFINE t == Terminal(r + 1, 0, b, {})
    <3>1. t \in Consoles /\ t.row - 1 = r /\ t.column = 0 /\ t.buffer = b
      BY r \in Int, r + 1 \in Int, FieldsAre
    <3>. HIDE DEF t
    <3>2. move_up(t) = BufferRow(t, Scrolled(b), r)
      BY <3>1 DEF move_up, Scrolled, BufferRow
    <3>3. BufferRow(t, Scrolled(b), r) = Terminal(r, t.column, Scrolled(b), {})
      <4>1. Scrolled(b) \in Buffers /\ r \in Int
        BY ScrolledType
      <4>. QED  BY <3>1, <4>1, BufferRowSet
    <3>. QED  BY <3>1, <3>2, <3>3 DEF t
  <2>. QED  BY <1>1, <1>2, <2>1, <2>2 DEF next_row
<1>3. CASE r # VGA_HEIGHT - 1
  <2>1. ~ AtBottom(Terminal(r + 1, 0, b, {}))
    BY <1>3, Size DEF AtBottom, Terminal
  <2>. QED  BY <1>1, <1>3, <2>1 DEF next_row
<1>. QED  BY <1>2, <1>3

(* A glyph goes to the point, which steps on.                              *)
LEMMA GlyphPut ==
  ASSUME VgaTextAssumption,
         NEW r \in 0 .. VGA_HEIGHT - 1, NEW c \in 0 .. VGA_WIDTH - 1, NEW b \in Buffers, NEW g \in Glyphs
  PROVE  putchar(Terminal(r, c, b, {}), g) =
           LET u == [b EXCEPT ![r * VGA_WIDTH + c] = g]
           IN  IF c = VGA_WIDTH - 1 THEN next_row(Terminal(r, c, u, {})) ELSE Terminal(r, c + 1, u, {})
<1>. DEFINE u == [b EXCEPT ![r * VGA_WIDTH + c] = g]
<1>1. g # Newline
  BY DEF VgaTextAssumption
<1>2. putentryat(Terminal(r, c, b, {}), g, c, r) = Terminal(r, c, u, {})
  BY Put
<1>3. Terminal(r, c, b, {}).column = c /\ Terminal(r, c, b, {}).row = r
  BY DEF Terminal
<1>4. c + 1 \in 0 .. VGA_WIDTH
  BY Extents
<1>5. SizeT(c + 1) = c + 1
  BY <1>4, ColumnFits
<1>6. [Terminal(r, c, u, {}) EXCEPT !.column = c + 1] = Terminal(r, c + 1, u, {})
  <2>1. u \in Buffers
    BY DEF Buffers
  <2>. HIDE DEF u
  <2>. QED  BY <2>1, r \in Int, c \in Int, c + 1 \in Int, FieldsAre, ColumnSet
<1>7. RowFull(c + 1) <=> c = VGA_WIDTH - 1
  BY Extents DEF RowFull
<1>. HIDE DEF u
<1>8. putchar(Terminal(r, c, b, {}), g) =
        IF c = VGA_WIDTH - 1 THEN next_row(Terminal(r, c, u, {})) ELSE Terminal(r, c + 1, u, {})
  BY <1>1, <1>2, <1>3, <1>5, <1>6, <1>7 DEF putchar
<1>. QED  BY <1>8 DEF u

(* Erasing steps back and blanks the cell there.                           *)
LEMMA EraseIs ==
  ASSUME VgaTextAssumption,
         NEW r \in 0 .. VGA_HEIGHT - 1, NEW c \in 0 .. VGA_WIDTH - 1, NEW b \in Buffers, c > 0
  PROVE  removelastchar(Terminal(r, c, b, {})) =
           Terminal(r, c - 1, [b EXCEPT ![r * VGA_WIDTH + (c - 1)] = Space], {})
<1>. DEFINE d == c - 1
<1>1. d \in 0 .. VGA_WIDTH - 1 /\ d \in 0 .. VGA_WIDTH /\ ~ d < 0
  BY Extents
<1>. HIDE DEF d
<1>2. SizeT(d) = d
  BY <1>1, ColumnFits
<1>3. Terminal(r, c, b, {}).column = c /\ Terminal(r, c, b, {}).row = r
  BY DEF Terminal
<1>4. [Terminal(r, c, b, {}) EXCEPT !.column = d] = Terminal(r, d, b, {})
  <2>. DEFINE t == Terminal(r, c, b, {})
  <2>1. t \in Consoles /\ t.row = r /\ t.buffer = b
    BY r \in Int, c \in Int, FieldsAre
  <2>. HIDE DEF t
  <2>2. [t EXCEPT !.column = d] = Terminal(r, d, b, {})
    BY <1>1, <2>1, d \in Int, ColumnSet
  <2>. QED  BY <2>2 DEF t
<1>5. Terminal(r, d, b, {}).column = d /\ Terminal(r, d, b, {}).row = r
  BY DEF Terminal
<1>6. putentryat(Terminal(r, d, b, {}), Space, d, r) = Terminal(r, d, [b EXCEPT ![r * VGA_WIDTH + d] = Space], {})
  BY <1>1, Put
<1>7. removelastchar(Terminal(r, c, b, {})) = putentryat(Terminal(r, d, b, {}), Space, d, r)
  BY <1>1, <1>2, <1>3, <1>4, <1>5 DEF removelastchar, d
<1>. QED  BY <1>6, <1>7 DEF d

-----------------------------------------------------------------------------
(* The screen as rows                                                      *)

Rows(b) == [j \in 1 .. VGA_HEIGHT |-> [x \in 1 .. VGA_WIDTH |-> b[(j - 1) * VGA_WIDTH + x - 1]]]
Blank == [x \in 1 .. VGA_WIDTH |-> Space]

(* A glyph in the flat buffer, and a glyph on the screen.                  *)
Stored(b, r, c, g) == [b EXCEPT ![r * VGA_WIDTH + c] = g]
Painted(screen, j, x, g) == [screen EXCEPT ![j][x] = g]

(* A glyph written to the flat buffer is written at its place on screen.   *)
LEMMA WriteRows ==
  ASSUME VgaTextAssumption, NEW b \in Buffers, NEW g \in Glyphs,
         NEW r \in 0 .. VGA_HEIGHT - 1, NEW c \in 0 .. VGA_WIDTH - 1
  PROVE  Rows(Stored(b, r, c, g)) = Painted(Rows(b), r + 1, c + 1, g)
<1>. DEFINE u == [b EXCEPT ![r * VGA_WIDTH + c] = g]
<1>1. ASSUME NEW j \in 1 .. VGA_HEIGHT, NEW x \in 1 .. VGA_WIDTH
      PROVE  u[(j - 1) * VGA_WIDTH + x - 1] =
               IF j = r + 1 /\ x = c + 1 THEN g ELSE b[(j - 1) * VGA_WIDTH + x - 1]
  <2>. DEFINE s == j - 1
              d == x - 1
  <2>1. s \in 0 .. VGA_HEIGHT - 1 /\ d \in 0 .. VGA_WIDTH - 1
    BY Size
  <2>2. (j = r + 1 <=> s = r) /\ (x = c + 1 <=> d = c)
    OBVIOUS
  <2>3. s * VGA_WIDTH + x - 1 = s * VGA_WIDTH + d
    BY <2>1, Size, s * VGA_WIDTH \in Int
  <2>. HIDE DEF s, d
  <2>4. s * VGA_WIDTH + d \in Cells
    BY <2>1, Flat
  <2>5. s * VGA_WIDTH + d = r * VGA_WIDTH + c <=> s = r /\ d = c
    BY <2>1, OneCell
  <2>6. u[s * VGA_WIDTH + d] = IF s = r /\ d = c THEN g ELSE b[s * VGA_WIDTH + d]
    BY <2>4, <2>5 DEF Buffers
  <2>. QED  BY <2>2, <2>3, <2>6 DEF s
<1>. HIDE DEF u
<1>2. r + 1 \in 1 .. VGA_HEIGHT /\ c + 1 \in 1 .. VGA_WIDTH
  BY Size
<1>3. \A j \in 1 .. VGA_HEIGHT : Rows(u)[j] = [Rows(b) EXCEPT ![r + 1][c + 1] = g][j]
  <2>. SUFFICES ASSUME NEW j \in 1 .. VGA_HEIGHT
                PROVE  Rows(u)[j] = [Rows(b) EXCEPT ![r + 1][c + 1] = g][j]
    OBVIOUS
  <2>1. Rows(u)[j] = [x \in 1 .. VGA_WIDTH |-> IF j = r + 1 /\ x = c + 1 THEN g ELSE b[(j - 1) * VGA_WIDTH + x - 1]]
    BY <1>1 DEF Rows
  <2>2. CASE j = r + 1
    BY <1>2, <2>1, <2>2 DEF Rows
  <2>3. CASE j # r + 1
    BY <1>2, <2>1, <2>3 DEF Rows
  <2>. QED  BY <2>2, <2>3
<1>4. Rows(u) = [Rows(b) EXCEPT ![r + 1][c + 1] = g]
  BY <1>3 DEF Rows
<1>. QED  BY <1>4 DEF Stored, Painted, u

(* Scrolling drops the first row and appends a blank one.                  *)
LEMMA ScrollRows ==
  ASSUME VgaTextAssumption, NEW b \in Buffers
  PROVE  Rows(Scrolled(b)) = Append(Tail(Rows(b)), Blank)
<1>1. ASSUME NEW j \in 1 .. VGA_HEIGHT, NEW x \in 1 .. VGA_WIDTH
      PROVE  Scrolled(b)[(j - 1) * VGA_WIDTH + x - 1] =
               IF j < VGA_HEIGHT THEN b[((j + 1) - 1) * VGA_WIDTH + x - 1] ELSE Space
  <2>. DEFINE s == j - 1
              d == x - 1
  <2>1. s \in 0 .. VGA_HEIGHT - 1 /\ d \in 0 .. VGA_WIDTH - 1 /\ s * VGA_WIDTH \in Int /\ j * VGA_WIDTH \in Int
    BY Size
  <2>2. s * VGA_WIDTH + x - 1 = s * VGA_WIDTH + d
    BY <2>1
  <2>3. j = s + 1 /\ j * VGA_WIDTH = s * VGA_WIDTH + VGA_WIDTH
    BY <2>1, Products, Size
  <2>4. ((j + 1) - 1) * VGA_WIDTH + x - 1 = s * VGA_WIDTH + d + VGA_WIDTH
    BY <2>1, <2>3, Size, (j + 1) - 1 = j
  <2>. HIDE DEF s, d
  <2>5. s * VGA_WIDTH + d \in Cells
    BY <2>1, Flat
  <2>6. s * VGA_WIDTH + d + VGA_WIDTH \in Cells <=> j < VGA_HEIGHT
    <3>1. CASE j < VGA_HEIGHT
      <4>1. j * VGA_WIDTH + d \in Cells
        <5>1. j \in 0 .. VGA_HEIGHT - 1
          BY <3>1, Size
        <5>. QED  BY <2>1, <5>1, Flat
      <4>. QED  BY <2>1, <2>3, <3>1, <4>1, Size, s * VGA_WIDTH + VGA_WIDTH + d = s * VGA_WIDTH + d + VGA_WIDTH
    <3>2. CASE ~ j < VGA_HEIGHT
      <4>1. j = VGA_HEIGHT
        BY <3>2, Size
      <4>2. s * VGA_WIDTH + VGA_WIDTH = VGA_WIDTH * VGA_HEIGHT
        BY <2>3, <4>1, Size
      <4>3. ~ s * VGA_WIDTH + d + VGA_WIDTH < VGA_WIDTH * VGA_HEIGHT
        BY <2>1, <4>2, Size
      <4>. QED  BY <3>2, <4>3, Size DEF Cells
    <3>. QED  BY <3>1, <3>2
  <2>7. Scrolled(b)[s * VGA_WIDTH + d] = IF j < VGA_HEIGHT THEN b[s * VGA_WIDTH + d + VGA_WIDTH] ELSE Space
    BY <2>5, <2>6 DEF Scrolled
  <2>. QED  BY <2>2, <2>4, <2>7 DEF s
<1>2. \A j \in 1 .. VGA_HEIGHT : Rows(Scrolled(b))[j] = IF j < VGA_HEIGHT THEN Rows(b)[j + 1] ELSE Blank
  <2>. SUFFICES ASSUME NEW j \in 1 .. VGA_HEIGHT
                PROVE  Rows(Scrolled(b))[j] = IF j < VGA_HEIGHT THEN Rows(b)[j + 1] ELSE Blank
    OBVIOUS
  <2>1. Rows(Scrolled(b))[j] =
          [x \in 1 .. VGA_WIDTH |-> IF j < VGA_HEIGHT THEN b[((j + 1) - 1) * VGA_WIDTH + x - 1] ELSE Space]
    BY <1>1 DEF Rows
  <2>2. j < VGA_HEIGHT => j + 1 \in 1 .. VGA_HEIGHT
    BY Size
  <2>. QED  BY <2>1, <2>2 DEF Rows, Blank
<1>. DEFINE S == {Blank} \union {Rows(b)[j] : j \in 1 .. VGA_HEIGHT}
<1>3. Rows(b) \in Seq(S) /\ Len(Rows(b)) = VGA_HEIGHT /\ Blank \in S
  <2>1. \A j \in 1 .. VGA_HEIGHT : Rows(b)[j] \in S
    OBVIOUS
  <2>2. Rows(b) = [j \in 1 .. VGA_HEIGHT |-> Rows(b)[j]]
    BY DEF Rows
  <2>3. Blank \in S
    OBVIOUS
  <2>. HIDE DEF S
  <2>4. Rows(b) \in [1 .. VGA_HEIGHT -> S]
    BY <2>1, <2>2
  <2>. QED  BY <2>3, <2>4, Size
<1>. HIDE DEF S
<1>4. /\ Tail(Rows(b)) \in Seq(S) /\ Len(Tail(Rows(b))) = VGA_HEIGHT - 1
      /\ \A j \in 1 .. VGA_HEIGHT - 1 : Tail(Rows(b))[j] = Rows(b)[j + 1]
  BY <1>3, Size
<1>. DEFINE a == Append(Tail(Rows(b)), Blank)
<1>5. /\ a \in Seq(S) /\ Len(a) = VGA_HEIGHT
      /\ \A j \in 1 .. VGA_HEIGHT : a[j] = IF j < VGA_HEIGHT THEN Rows(b)[j + 1] ELSE Blank
  BY <1>3, <1>4, Size
<1>. HIDE DEF a
<1>6. a = [j \in 1 .. VGA_HEIGHT |-> a[j]]
  BY <1>5, Size
<1>7. Rows(Scrolled(b)) = [j \in 1 .. VGA_HEIGHT |-> Rows(Scrolled(b))[j]]
  BY DEF Rows
<1>. QED  BY <1>2, <1>5, <1>6, <1>7 DEF a
-----------------------------------------------------------------------------
(* Every step keeps the point on the screen and is one of the teletype's   *)

Shown == [j \in 1 .. VGA_HEIGHT |->
            [x \in 1 .. VGA_WIDTH |-> term.buffer[(j - 1) * VGA_WIDTH + x - 1]]]
Point == <<term.row + 1, term.column + 1>>

(* What the refinement shows of a console.                                 *)
LEMMA Mapped ==
  ASSUME NEW r \in Int, NEW c \in Int, NEW b \in Buffers, term = Terminal(r, c, b, {})
  PROVE  Shown = Rows(b) /\ Point = <<r + 1, c + 1>>
<1>1. term.row = r /\ term.column = c /\ term.buffer = b
  BY FieldsAre
<1>. QED  BY <1>1 DEF Shown, Point, Rows

(* And of the console after a step.                                        *)
LEMMA MappedPrime ==
  ASSUME NEW r \in Int, NEW c \in Int, NEW b \in Buffers, term' = Terminal(r, c, b, {})
  PROVE  Shown' = Rows(b) /\ Point' = <<r + 1, c + 1>>
<1>1. term'.row = r /\ term'.column = c /\ term'.buffer = b
  BY FieldsAre
<1>. QED  BY <1>1 DEF Shown, Point, Rows

(* The teletype's next row, on the screen as it is shown.                  *)
RowDown(screen) ==
  IF Point[1] = VGA_HEIGHT
  THEN Shown' = Append(Tail(screen), Blank) /\ Point' = <<VGA_HEIGHT, 1>>
  ELSE Shown' = screen /\ Point' = <<Point[1] + 1, 1>>

(* The cursor goes down a row, or the screen scrolls under it.             *)
LEMMA NextRowStep ==
  ASSUME VgaTextAssumption,
         NEW r \in 0 .. VGA_HEIGHT - 1, NEW c \in 0 .. VGA_WIDTH - 1, NEW b \in Buffers,
         Point[1] = r + 1, term' = next_row(Terminal(r, c, b, {}))
  PROVE  OnConsole' /\ RowDown(Rows(b))
<1>2. CASE r = VGA_HEIGHT - 1
  <2>1. term' = Terminal(r, 0, Scrolled(b), {}) /\ Scrolled(b) \in Buffers
    BY <1>2, c \in Int, RowBelow, ScrolledType
  <2>2. Shown' = Rows(Scrolled(b)) /\ Point' = <<r + 1, 0 + 1>>
    BY <2>1, r \in Int, 0 \in Int, MappedPrime
  <2>3. OnConsole'
    <3>1. 0 \in 0 .. VGA_WIDTH - 1
      BY Extents
    <3>. QED  BY <2>1, <3>1 DEF OnConsole
  <2>4. Point[1] = VGA_HEIGHT /\ r + 1 = VGA_HEIGHT /\ 0 + 1 = 1
    BY <1>2, Extents
  <2>5. Rows(Scrolled(b)) = Append(Tail(Rows(b)), Blank)
    BY ScrollRows
  <2>. QED  BY <2>2, <2>3, <2>4, <2>5 DEF RowDown
<1>3. CASE r # VGA_HEIGHT - 1
  <2>1. term' = Terminal(r + 1, 0, b, {})
    BY <1>3, c \in Int, RowBelow
  <2>2. Shown' = Rows(b) /\ Point' = <<(r + 1) + 1, 0 + 1>>
    BY <2>1, r + 1 \in Int, 0 \in Int, MappedPrime
  <2>3. OnConsole'
    <3>1. r + 1 \in 0 .. VGA_HEIGHT - 1 /\ 0 \in 0 .. VGA_WIDTH - 1
      BY <1>3, Extents
    <3>. QED  BY <2>1, <3>1 DEF OnConsole
  <2>4. Point[1] # VGA_HEIGHT
    BY <1>3, Extents
  <2>. QED  BY <2>2, <2>3, <2>4 DEF RowDown
<1>. QED  BY <1>2, <1>3

(* A glyph is typed.                                                       *)
LEMMA TypeStep ==
  ASSUME VgaTextAssumption, OnConsole, NEW g \in Glyphs, Echo(g)
  PROVE  OnConsole' /\ Console!Type(g)
<1>1. PICK r \in 0 .. VGA_HEIGHT - 1, c \in 0 .. VGA_WIDTH - 1, b \in Buffers :
        term = Terminal(r, c, b, {})
  BY DEF OnConsole
<1>. DEFINE u == [b EXCEPT ![r * VGA_WIDTH + c] = g]
<1>2. u \in Buffers
  BY DEF Buffers
<1>3. Shown = Rows(b) /\ Point = <<r + 1, c + 1>>
  BY <1>1, r \in Int, c \in Int, Mapped
<1>4. Rows(u) = [Shown EXCEPT ![Point[1]][Point[2]] = g]
  <2>1. Rows(Stored(b, r, c, g)) = Painted(Rows(b), r + 1, c + 1, g)
    BY WriteRows
  <2>2. Stored(b, r, c, g) = u
    BY DEF Stored
  <2>. HIDE DEF u
  <2>3. Painted(Rows(b), r + 1, c + 1, g) = [Rows(b) EXCEPT ![r + 1][c + 1] = g]
    BY DEF Painted
  <2>. QED  BY <1>3, <2>1, <2>2, <2>3
<1>5. Console!Type(g) <=>
        IF Point[2] = VGA_WIDTH THEN RowDown([Shown EXCEPT ![Point[1]][Point[2]] = g])
        ELSE Shown' = [Shown EXCEPT ![Point[1]][Point[2]] = g] /\ Point' = <<Point[1], Point[2] + 1>>
  BY DEF Console!Type, Console!NextRow, Console!BlankRow, RowDown, Shown, Point, Blank
<1>6. term' = IF c = VGA_WIDTH - 1 THEN next_row(Terminal(r, c, u, {})) ELSE Terminal(r, c + 1, u, {})
  BY <1>1, GlyphPut DEF Echo
<1>. HIDE DEF u
<1>7. CASE c = VGA_WIDTH - 1
  <2>1. Point[1] = r + 1 /\ Point[2] = VGA_WIDTH
    BY <1>3, <1>7, Extents
  <2>2. term' = next_row(Terminal(r, c, u, {}))
    BY <1>6, <1>7
  <2>3. OnConsole' /\ RowDown(Rows(u))
    BY <1>2, <2>1, <2>2, NextRowStep
  <2>. QED  BY <1>4, <1>5, <2>1, <2>3 DEF RowDown
<1>8. CASE c # VGA_WIDTH - 1
  <2>1. term' = Terminal(r, c + 1, u, {}) /\ c + 1 \in 0 .. VGA_WIDTH - 1
    BY <1>6, <1>8, Extents
  <2>2. Shown' = Rows(u) /\ Point' = <<r + 1, (c + 1) + 1>>
    BY <1>2, <2>1, r \in Int, c + 1 \in Int, MappedPrime
  <2>3. OnConsole'
    BY <1>2, <2>1 DEF OnConsole
  <2>4. Point[1] = r + 1 /\ Point[2] = c + 1 /\ Point[2] # VGA_WIDTH
    BY <1>3, <1>8, Extents
  <2>. QED  BY <1>4, <1>5, <2>2, <2>3, <2>4
<1>. QED  BY <1>7, <1>8

(* A newline is typed.                                                     *)
LEMMA ReturnStep ==
  ASSUME VgaTextAssumption, OnConsole, Echo(Newline)
  PROVE  OnConsole' /\ Console!Return
<1>1. PICK r \in 0 .. VGA_HEIGHT - 1, c \in 0 .. VGA_WIDTH - 1, b \in Buffers :
        term = Terminal(r, c, b, {})
  BY DEF OnConsole
<1>2. Shown = Rows(b) /\ Point = <<r + 1, c + 1>>
  BY <1>1, r \in Int, c \in Int, Mapped
<1>3. term' = next_row(Terminal(r, c, b, {}))
  BY <1>1 DEF Echo, putchar
<1>4. OnConsole' /\ RowDown(Rows(b))
  BY <1>2, <1>3, NextRowStep
<1>5. Console!Return <=> RowDown(Shown)
  BY DEF Console!Return, Console!NextRow, Console!BlankRow, RowDown, Shown, Point, Blank
<1>. QED  BY <1>2, <1>4, <1>5 DEF RowDown

(* A glyph is erased, or none is before the point.                         *)
LEMMA EraseStep ==
  ASSUME VgaTextAssumption, ErasesAcrossRows = FALSE, OnConsole, Backspace
  PROVE  OnConsole' /\ (Console!Erase \/ UNCHANGED term)
<1>1. PICK r \in 0 .. VGA_HEIGHT - 1, c \in 0 .. VGA_WIDTH - 1, b \in Buffers :
        term = Terminal(r, c, b, {})
  BY DEF OnConsole
<1>2. term.row = r /\ term.column = c
  BY <1>1, r \in Int, c \in Int, FieldsAre
<1>3. CASE c = 0
  <2>1. r = 0
    BY <1>2, <1>3 DEF Backspace
  <2>2. UNCHANGED term
    BY <1>2, <1>3, <2>1 DEF Backspace, removelastchar
  <2>. QED  BY <2>2 DEF OnConsole
<1>4. CASE c > 0
  <2>1. PICK d \in 0 .. VGA_WIDTH - 1 : c = d + 1
    <3>1. c - 1 \in 0 .. VGA_WIDTH - 1 /\ c = (c - 1) + 1
      BY <1>4, Extents
    <3>. QED  BY <3>1
  <2>. DEFINE u == [b EXCEPT ![r * VGA_WIDTH + d] = Space]
  <2>2. Space \in Glyphs
    BY DEF VgaTextAssumption
  <2>3. u \in Buffers
    BY <2>2 DEF Buffers
  <2>4. term' = Terminal(r, d, u, {})
    <3>1. term' = removelastchar(Terminal(r, c, b, {}))
      BY <1>1 DEF Backspace
    <3>2. c - 1 = d
      BY <2>1
    <3>. QED  BY <1>4, <3>1, <3>2, EraseIs
  <2>5. Rows(u) = [Rows(b) EXCEPT ![r + 1][d + 1] = Space]
    <3>1. Rows(Stored(b, r, d, Space)) = Painted(Rows(b), r + 1, d + 1, Space)
      BY <2>2, WriteRows
    <3>2. Stored(b, r, d, Space) = u
      BY DEF Stored
    <3>. HIDE DEF u
    <3>3. Painted(Rows(b), r + 1, d + 1, Space) = [Rows(b) EXCEPT ![r + 1][d + 1] = Space]
      BY DEF Painted
    <3>. QED  BY <3>1, <3>2, <3>3
  <2>. HIDE DEF u
  <2>6. OnConsole'
    BY <2>1, <2>3, <2>4 DEF OnConsole
  <2>7. Shown = Rows(b) /\ Point = <<r + 1, c + 1>>
    BY <1>1, r \in Int, c \in Int, Mapped
  <2>8. Shown' = Rows(u) /\ Point' = <<r + 1, d + 1>>
    BY <2>1, <2>3, <2>4, r \in Int, MappedPrime
  <2>9. Console!Erase <=>
          /\ Point # <<1, 1>>
          /\ Point' = IF Point[2] > 1 THEN <<Point[1], Point[2] - 1>> ELSE <<Point[1] - 1, VGA_WIDTH>>
          /\ Shown' = [Shown EXCEPT ![Point'[1]][Point'[2]] = Space]
    BY DEF Console!Erase, Shown, Point
  <2>10. Point[1] = r + 1 /\ Point[2] = d + 2 /\ d + 2 > 1 /\ (d + 2) - 1 = d + 1 /\ d + 2 # 1
    BY <2>1, <2>7
  <2>11. Point # <<1, 1>>
    BY <2>10
  <2>12. Point'[1] = r + 1 /\ Point'[2] = d + 1
    BY <2>8
  <2>. QED  BY <2>5, <2>6, <2>7, <2>8, <2>9, <2>10, <2>11, <2>12
<1>. QED  BY <1>3, <1>4

(* The cleared screen.                                                     *)
LEMMA Initially == ASSUME VgaTextAssumption PROVE ConsoleInit => OnConsole /\ Console!Init
<1>. SUFFICES ASSUME ConsoleInit PROVE OnConsole /\ Console!Init
  OBVIOUS
<1>. DEFINE b == [i \in Cells |-> Space]
<1>1. b \in Buffers
  BY DEF VgaTextAssumption, Buffers
<1>2. term = Terminal(0, 0, b, {}) /\ 0 \in 0 .. VGA_HEIGHT - 1 /\ 0 \in 0 .. VGA_WIDTH - 1
  BY Size DEF ConsoleInit, terminal_initialize, Terminal
<1>3. OnConsole
  BY <1>1, <1>2 DEF OnConsole
<1>4. Shown = Rows(b) /\ Point = <<0 + 1, 0 + 1>>
  BY <1>1, <1>2, 0 \in Int, Mapped
<1>5. Rows(b) = [j \in 1 .. VGA_HEIGHT |-> Blank]
  <2>1. ASSUME NEW j \in 1 .. VGA_HEIGHT, NEW x \in 1 .. VGA_WIDTH
        PROVE  b[(j - 1) * VGA_WIDTH + x - 1] = Space
    <3>. DEFINE s == j - 1
                d == x - 1
    <3>1. s \in 0 .. VGA_HEIGHT - 1 /\ d \in 0 .. VGA_WIDTH - 1 /\ s * VGA_WIDTH \in Int
      BY Extents
    <3>2. s * VGA_WIDTH + x - 1 = s * VGA_WIDTH + d
      BY <3>1
    <3>. HIDE DEF s, d
    <3>3. s * VGA_WIDTH + d \in Cells
      BY <3>1, Flat
    <3>. QED  BY <3>2, <3>3 DEF s
  <2>. HIDE DEF b
  <2>. QED  BY <2>1 DEF Rows, Blank
<1>6. Console!Init <=> Shown = [j \in 1 .. VGA_HEIGHT |-> Blank] /\ Point = <<1, 1>>
  BY DEF Console!Init, Console!BlankRow, Shown, Point, Blank
<1>. QED  BY <1>3, <1>4, <1>5, <1>6

(* All steps.                                                              *)
LEMMA Step ==
  ASSUME VgaTextAssumption, ErasesAcrossRows = FALSE, OnConsole, [ConsoleNext]_term
  PROVE  OnConsole' /\ [Console!Next]_(Console!vars)
<1>1. UNCHANGED term => OnConsole' /\ UNCHANGED Console!vars
  BY DEF OnConsole, Console!vars
<1>2. ASSUME NEW g \in Glyphs, Echo(g) PROVE OnConsole' /\ Console!Next
  BY <1>2, TypeStep DEF Console!Next
<1>3. Echo(Newline) => OnConsole' /\ Console!Next
  BY ReturnStep DEF Console!Next
<1>4. Backspace => OnConsole' /\ (Console!Next \/ UNCHANGED term)
  BY EraseStep DEF Console!Next
<1>. QED  BY <1>1, <1>2, <1>3, <1>4 DEF ConsoleNext

-----------------------------------------------------------------------------
(* The point never leaves the screen, and no write the buffer, unless a    *)
(* backspace is typed at the start of a row.                               *)
THEOREM StaysInBuffer ==
  ASSUME VgaTextAssumption, ErasesAcrossRows = FALSE
  PROVE  ConsoleSpec => [](NeverBelowStart /\ "past" \notin term.stray)
<1>1. ConsoleInit => OnConsole
  BY Initially
<1>2. OnConsole /\ [ConsoleNext]_term => OnConsole'
  BY Step
<1>3. OnConsole => NeverBelowStart /\ "past" \notin term.stray
  BY DEF OnConsole, NeverBelowStart, Terminal
<1>. QED  BY <1>1, <1>2, <1>3, PTL DEF ConsoleSpec

(* The flat buffer is the two-dimensional console, whatever is typed, on a *)
(* screen of any size, if no backspace is typed at the start of a row.     *)
THEOREM IsTeletype ==
  ASSUME VgaTextAssumption, ErasesAcrossRows = FALSE
  PROVE  ConsoleSpec => ImplementsTeletype
<1>1. ConsoleInit => OnConsole /\ Console!Init
  BY Initially
<1>2. OnConsole /\ [ConsoleNext]_term => OnConsole' /\ [Console!Next]_(Console!vars)
  BY Step
<1>. QED  BY <1>1, <1>2, PTL DEF ConsoleSpec, ImplementsTeletype, Console!Spec
=============================================================================
