---------------------------- MODULE ConsoleSteps ----------------------------
(***************************************************************************)
(* terminal_putchar, move_up and terminal_removelastchar (vgatext.c) one   *)
(* assignment at a time, in program order, and an exception that stops     *)
(* them between any two: fault_handler (InterruptDescriptorTable.c) prints *)
(* its report through the same variables and loops for ever.  Handlers run *)
(* with IF clear, so exceptions are all that can interrupt a print.        *)
(***************************************************************************)
EXTENDS Integers, Sequences

CONSTANTS VGA_WIDTH, VGA_HEIGHT, SIZE_MOD, Glyphs, Space, Newline, MaxErased,
          FirstLine, LastLine   (* the report: the line that may begin in   *)
                                (* mid-row, and the one that ends it        *)

ConsoleStepsAssumption ==
  /\ FirstLine \in Seq(Glyphs) /\ Len(FirstLine) <= VGA_WIDTH
  /\ LastLine \in Seq(Glyphs \ {Space})
  /\ Len(LastLine) \in 1 .. VGA_WIDTH - 1

VARIABLES
  term,
  at, arg, y,  (* where terminal_putchar is, its argument, move_up's loop   *)
  goal,        (* ghost: what the call under way should leave in term       *)
  hit          (* ghost: the console as the exception found it, or none     *)

vars == <<term, at, arg, y, goal, hit>>

Vga == INSTANCE VgaText WITH ErasesAcrossRows <- TRUE

None == [row |-> 0, column |-> 0, buffer |-> <<>>, stray |-> {}]

Init ==
  /\ term = Vga!terminal_initialize /\ goal = term /\ hit = None
  /\ at = "idle" /\ arg = Space /\ y = 1

-----------------------------------------------------------------------------
Go(here, next, t) == at = here /\ at' = next /\ term' = t /\ UNCHANGED hit

Call(c) ==
  /\ Go("idle", IF c = Newline THEN "newline row" ELSE "put", term)
  /\ arg' = c /\ goal' = Vga!putchar(term, c) /\ UNCHANGED y

Erase ==
  /\ Vga!Erased(term) < MaxErased
  /\ Go("idle", IF term.row > 0 \/ term.column > 0 THEN "erase" ELSE "idle", term)
  /\ goal' = Vga!removelastchar(term) /\ UNCHANGED <<arg, y>>

(* move_up: copies each row over the one above, blanks the last, and only  *)
(* then steps terminal_row back onto the screen.                           *)
CopyRow ==
  /\ y < VGA_HEIGHT
  /\ Go("copy", "copy",
        [term EXCEPT !.buffer = [i \in Vga!Cells |->
           IF i \div VGA_WIDTH = y - 1 THEN @[i + VGA_WIDTH] ELSE @[i]]])
  /\ y' = y + 1 /\ UNCHANGED <<arg, goal>>
LastRow_first == 0                                    \* mutant of LastRow
LastRow       == VGA_HEIGHT - 1
BlankRow ==
  /\ y = VGA_HEIGHT
  /\ Go("copy", "dec",
        [term EXCEPT !.buffer = [i \in Vga!Cells |->
           IF i \div VGA_WIDTH = LastRow THEN Space ELSE @[i]]])
  /\ y' = 1 /\ UNCHANGED <<arg, goal>>

ScrollsAt_late(row) == row > VGA_HEIGHT               \* mutant of ScrollsAt
ScrollsAt(row)      == row = VGA_HEIGHT
AfterRow(row) == IF ScrollsAt(row) THEN "copy" ELSE "idle"

Assign ==
  /\ \/ Go("put", "column", Vga!putentryat(term, arg, term.column, term.row))
     \/ LET column == Vga!SizeT(term.column + 1)
        IN  Go("column", IF column = VGA_WIDTH THEN "wrap" ELSE "idle",
               [term EXCEPT !.column = column])
     \/ Go("wrap", "row", [term EXCEPT !.column = 0])
     \/ Go("row", AfterRow(term.row + 1), [term EXCEPT !.row = @ + 1])
     \/ Go("newline row", "newline column", [term EXCEPT !.row = @ + 1])
     \/ Go("newline column", AfterRow(term.row), [term EXCEPT !.column = 0])
     \/ Go("dec", "idle", [term EXCEPT !.row = @ - 1])
     \/ Go("erase", "erased", [term EXCEPT !.column = Vga!SizeT(@ - 1)])
     \/ Go("erased", "idle", Vga!putentryat(term, Space, term.column, term.row))
  /\ UNCHANGED <<arg, y, goal>>

(* The report ends with a line of its own; then fault_handler loops.       *)
Report == FirstLine \o <<Newline>> \o LastLine \o <<Newline>>
fault_handler ==
  /\ at # "halted" /\ at' = "halted"
  /\ hit' = term
  /\ term' = Vga!writestring(term, Report)
  /\ UNCHANGED <<arg, y, goal>>

Loop == at = "halted" /\ UNCHANGED vars

Next == \/ \E c \in Glyphs \union {Newline} : Call(c)
        \/ Erase \/ CopyRow \/ BlankRow \/ Assign \/ fault_handler \/ Loop
Spec == Init /\ [][Next]_vars

-----------------------------------------------------------------------------
(* Properties                                                              *)

(* Undisturbed, the assignments of a call add up to the one step the other *)
(* modules take it for.                                                    *)
StepsAddUp == at = "idle" => term = goal

(* Between calls everything from the point on is blank, so text never runs *)
(* into the remains of older text, whatever was erased or scrolled.        *)
BlankAhead ==
  at = "idle" => \A i \in Vga!Cells :
    i >= term.row * VGA_WIDTH + term.column - (IF Vga!Erased(term) > 0 THEN SIZE_MOD ELSE 0)
      => term.buffer[i] = Space

(* No write lands past the frame buffer, except from the report of an      *)
(* exception that found the point off the screen: after ++terminal_row or  *)
(* ++terminal_column and before what brings it back.                       *)
OffScreen(t) == t.row = VGA_HEIGHT \/ t.column = VGA_WIDTH
PastEndOnlyTorn ==
  "past" \in term.stray => at = "halted" /\ OffScreen(hit)

(* The report's last line stands above the point, unless the exception hit *)
(* the console while it scrolled: then terminal_row is never again equal   *)
(* to VGA_HEIGHT, nothing scrolls, and the report goes below the screen.   *)
Shown ==
  /\ term.row \in 1 .. VGA_HEIGHT - 1
  /\ \A x \in 1 .. Len(LastLine) :
       term.buffer[(term.row - 1) * VGA_WIDTH + x - 1] = LastLine[x]
LostOnlyInScroll == at = "halted" => (Shown <=> hit.row < VGA_HEIGHT)
=============================================================================
