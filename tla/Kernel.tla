------------------------------- MODULE Kernel -------------------------------
(***************************************************************************)
(* The running kernel: kernel_main (kernel.c), which sets everything up    *)
(* and goes on doing so after it has switched interrupts on, the timer     *)
(* (timer.c) and keyboard interrupt handlers that preempt it, and the      *)
(* console and cursor registers they share.  A handler runs with IF clear, *)
(* so its C code is one step; main is one step per statement that touches  *)
(* what a handler touches, one per port access in vga_setup.               *)
(***************************************************************************)
EXTENDS Integers, Sequences

CONSTANTS
  IDT_SIZE, Spurious,                                        \* Interrupts
  Keys, LeftShift, RightShift, keyboard_us, to_upper, FifoSize, \* Keyboard
  VGA_WIDTH, VGA_HEIGHT, SIZE_MOD, Glyphs, Space, Newline,      \* VgaText
  BYTE,             (* 256, what a register counts up to                   *)
  BiosCursor,       (* what the BIOS left in the cursor's registers        *)
  CursorHome,       (* the position vga_setup moves the cursor to (100)    *)
  TIMER_PHASE_HZ, INT_MAX,                                      \* Timer
  Welcome, TimerLine, TimeLine,
                    (* what main prints first, what setup_timer prints, and *)
                    (* what the timer prints every second                   *)
  NULL

VARIABLES
  stage, ifl, idt, interrupt_handlers, pic, frames,
  held, fifo, port, keydown, keypress_handler,
  term, crtc,
  timer_ticks,
  pc,               (* the statement kernel_main has reached               *)
  writes,           (* the port writes left in vga_setup                   *)
  torn              (* ghost: what of the cursor a handler that printed    *)
                    (* found half set by vga_setup                         *)

Irq == INSTANCE Interrupts WITH
  Raisable <- {0, 1}, Exceptions <- {}, MaxFrames <- 0,
  Indices <- {32, 33}, Handlers <- {"timer", "keyboard"}
Kbd == INSTANCE Keyboard WITH Extended <- {}, Cursor <- {}
Vga == INSTANCE VgaText WITH MaxErased <- 0, ErasesAcrossRows <- TRUE
Tim == INSTANCE Timer WITH
  TICKS_IN_MINUTES <- 60 * TIMER_PHASE_HZ, TICKS_IN_HOUR <- 3600 * TIMER_PHASE_HZ

ASSUME KernelAssumption ==
  /\ BYTE \in Nat \ {0} /\ CursorHome \in 0 .. BYTE * BYTE - 1
  /\ SIZE_MOD % (BYTE * BYTE) = 0
  /\ BiosCursor \in 0 .. BYTE - 1
  /\ {Welcome, TimerLine, TimeLine} \subseteq Seq(Glyphs \union {Newline})
  /\ Irq!InterruptsAssumption /\ Kbd!KeyboardAssumption
  /\ Vga!VgaTextAssumption /\ Tim!TimerAssumption

irqVars == <<stage, ifl, idt, interrupt_handlers, pic, frames>>
kbdVars == <<held, fifo, port, keydown, keypress_handler>>
conVars == <<term, crtc, torn>>
mainVars == <<pc, writes>>
vars == <<irqVars, kbdVars, conVars, mainVars, timer_ticks>>

-----------------------------------------------------------------------------
(* The hardware cursor of the VGA's CRT controller, as vgatext.c drives    *)
(* it: a register number goes to the index port (0x3D4), the register's    *)
(* value to the data port (0x3D5).  The two writes are separate            *)
(* instructions.  The controller is hardware, a record of the index and    *)
(* the registers 10 (0x0A), 11 (0x0B), 14 and 15; bits that enable_cursor  *)
(* reads back and keeps are left out.                                      *)
Registers == {10, 11, 14, 15}

Out(controller, write) ==
  IF write.port = "index" THEN [controller EXCEPT !.index = write.value]
                          ELSE [controller EXCEPT !.reg[controller.index] = write.value]
OutAll(controller, list) ==
  LET after[i \in 0 .. Len(list)] == IF i = 0 THEN controller ELSE Out(after[i - 1], list[i])
  IN  after[Len(list)]

Set(register, value) == << [port |-> "index", value |-> register],
                           [port |-> "data",  value |-> value] >>

enable_cursor(start, end) == Set(10, start) \o Set(11, end)

fb_move_cursor_swapped(pos) ==                     \* mutant of fb_move_cursor
  Set(14, pos % BYTE) \o Set(15, pos \div BYTE)
fb_move_cursor(pos) == Set(14, pos \div BYTE) \o Set(15, pos % BYTE)

(* The port writes of vga_setup, in order.                                 *)
SetupWrites == enable_cursor(0, 1) \o fb_move_cursor(CursorHome)

Position(controller) == controller.reg[14] * BYTE + controller.reg[15]

-----------------------------------------------------------------------------
Init ==
  /\ Irq!Init /\ Kbd!Init /\ Vga!ConsoleInit
  /\ crtc = [index |-> 10, reg |-> [r \in Registers |-> BiosCursor]]
  /\ torn = {}
  /\ timer_ticks = 0
  /\ pc = "terminal_initialize"
  /\ writes = SetupWrites

-----------------------------------------------------------------------------
SetUp == pc = "hlt"

(* What vga_setup has half set with n of its writes left: the first or the *)
(* last line of the cursor's shape, selected but not yet given its value,  *)
(* or the two bytes of its place.                                          *)
HalfSet(n) == CASE n = 7      -> {"start"}
                [] n = 5      -> {"end"}
                [] n \in 1 .. 3 -> {"place"}
                [] OTHER      -> {}

(* Printing moves the cursor, one row below the point, as its last act;    *)
(* the position is an unsigned short.  After setup that sets the whole     *)
(* place.                                                                  *)
CursorPos(t) == ((t.row + 1) * VGA_WIDTH + t.column) % (BYTE * BYTE)
Show(t) ==
  /\ term' = t
  /\ crtc' = OutAll(crtc, fb_move_cursor(CursorPos(t)))
  /\ torn' = IF SetUp THEN torn \ {"place"} ELSE torn \union HalfSet(Len(writes))

(* main                                                                    *)
Step(from, to) == Irq!InMain /\ pc = from /\ pc' = to

Initialize ==
  /\ Step("terminal_initialize", "setup_timer")
  /\ Show(Vga!writestring(Vga!terminal_initialize, Welcome))
  /\ UNCHANGED <<irqVars, kbdVars, writes, timer_ticks>>

setup_timer ==
  /\ Step("setup_timer", "IDT_Initialize")
  /\ Show(Vga!writestring(term, TimerLine))
  /\ Irq!register_handler("timer", 32)
  /\ UNCHANGED <<kbdVars, writes, timer_ticks>>

InterruptDescriptorTable_Initialize ==
  /\ pc = "IDT_Initialize"
  /\ Irq!Setup
  /\ pc' = IF stage' = "on" THEN "register_handler" ELSE pc
  /\ UNCHANGED <<kbdVars, conVars, writes, timer_ticks>>

KEYBOARD_IRQ_timer == 32                            \* mutant of KEYBOARD_IRQ
KEYBOARD_IRQ       == 33
RegisterKeyboard ==
  /\ Step("register_handler", "memset")
  /\ Irq!register_handler("keyboard", KEYBOARD_IRQ)
  /\ UNCHANGED <<kbdVars, conVars, writes, timer_ticks>>

ClearKeydown ==
  /\ Step("memset", "keypress_handler = 0")
  /\ Kbd!ClearKeydown
  /\ UNCHANGED <<irqVars, conVars, writes, timer_ticks>>

ClearHandler ==
  /\ Step("keypress_handler = 0", "assign_key_press_handler")
  /\ Kbd!assign_key_press_handler(NULL)
  /\ UNCHANGED <<irqVars, conVars, writes, timer_ticks>>

AssignHandler ==
  /\ Step("assign_key_press_handler", "vga_setup")
  /\ Kbd!assign_key_press_handler("handle_key_press")
  /\ UNCHANGED <<irqVars, conVars, writes, timer_ticks>>

vga_setup ==
  /\ Step("vga_setup", IF Len(writes) = 1 THEN "hlt" ELSE "vga_setup")
  /\ crtc' = Out(crtc, Head(writes))
  /\ writes' = Tail(writes)
  /\ UNCHANGED <<irqVars, kbdVars, term, torn, timer_ticks>>

-----------------------------------------------------------------------------
(* the handlers, as irq_handler calls them                                 *)

Calls(h) == Irq!call_handler /\ Irq!HandlerOf(Head(frames).vec) = h

timer_interrupt_handler ==
  /\ Calls("timer")
  /\ timer_ticks' = Tim!Increment(timer_ticks)
  /\ IF Tim!Due(timer_ticks')
     THEN Show(Vga!writestring(term, TimeLine))
     ELSE UNCHANGED conVars
  /\ UNCHANGED <<kbdVars, mainVars>>

keyboard_interrupt_handler ==
  /\ Calls("keyboard")
  /\ Kbd!keyboard_interrupt_handler
  /\ LET event == Kbd!Delivered
     IN  IF event # NULL /\ Vga!Prints(event)
         THEN Show(Vga!handle_key_press(term, event))
         ELSE UNCHANGED conVars
  /\ UNCHANGED <<mainVars, timer_ticks>>

NoHandler == Calls(NULL) /\ UNCHANGED <<kbdVars, conVars, mainVars, timer_ticks>>

Handle == timer_interrupt_handler \/ keyboard_interrupt_handler \/ NoHandler

Dispatch ==
  /\ Irq!Stub \/ Irq!EoiSlave \/ Irq!EoiMaster \/ Irq!iretq
  /\ UNCHANGED <<kbdVars, conVars, mainVars, timer_ticks>>

Deliver(n) ==
  Irq!Deliver(n) /\ UNCHANGED <<kbdVars, conVars, mainVars, timer_ticks>>

DeliverSpurious(n) ==
  Irq!DeliverSpurious(n) /\ UNCHANGED <<kbdVars, conVars, mainVars, timer_ticks>>

-----------------------------------------------------------------------------
(* the devices                                                             *)

Tick ==
  /\ Irq!Raise(0)
  /\ UNCHANGED <<kbdVars, conVars, mainVars, timer_ticks>>

Type ==
  /\ Kbd!User
  /\ UNCHANGED <<irqVars, conVars, mainVars, timer_ticks>>

Fill ==
  /\ Kbd!Fill /\ Irq!Raise(1)
  /\ UNCHANGED <<conVars, mainVars, timer_ticks>>

-----------------------------------------------------------------------------
Main == \/ Initialize \/ setup_timer \/ InterruptDescriptorTable_Initialize
        \/ RegisterKeyboard \/ ClearKeydown \/ ClearHandler \/ AssignHandler
        \/ vga_setup
Next == \/ Main \/ Handle \/ Dispatch
        \/ \E n \in {0, 1} : Deliver(n)
        \/ \E n \in Spurious : DeliverSpurious(n)
        \/ Tick \/ Type \/ Fill
Spec == Init /\ [][Next]_vars

(* The CPU keeps executing.  It takes a request at the first instruction   *)
(* boundary with IF set, so one it keeps seeing is taken (strong fairness).*)
FairSpec == /\ Spec /\ WF_vars(Main) /\ WF_irqVars(Irq!Running)
            /\ SF_irqVars(Irq!Deliver(0)) /\ SF_irqVars(Irq!Deliver(1))

-----------------------------------------------------------------------------
(* Properties                                                              *)

(* After setup the cursor has its shape and is where vga_setup put it or   *)
(* below the point, unless a handler printed inside a pair of writes.      *)
(* Then, exactly: the selected register of the shape kept its old value,   *)
(* or the place has the byte of the point's row and the byte of vga_setup, *)
(* until something is printed again.                                       *)
CursorConfigured ==
  SetUp => /\ crtc.reg[10] = IF "start" \in torn THEN BiosCursor ELSE 0
           /\ crtc.reg[11] = IF "end" \in torn THEN BiosCursor ELSE 1
           /\ IF "place" \notin torn
              THEN Position(crtc) \in {CursorHome, CursorPos(term)}
              ELSE /\ crtc.reg[14] = CursorPos(term) \div BYTE
                   /\ crtc.reg[15] = CursorHome % BYTE

(* The cursor is always whole after setup (vgatext.c: fb_move_cursor moves *)
(* it "to the given position").                                            *)
CursorWhole ==
  SetUp => /\ crtc.reg[10] = 0 /\ crtc.reg[11] = 1
           /\ Position(crtc) \in {CursorHome, CursorPos(term)}

(* Every byte the keyboard delivers is read, provided the timer leaves the *)
(* CPU time in which its own line is quiet, and the byte's interrupt is    *)
(* still to be served when main has registered the keyboard's handler.     *)
CpuHasTime == Irq!InMain /\ ifl /\ 0 \notin pic.irr
Registered == pc \notin {"terminal_initialize", "setup_timer", "IDT_Initialize",
                         "register_handler"}
KeysGetRead ==
  []<>CpuHasTime => (Registered /\ port # NULL /\ 1 \in pic.irr ~> port = NULL)

(* Every byte the keyboard delivers is read, whenever it comes.            *)
EveryByteRead == []<>CpuHasTime => (port # NULL ~> port = NULL)
=============================================================================
