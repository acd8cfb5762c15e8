# PacificOS in TLA+

PacificOS is a small x86-64 kernel (`src/src/arch/x86_64`, about 1,600 lines of
C and assembly) that boots through GRUB into long mode, prints on the VGA text
screen, programs the interrupt controllers and the timer, prints the time every
second and echoes what is typed. Beside it, `src/PacificOS2` holds a UEFI
application that draws in a frame buffer, and the copy of gnu-efi it is linked
with. This directory holds models of all three, the properties that make them
correct, the TLC runs that check them and the TLAPS proofs of the core.

`PROJECT.json` maps every definition to the lines it translates, and lists every
hazard of the code at its line with the properties that cover it. File names
without a directory are those of `src/arch/x86_64/` (kernel), `PacificOS2/source/`
(application) and `PacificOS2/efi/lib/` (gnu-efi).

## 1. The system

### The kernel

There is one CPU. `kernel_main` runs through a fixed sequence of setup steps and
then halts in a loop. From the `sti` in the middle of that sequence on, interrupt
handlers preempt it. Nothing is locked and no driver disables anything: what
protects shared state is that a handler runs with the interrupt flag (IF) clear,
and that `main` has "already done" what the handler needs. The concurrency is
between the rest of `main`'s setup and the handlers, between handlers and
exceptions, and between the CPU and devices that latch requests at any time.

| Component | State | Operations | What is hard |
|---|---|---|---|
| Boot (`boot.asm`, `long_mode_init.asm`) | CPU mode, page tables, return addresses | checks, tables, switch to long mode | The order of the control registers shows only as a triple fault; `set_up_page_tables` has no `ret`, runs on into `enable_paging` and is called "again" by the second call. |
| Paging (`paging.c`) | `p4_table`, `p3_table`, `p2_table` | `map_page_tables` | Rewrites the tables in use, with flags written one hexadecimal digit per bit and one of them cut off by `uint16_t`: the CPU's own page is unmapped under it. |
| Interrupt dispatch (`InterruptDescriptorTable.c`, `interrupts.asm`) | `idt`, `interrupt_handlers`, both 8259As, IF, the frames on the stack | building the tables, `register_handler`; stubs, `irq_handler`, `fault_handler`, `iretq` | Both EOIs are *non-specific*: right only if never two lines are in service at once. Gate, stub number, remapped base and slot must agree. After an exception nothing may return, and the report may fault itself. |
| Text console (`vgatext.c`) | row, column, buffer | `terminal_initialize`, `terminal_putchar`, `terminal_removelastchar`, `move_up`, `itoa`, echo | A flat array under `size_t` arithmetic, where a full row and a full screen can coincide; an exception's report prints through the console it interrupted. |
| VGA cursor (`vgatext.c`) | index and data of the CRT controller | `enable_cursor`, `fb_move_cursor`, `vga_setup` | Two port writes per register, from `main` with interrupts on and from handlers. |
| Keyboard driver (`keyboarddriver.c`) | `keydown`, `keypress_handler`; keys, bytes in flight, 8042 | handler, `setup_keyboard_driver` | `keydown` must follow the keys through bytes in flight, codes of two bytes and fake shifts; a byte nobody reads blocks the controller. |
| Timer (`timer.c`) | `timer_ticks` | handler, the time it prints | An `int` never reset; carries show only at boundaries. |
| Kernel main (`kernel.c`) | its program counter | the setup sequence | The order of its steps is the only synchronisation there is. |

### The UEFI application

`hello.c` looks for a graphics device, searches its modes for 1024 x 768 BGR, sets
it, draws through `graphics.c`, empties the keyboard's buffer and waits for a key.
Every firmware call may fail, `itoa` writes through a pointer that is never
initialised, and the search ends alike for three reasons. The drawing functions
clip with 16-bit parameters.

### gnu-efi

A library, each part used on its own by one application at a time. Its hazards are
those of a library between callers and firmware: notification functions that
preempt by task priority level (`lock.c`, `hand.c`), calls that fail in the middle
of a list (`hand.c`), data of unknown size fetched with retries while it changes
and the pool runs out (`misc.c`), files opened node by node (`sread.c`), output
buffered in the middle of an item (`print.c`), keys that race timers (`event.c`,
`console.c`), tables somebody else wrote (`smbios.c`, `misc.c`, `ia64/salpal.c`),
and code written once per machine that should agree (`math.c`, `setjmp.S`, `reloc`,
`crt0`, calls into the firmware).

## 2. The modules

An arrow points to the module that is used; `+` marks one that is extended.

```
 KERNEL
   Pic8259 <- Interrupts <- InterruptsProofs
                |   \-> IrqService (refines)
   Kernel ------+-> Keyboard, VgaText, Timer
      \--<- KernelProofs (-> InterruptsProofs)
   Boot <- Paging <- PagingProofs
   VgaText -> Teletype (refines)
   Units (+ VgaText, Graphics) <- UnitsProofs (+ GraphicsProofs)
      |-> ConsoleSteps (-> VgaText), Keyboard, Clock (+ Timer), Itoa
   Units, Paging, Interrupts <- MCBare

 APPLICATION
   Graphics <- EfiMain <- EfiMainProofs (+ GraphicsProofs)
       \--<- GraphicsProofs
   Kernel (<- MCKernel), EfiMain <- MCMain

 GNU-EFI
   EfiServices |-> EfiHandles, EfiBuffers, EfiFiles, EfiInput, EfiPrint
   EfiServices <- EfiParts |-> EfiPaths, EfiApps (+ EfiAnswer)
   EfiLocks, EfiParts <- EfiServicesProofs (|-> EfiDataProofs)
   EfiPrint <- EfiDataProofs |-> EfiPaths
   EfiLocks, EfiParts <- EfiLib <- MCEfiLib
      |-> EfiText, EfiDescribe, EfiTables, EfiMachine, EfiImage,
          EfiArith (+ EfiAnswer each)
```

`Kernel` composes the parts of the kernel that run concurrently. `Units` and
`EfiLib` do not compose: they hold parts that never run at the same time and look
at one of them (`unit`) in each behaviour, the others staying in their first
state. `MCBare` and `MCMain` put modules beside each other for TLC in the same way:
`MCBare` start-up, interrupt dispatch and the units of the kernel (`part`), `MCMain`
the two main programs (`program`); each step is a step of the part looked at, with
the fairness that part's own module states. So there is one run, and one set of
bounds, for the parts of the kernel, for the main programs and for the library.
`EfiServices` is the opposite: five parts that an application may use in any order,
interleaved. `EfiParts` adds device paths and the applications to it. These, and the
locks, have the theorems; `EfiLib` extends both, takes the same steps of their parts,
and is what TLC runs.

### Kernel

**Pic8259** (hardware). The two cascaded controllers as operators on a record:
latched (`irr`), in service (`isr`), masked (`imr`), and the vector bases. `Wins`
is the fixed-priority choice, `Retire` the non-specific EOI.

**Interrupts.** `idt`, `interrupt_handlers`, IF (`ifl`), `pic`, and `frames`, the
`x86_64_iframe`s on the stack, innermost first. A frame has its vector, the place
its handler has reached (`stub`, `fault`, `call`, `eoi_slave`, `eoi_master`,
`iretq`) and the saved IF; two ghost fields say which line it serves and what it
called.

| Action | Code |
|---|---|
| `idt_install`, `irq_install`, `isrs_install`, `sti` | the four calls of `InterruptDescriptorTable_Initialize` (`stage`) |
| `register_handler`, `unregister_handler` | main, at any time, with an index in or out of range |
| `Deliver`, `DeliverSpurious`, `Fault` | the CPU entering a gate; without one, the triple fault |
| `Stub`, `call_handler`, `EoiSlave`, `EoiMaster`, `iretq` | the stub and the statements of `irq_handler` |
| `fault_handler` | the endless loop |

`MasksInterrupts` reads the gate's type out of the byte the code writes (0x8E), so
a trap gate would let interrupts nest in the model. `Fault` may come anywhere, in
`fault_handler` too, which runs ordinary code before its endless loop: the gate is
entered again and a frame more is on the stack. Only the CPU itself holds an NMI
back after an NMI. `MaxFrames` bounds the frames an exception may find.

**IrqService.** What a device is promised: requests are remembered, served one at
a time, each once, by priority. `Interrupts` refines it, with `active` the line of
the interrupt frame on the stack.

**VgaText** and **Teletype.** The console as a record (row, column, buffer, and
the stray writes `below` or `past` the buffer), each C function an operator on it;
`size_t` wraps at `SIZE_MOD`, and `removelastchar` has the code's dead branch
`column < 0`. `Teletype` is the two-dimensional screen it is meant to be.

**ConsoleSteps.** The same functions one assignment at a time, in program order,
and an exception between any two of them, whose report is printed by calls through
the torn state. `goal` remembers what `VgaText` says the call should do, `hit` the
state the exception found.

**Keyboard.** The device (keys held, bytes on their way, the 8042's one-byte
buffer) and the driver. Keys in `Extended` send the prefix 0xE0 first, one byte and
one interrupt each; around those in `Cursor` the device takes back a left shift
with fake releases and presses. The event is computed from `keydown` before it is
changed, as in the code.

**Timer** and **Clock.** The arithmetic of `timer.c` with C's division and the
wrapping `int`; and a clock beside it whose reference `HMS` never overflows.

**Itoa.** Digit by digit, with C's rounding towards zero, the digit table indexed
from its middle, and the inversion in place.

**Boot** and **Paging.** From the boot loader's jump to `kernel_main`'s
loop. `Boot` has the checks, the table-filling loop with its fall-through, the
stack of return addresses and the control registers, on any CPU and boot loader
(`Machines`), and what a page walk finds (`Walk`); `Paging` rewrites the tables
entry by entry. `cached` is the translation of the kernel's own page: `Drop`
forgets it at any time, `LookUp` walks the tables again, and `lost` is set when the
walk does not lead back. `Rewritten` are the entries `map_page_tables` has done so far.

**Kernel.** `kernel_main`, the two handlers, and instances of the modules above on
shared variables, with the CRT controller and `vga_setup` as the list of its port
writes. `pc` is main's next statement; `vga_setup` is one step per write, because
that is where it can be preempted. `torn` is a ghost: which part of the cursor a
handler that printed found half set (`HalfSet`). The body of an IRQ handler is
one step, since IF is clear and this module raises no exceptions.

### UEFI application

**Graphics.** Where the three drawing functions write, as the runs of pixels their
loops visit, 16-bit parameters included; `Units` makes one call of them with any
arguments. **EfiMain** is `efi_main` call by call: each firmware call may fail,
`itoa` may hit the mode just queried (`wild`), no memory, or memory that does not
matter (a hit on `mode_num`, on `gop` or on code is not modelled); keys are stamped with when they were typed.

### gnu-efi

| Module | Models |
|---|---|
| `EfiLocks` | `FLOCK`: tasks at priority levels, one step for each access to the level, `OwnerTpl` and the counter |
| `EfiServices` | the next five together, in any order |
| `EfiParts` | those five, device paths and the applications: the parts that have theorems |
| `EfiHandles` | the (un-, re-)install functions for lists of protocols, firmware call by firmware call, with a driver whose notification function takes hold of interfaces |
| `EfiBuffers` | `GrowBuffer`'s retry loop under each of its callers; what they do with the result (by signature, boot order, deletion) |
| `EfiFiles` | the three ways `OpenSimpleReadFile` finds a file, reading with wrapping offsets, closing |
| `EfiInput` | waits with and without a timer, another reader of the keyboard, the line editor |
| `EfiPrint` | `_Print` token by token, to console, string or growing pool string, with its buffer, widths, fields and attributes |
| `EfiPaths`, `EfiDescribe` | device paths: taking apart, putting together, unpacking and matching; the text of each kind of node |
| `EfiText` | numbers to text and back, patterns, arguments; memory and string functions on one memory, GUIDs, times, fractions, dumps, debug messages |
| `EfiTables` | partition tables, SMBIOS records, packed decimals; status names, box graphics, checksums, devices by path, configuration and ia64 system tables |
| `EfiMachine`, `EfiImage`, `EfiArith` | calls into the firmware, setjmp and PAL calls; start-up and relocation of each machine, `InitializeLib`, moving lists; 64-bit arithmetic in C and assembly |
| `EfiApps` | the applications in `efi/apps`: the driver that stays resident and the program that calls its copies; pages by typed numbers, a PCI function, graphics modes, variables read in two calls |

`EfiDescribe` and the modules of the last four rows are functions without a state
of their own, but for the resident driver of `EfiApps`: `EfiAnswer` asks one question, on inputs from small sets, and keeps the
answer. Firmware, devices and the user are external definitions, modelled by how the
library uses them.

## 3. The runs

| Run | Distinct states | Shows |
|---|---|---|
| `parts` | 122,845 | The kernel's parts, each on its own: start-up and the rewriting of the tables, interrupt dispatch, console in calls and in assignments, keyboard, clock, itoa, drawing. |
| `programs` | 298,205 | `kernel_main` with its handlers, and the application whichever call fails. |
| `efi_lib` | 205,575 | gnu-efi, part by part, and its applications. |
| `console_below` | *violated* | Erasing at the start of a row writes below the buffer. |
| `keyboard_extended` | *violated* | The prefix 0xE0 is taken for a release. |
| `kernel_dead` | *violated* | A key used during setup silences the keyboard for good. |
| `kernel_cursor` | *violated* | A tick inside `vga_setup` splits a pair of port writes. |
| `paging_dropped` | *violated* | A CPU that forgets its own page after it was rewritten does not find it again. |
| `device_path` | *violated* | Appending to a path of several instances loses all but the first. |
| `unsigned_decimal` | *violated* | A large unsigned number is printed with a minus sign. |
| `mbr_overlap` | *violated* | A partition inside a later one is not noticed. |
| `ui_string` | *violated* | The search for a string in a language never leaves the first entry. |

The passing runs take about a minute or less each.

### Properties

*parts: interrupt dispatch*

- `IdleWhenEnabled`, `OneAtATime`, `InServiceMatchesFrame`: with IF set nothing is
  in service or on the stack; interrupt frames do not nest, one has always interrupted main itself,
  with any number of exceptions on top; the in-service bits are at every step those
  the running handler will retire.
- `RightHandler`: an interrupt on line n runs what is registered for 32 + n.
- `NoResetOnceOn`: after `sti` no delivery finds its gate missing.
- `FaultIsFinal`: after an exception nothing returns and no interrupt is taken. What
  is on the stack stays as it is, below any further exceptions; no handler changes
  and the line in service stays in service.
- `ImplementsIrqService`: the refinement. `EveryRequestServed`: a latched line is
  acknowledged, unless the CPU faults or a higher line is for ever pending.
- `TypeOK`: among the rest, no write beside `interrupt_handlers`.

*parts: the units*

- `StepsAddUp`: undisturbed, the assignments of a call add up to the single step
  `VgaText` (and so `Kernel`) takes for it.
- `BlankAhead`: between calls everything from the point on is blank, so text never
  runs into the remains of older text, erasing and scrolling included.
- `ReportTorn`: only the report of an exception that found the point off the screen
  writes past it, and the report's last line is visible exactly when the exception
  did not hit the scroll (`++terminal_row` done, the row not yet stepped back).
- `ImplementsTeletype`: the flat buffer is the two-dimensional screen, as long as
  nobody erases past the start of a row.
- `KeydownTracksHeld`: `keydown`, run forward over the bytes in flight, is the set
  of codes of the keys held. Two exceptions of the code are in it: an extended key
  and a plain one that share a code are one entry (the instance has no such pair),
  and the left shift may be missing while a cursor key is down, since the driver
  believes the fake release.
- `ShowsElapsed`: at every tick the time printed last is the elapsed time, up to
  the last tick an `int` counts.
- `ItoaExact`: positional notation for every value and base, the smallest int
  included; no sign outside base ten, nothing for bases out of range.
- `DrawingExact`: shapes that fit stay in the frame buffer, and a rectangle comes
  out upright exactly when it ends before the right margin or has one row.

*parts: start-up*

- `PagingComplete`: paging comes on last, with root, PAE and LME set and every page
  mapped to itself.
- `FramesKept`: while paging is on each entry holds the address of its own page, and a
  walk finds that page exactly as long as the entry has not been rewritten: rewriting
  cuts the page-size bit off.
- `KernelMapped`: however often the CPU drops its translation, it fails to find the
  kernel's page only after that page's own entry was rewritten. `StartUpEnds`
  (`StartsUp`): start-up ends in the error report or in the loop, with that one
  exception.

*programs: kernel_main*

- `CursorConfigured`: what the cursor's registers hold after setup, exactly. Shape and
  position are whole, unless a handler printed between two port writes that belong
  together; then the register it disturbed keeps what the BIOS left in it, or the
  position has the high byte of the handler and the low byte of `vga_setup`, until
  something is printed again.
- `KeysGetRead`: a byte whose interrupt is pending once `main` has registered the
  keyboard's handler gets read, if the timer leaves the CPU time.

*programs: efi_main*

- `DrawsOnScreen`: drawing happens only in a mode with the resolution and format it
  is made for, and within its frame buffer, also if the stray digits hit the mode's numbers.
- `HaltExplained`: a halt has its cause in a failed call, which the message names,
  in a card without the mode, or in digits written over the mode's numbers.
- `KeyIsFresh`: the key that ends the program was typed after the drawing.

*efi_lib*

- `Exclusive`, `LevelRestored`: one task inside the lock, the counter 1 exactly
  then; and each release restores the level its own acquisition found.
- `AllOrNothing`: a list of protocols is installed or replaced whole or not at all,
  with one exception: a failed replacing of a list that names a protocol twice, as
  what was done first is undone first.
- `PathsExact`: duplicating, appending an instance and unpacking come out right and
  within what was allocated. Appending a path does exactly if the first has one
  instance, and stays in bounds exactly then or if the second is no longer than the
  first; the first instance is copied whole exactly if it has one node; matching is
  right unless an instance is merely the beginning of the path looked for.
- `BuffersExact`: a getter returns the data as last read or NULL with an error,
  nothing is left in the pool, and the memory map's key still holds.
  `BootOrderKept`: an insertion keeps what was read; it is lost only if the read
  failed or somebody else wrote in between.
- `FilesExact`: an open file is the one asked for; it and its blocks are all that is
  left behind, and nothing once it is closed or the opening failed.
- `PrintExact`: a whole format comes out as meant wherever the buffer is flushed,
  attributes included; only a format cut off within an item, or one that sets an
  attribute where there is no console, reads out of bounds.
- `LineEdited`, `KeyBeatsTimeout`, `TimedWaitEnds`: line, screen and cursor agree; a
  key that is there is never reported as a timeout; a wait with timeout 0 ends.
- `FunctionsExact`: numbers, patterns, arguments, copies within one memory, dumps and
  debug messages; the text of a device path, which tells its nodes apart except those
  the code prints alike, and comes apart again at its separators; partitions, SMBIOS
  strings, packed decimals, status names, checksums, devices, configuration tables,
  ia64's system table. Where the code is wrong it says when, exactly: `ValidMBR` misses
  a partition that a later one encloses; `LibGetUiString` hangs if the first of some
  entries does not match; a long unsigned number with its top bit set is printed as a
  negative one; a pattern that is cut off within a set is read past its end if there is
  anything to match with what is missing.
- `MachinesAgree`: on every machine arguments arrive, `longjmp` goes back, the image
  is moved whole before `efi_main` runs, and arithmetic agrees. Its exceptions:
  aarch64's `jmp_buf` is a word short; `longjmp` of ia32 and arm stops in the middle,
  so that it goes nowhere; x86-64's `_start` goes on after an error of `_relocate`; the
  one-bit-at-a-time `DivU64x32` is right only for divisors without their top bit;
  ia64's PAL stub compares the r28 of an earlier call.
- `AppsExact`: drv0_use.efi calls no code that is gone, unless a copy of the driver
  was unloaded while its protocol was held, which `Drv0Unload` ignores; pages are
  asked for with the numbers typed, in the limits printed; every mode is listed, and
  the watchdog is off afterwards only if there was something to list; port 80h is
  routed only on a Cougar Point, since `route80h.c` finds an ICH10, the device its first
  comment names, and looks on; a variable that
  changes between the calls for its size and its value is told whole or not at all.

*the violated runs*

- Each of `NeverBelowStart`, `OnlyHeldReleased`, `EveryByteRead`, `CursorWhole`,
  `KernelFound`, `AppendsToEach`, `UnsignedDecimal`, `NoneOverlap` and `SearchEnds`
  states what a comment of the code promises (section 6), without the exceptions
  that the properties above spell out.

### What setup with interrupts on costs

`main` goes on setting up for a while after `sti`, and two things may go wrong in that
time. A byte of the keyboard that arrives before its handler is registered, from
power-on on and in the boot menu too, loses its interrupt, and the 8042 sends no more:
`KeysGetRead` starts where that is over, `EveryByteRead` does not (`kernel_dead`). And
a tick that prints, or a key, may come between two port writes of `vga_setup`:
`CursorConfigured` says what that leaves, `CursorWhole` that it leaves nothing
(`kernel_cursor`). Neither property assumes anything of when keys are pressed or how
long setup takes.

## 4. Bounds, abstractions and fairness

Kernel:

- *Lines.* One slave line (8, vector 40, the boundary of the second EOI) and two
  master lines; spurious 7 and 15, an NMI and a general-protection fault, up to three exceptions
  on one another or two on a handler (`MaxFrames` 2). Handlers
  do not nest, so more lines add symmetric states; the proofs cover all fifteen.
  `Indices` 31, 32, 40 and 48 of a table of 48: below, first, middle, one past.
- *Screen.* 3 rows of 2 cells, two visible glyphs: a full row, a full screen and
  both at once. One row of 2 in `Kernel`, where every line scrolls. `MaxErased` (8)
  bounds how far left of a row's start the point goes: more than the buffer holds.
  `SIZE_MOD` (64) stands for 2^64 and is assumed larger than twice the buffer. The
  exception's report is two lines, of two and one characters.
- *Keyboard.* A letter, left shift, left control and the left arrow (extended, with
  fake shifts), `FifoSize` 3 bytes in flight; a letter with 1 in `Kernel`, and
  backspace besides in `kernel_cursor`. Only codes of keys that exist, and 96 (0xE0 less 128), have an entry.
- *Clock and itoa.* An 8-bit `int`: 127 ticks at 3 a second, 4 seconds a minute, 5
  minutes an hour, so every carry happens twice; all 256 values in bases 1, 2, 10,
  16, 36 and 37. In `Kernel` a second has 2 ticks and the count stops meaning time
  after 2 or 3, so that a tick that prints and one that does not come at every place.
- *Cursor.* Registers that count to 3 (`BYTE`); the BIOS left 2 in them, no value
  of the shape; home is position 5, where the console never puts the cursor.
- *Frame buffer.* 4 x 3 pixels, 16 for 2^16, glyphs of 2 x 2: positions and sizes
  before, at and past every edge and at the wrap.
- *Paging.* 64 entries in `parts`, the real 512 in `paging_dropped` and any number in
  the proof; the kernel's page is 0 in the runs and any page in the proof.
- *Left out.* Colours, what text says, the registers the stub saves, the bits
  `enable_cursor` reads back, the timer's divisor. Clearing `keydown` with `memset`
  is one step.

UEFI:

- *Application.* The real 1024 x 768; cards with up to two of five modes (right,
  right with padded lines, wrong format, smaller, larger); two keys.
- *gnu-efi.* A lock of level 3 among tasks of levels 1 to 4, one of them above the
  lock; lists of 2 of 2 protocols with 2 interfaces (a protocol twice included);
  paths of up to two instances of up to two nodes, one of a length that needs
  padding; data of up to 3 entries fetched into a first buffer of 1; files two nodes
  deep of size 0, 1 and 3 with `UINTN_MOD` 8, so a read's end wraps; a print buffer
  of 3 under formats of two segments; lines of 1 and 3 characters with two keys at a
  time. Numbers of 12 bits with all numerals of up to four characters; patterns of
  three elements on up to three characters; three partitions under a signature, and one without, on
  disks of 3, 5 and 8 blocks;
  three SMBIOS records; images of two relocations; halves of a double word of 8 bits
  with 15 values around each power of two, `DivU64x32` and the assembly also on 18
  dividends by 12 divisors; a memory of 4 bytes for overlapping copies; bytes of 3
  bits for checksums; two copies of the driver that say two hellos each, typed numbers
  on both sides of each limit and of a word's sign and width. These are functions, so each case is one state: the bounds are
  chosen to reach both sides of every comparison in the code.

Deadlock is checked in every run; where the code stops for good (`hlt` after an
error, the end of the application, a read out of bounds), the model has a step that
stays.

Fairness:

- `Interrupts`, `WF(Setup)`, `WF(Running)`, and `Kernel`, `WF(Main)`, `WF(Running)`:
  the CPU keeps executing; nothing could neglect it. `WF(Accept)`: with IF set, a
  pending request is taken at an instruction boundary. `SF(Deliver(n))` in `Kernel`:
  IF is clear during each handler, so "enabled for ever" never holds while the timer
  ticks; a request that again and again has both IF and priority is taken, since the
  CPU samples it after every instruction.
- `Paging`, `SF(CodeStep)` and `WF(LookUp)`: an instruction runs if its page is
  found again and again; the CPU looks up what it needs.
- `EfiLib`, `WF(InputStep)` and `WF(TimerStep)`: the code of a wait goes on, and a
  timer that was set expires.
- Nothing is assumed of devices, users, drivers or firmware answers. Liveness
  properties carry their condition: no higher line pending for ever, the timer
  leaves the CPU time, a timeout of 0.

## 5. What is proved

| Module | Theorem | States, for every value of the constants |
|---|---|---|
| `InterruptsProofs` | `TypeCorrect`, `IdleOnceEnabled`, `NeverNested`, `ServiceMatchesFrame`, `RightHandlerRuns` | the five invariants of dispatch |
| | `NeverReset`, `FaultsAreFinal` | the two action properties |
| | `ServiceImplemented` | `Spec => ImplementsIrqService`, the refinement |
| `KernelProofs` | `KernelDispatches` | the running kernel implements `Interrupts`, with two lines and two handlers |
| | `KernelHandlers` | `IdleWhenEnabled`, `OneAtATime`, `InServiceMatchesFrame` and `RightHandler` of the running kernel |
| | `CursorSafe` | `CursorConfigured`, torn cursors included |
| `UnitsProofs` | `StaysInBuffer` | no write of `VgaText` leaves the buffer, if no backspace is typed at the start of a row |
| | `IsTeletype` | `ImplementsTeletype`, under the same condition |
| | `CallsAddUp`, `NothingAhead` | `StepsAddUp` and `BlankAhead` |
| | `ReportsRight` | `ReportTorn`, on a screen of at least two rows |
| | `KeysKnown` | `KeydownTracksHeld`, if `CodesApart` |
| | `ClockRight` | `ShowsElapsed`, as long as an `int` holds the ticks |
| | `ItoaRight` | `ItoaExact` |
| | `DrawnRight` | `DrawingExact` |
| `PagingProofs` | `PagingComesLast`, `FramesStay` | `PagingComplete` and `FramesKept` |
| | `KernelStays` | `KernelMapped`, on a CPU that may drop its translation at any time |
| `EfiMainProofs` | `DrawingSafe` | `DrawsOnScreen`, if `PictureFits` the screen |
| | `HaltsForCause`, `WaitsForFreshKey` | `HaltExplained` and `KeyIsFresh` |
| `EfiServicesProofs` | `LockExcludes`, `LockRestores` | `Exclusive` and `LevelRestored` |
| | `WholeOrNone` | `AllOrNothing` |
| | `DataFetchedWhole`, `OptionAppended` | `BuffersExact` and `BootOrderKept` |
| | `FileHeld` | `FilesExact` |
| | `LineIsTyped`, `KeyFirst` | `LineEdited` and `KeyBeatsTimeout` |
| | `PrintsAsMeant` | `PrintExact` |
| | `PathsComeOut` | `PathsExact` |
| | `AppsDoAsTheySay` | `AppsExact` |

`GraphicsProofs` holds the lemmas about the drawing functions that `UnitsProofs`
and `EfiMainProofs` share. `EfiDataProofs` proves of `EfiPrint` and of `EfiPaths`, each
by itself, what `PrintsAsMeant` and `PathsComeOut` say; `EfiServicesProofs` shows that
the instances of the two modules in it are those of `EfiParts` (`SameText`,
`SameData`) and cites it.

### The arguments

**Dispatch.** For every table from 48 vectors on, all wirings, spurious lines,
exceptions, handlers and indices. None of the properties is inductive:
`IdleWhenEnabled` is kept by `iretq` only if the frame it returns from is the last
and has retired its line; that needs the in-service bits to match the frame; that
needs the EOI to retire this frame's line and no other, hence that there is only
one interrupt frame; which needs IF to have been clear since the gate was entered.
`IInv` ties them together: `SetUpSoFar` (which gates exist by each stage, and where
the controllers' bases are), `Masked` (IF set means an empty stack), `Shape` (the
stack is empty with nothing in service, or its outermost frame is an interrupt's
whose unretired lines are exactly `pic.isr`, or an exception's with nothing in
service; all frames above it, however many, are exceptions'), `TypeOK`. There is a lemma for each action; `EnterGate`, `SlaveRetired`,
`MasterRetired`, `Relabel` and `TopPreserves` carry the argument. The refinement
uses the same invariant: delivering is the abstract acceptance, the last EOI of a
line the abstract end, and everything else a stutter.

**The running kernel.** For any timer frequency, screen, keyboard and texts. Each
action of `Kernel` that touches the controllers, the tables or the stack is one of
`Interrupts` (`SameActions`, `StepDispatch`), so the theorems above are cited for it
as they stand (`Irqs`, an instance of `InterruptsProofs`), and so is their invariant:
IF set means an empty stack, a frame returned from is the last one. The cursor needs
only how main and the handlers share the controller. While `vga_setup` is under way,
`Written(n)` says that `n` of its eight writes are left and, register by register, what
the controller holds (`Stands`): what the last index write selected, unless a handler
has printed since, which leaves 15 selected and is remembered in `torn`; then the next
data write goes to 15, and what it should have set keeps its old value. One lemma
goes through the eight writes (`EachWrite`), one through a print at each of them
(`ShowTears`). Afterwards printing moves the cursor as its last act (`CursorMoves`),
which makes a torn position whole. The texts printed are of any
length: the loop over them is a recursive function, and what each of its turns keeps
is shown for the last by `Induction`, from the least index that fails.

**Console, in calls.** For every size of screen. The invariant `OnConsole` says that
the point is within the screen and nothing was written beside it. The rest is
arithmetic of the flat buffer: row `r`, column `c` is cell `r * VGA_WIDTH + c`, cells
of different places differ, and one turn of `move_up`'s loop moves each cell up a row.

**Console, in assignments.** For every size of screen, with and without backspaces
at the start of a row. `StepsAddUp` speaks of the end of a call only; its invariant
`StepInv` says for each place within one (`Ongoing`) which part of the call is left:
applied to the state as it is now, that part gives `goal`. After `n` rows of the
scroll's loop, for instance, the goal has `n` rows as they are and the rest still to
be copied (`Copied`). An exception ends a call where it stands and is not compared
with its goal. `Settled(goal)` makes `BlankAhead` part of the same induction: the
column is `SizeT` of some signed distance from the row's start (`Distances`), since
erasing takes it below zero, and everything from there on is blank.

**Report of an exception.** `Torn` says where the point is whenever an exception may
come (`Placed`): on the screen, or, within the scroll, one row below it. The report is
then followed character by character: each keeps what the text before it established
(`WriteKeeps`, for any such fact and any text), and what is established is that the
line so far stands before the point (`InLine`), on the screen (`Within`) or below it
(`Below`). The last line needs a row above the point's: on a screen of one row its own
newline scrolls it away, so the theorem asks for two.

**Keyboard.** `KeydownTracksHeld` compares `keydown`, after the bytes in flight, with
the keys. `Believed(c)` looks for the last byte about `c` among them, and its change
with a byte more at the back (the device's step, `OneMore`) or a byte less at the
front (the driver's, `OneLess`) needs no induction over the queue. The invariant
(`Knows`) is stronger in one place: what excuses a missing left shift is not that a
cursor key is down, but that shift and cursor key are both down (`Faked`), as only
then has the fake release been sent without its press.

**Clock.** Until the `int` is full the count is the elapsed time (`Counted`); the
rest is that quotients and remainders are unique, and a tick that is not due changes
no part of the time.

**itoa.** For an `int` of any width. After `k` turns of the first loop what is left is
the value divided by `base^k`, towards zero, and the digits written are the `k` lowest
(`Converting`); when nothing is left, `k` is the number of digits there are
(`LengthIs`). After `j` turns of the second, `j` digits are exchanged at each end
(`Inverting`), until all are (`TurnsEnds`). That the powers of the base are what their
recursive definition says is shown by `AllOf`, the induction on a set of numbers that
holds 0 and every successor.

**Drawing.** What was drawn is what the call draws (`Made`). Each shape is a union of
runs, and each run lies within one row of the screen, whatever the coordinates. A
rectangle that is cut off at the right margin slants: its second row starts where the
first one ended, and the proof names a pixel that is missing or too much.

**Paging.** For tables of every size and a kernel in any page. The invariant lists
what is built and switched on at each place of the code (`Starting`, `Filling`,
`Enabling`, `Enabled`, `Remapping`), which is what makes the return addresses of
the two calls come out right although the first returns through the second's `ret`.
While the tables are rewritten (`Mapped`) each entry of `p2` is the one `boot.asm`
wrote or, exactly if it is in `Rewritten`, the one `map_entry` makes of it (`CutTo`),
which names no page (`MappedWalks`). A failed look-up is thereby one after the
kernel's own entry was rewritten, whatever the CPU had cached.

**Application.** For cards with any number of modes. The invariant follows what the
code relies on without checking again: the mode looked at is the card's or has been
overwritten (`InfoIsMode`); those passed over were not wanted (`Passed`); the mode set
is the one compared (`FoundDesired`), and stays set while there is a drawing
(`SetToDesired`), which is empty or the whole picture (`DrewPicture`); what the
keyboard holds after its reset was typed after it (`KeysSinceReset`).

**Locks.** For any set of tasks, levels and users not above the lock's level. The
invariant says that the active tasks are stacked (`Stacked`: each preempted those
below it at a level above theirs, and a task inside the lock is at the lock's level,
so no other user can start), that each returns to the level of the one below it
(`LevelOfTop`, `ResumesBelow`), and that what is saved, in the task's own variable
and then in `OwnerTpl`, is its own level (`OwnLevel`).

**Protocols.** For any protocols, interfaces and lists of any length. While nothing
has failed, each protocol has what the last entry done for it asked for
(`DoneSoFar`), and the driver holds none of them (`DriverOut`), as the raised level
keeps it out: that is why the undoing calls, whose status the code ignores, cannot
fail. While the call undoes, those not yet undone still have the new interface and
all others have the old one (`UndoneSoFar`); this needs each entry to have found what
it would put back (`FoundOld`), which a protocol named twice breaks. Hence the
exception in `AllOrNothing`.

**Data of unknown size.** For data of any length, growing as it is fetched. Where the
pointers point is what the pool has (`PoolMatches`, `OneBlock`); at each turn of the
loop there is a buffer with the data as last read, or one whose content does not
count because the status says so (`Growing`); and the boot order written back is the
one read with the option behind it (`OrderBuilt`).

**Files.** For paths of any number of nodes. While nodes are opened one by one, one
file is open, and it is the one the nodes so far lead to (`OneFile`); the handle then
has one of three forms, each with exactly its own blocks and files: a copy of the
contents, a file, or nothing (`OfCopy`, `OfFile`, `OfNone`). `ReadsWithin` follows from
it with an end that wraps.

**Keys.** For any characters and lengths of line. The buffer holds what was typed so
far (`LineHeld`), and the screen shows it, with blanks where it was longer
(`LineShown`). A timeout is returned only by a step that looked at the keys last.

**Printing.** For formats of any segments and any length, a buffer of any size from
two, and any room. `_Print` sees tokens one at a time, `PrintExact` speaks of the
whole format: the invariant joins them. `SoFar` says that what was handed over, what
is in the buffer and what the item under way has still to put are consecutive parts
of what the author meant (`Meant`), each character with the attribute it was meant
to have; a flush then moves the borders between the parts and nothing else, wherever
it comes, between the two characters of a newline included. `Located` says where in
the format the code is: between two segments (`InText`), at one of the stages of
reading an item, with what it has read so far of padding, width and field (`InItem`),
putting it (`InPut`), or done (`InDone`). Where a segment's tokens and its characters
begin is the sum over the segments before it; that it is, and that the format is those
tokens one after the other (`FlattenSeq`, a fold of the library), is shown by
induction on a set of numbers, `AllOf`, as for itoa. Of a format that is cut off, or
that sets an attribute where there is no console, the invariant keeps the types only;
`PrintExact` says of these that no others are read past their end.

**Device paths.** For paths of any nodes and any length, any alignment, and any size of
a header. Memory of which nothing is known but that a path ends in it is a sequence of
nodes, the first end, and whatever is behind (`EndsSomewhere`); every function is
shown to see no further (`PathOf`, `InstancesOf`). What `DevicePathInstance` returns
call after call is defined by recursion along the path, and what is proved of it is
how it goes on: a node joins the instance under way or ends it (`WalkedNode`); behind
the end of an instance a walk starts anew, so that the instances of two paths are
those of both (`WalkAfterEnd`); nodes before a path come before its first instance
(`WalkBehind`); and no byte is lost or counted twice (`WalkBytes`). From these follows
what each function promises of the memory it writes and of the bytes it asked for, a
lemma for each (`AppendKept`, `InstanceKept`, `UnpackKept`, `CopyKept`, `FirstKept`,
`MatchKept`), right and wrong cases alike. That the room asked for by
`AppendDevicePath` is too small exactly when the first path has several instances and
the second is the longer one is arithmetic (`RoomFor`): asked for is
size(src1) * n + size(src2), written are size(src1) and n times size(src2).
`UnpackDevicePath` keeps every node at a multiple of the alignment because multiples
add up to one (`MultipleFacts`). The invariant, `PathsPromised`, is that whatever was
called has kept its promise. Inductions are on the length, by a set of sequences
(`AllSequences`), as for itoa.

**Applications.** For any number of copies of the driver, any numbers typed, words of
any width that is longer than the limits, and rooms of any size. The resident driver's
part is the only one with a history: `DriverInv` is what `DriverExact` says and that
the list of handles is a sequence; `DriverNext` keeps it, since a copy that is loaded
is new at the end of the list, and one that is unloaded is taken out of it where it
stands, which must be its only place (`RemovedOnce`). The others answer one question
each, and a lemma for each says that the answer is what `AppsExact` asks for: a number
within a limit is the number typed (`ReadAsTyped`), the first match is the least
(`LeastMatch`), the list of modes has, after `k` turns, an entry for each of the first
`k` (`Listed`, by `AllOf`), and the pause ends since the counter passes its limit
before it wraps (`PausesEnd`). The first attempt failed at the limit 13 of the types of
memory: in a word of four bits a 13 that is typed is a -3. Hence
`EfiAppsAssumption` asks that a word be longer than 13, too.

### Assumptions

Each is evaluated by TLC on a passing run.

- `InterruptsAssumption`: 48 vectors at least, no device on the cascade input, only 7
  and 15 spurious, exceptions below 32.
- `BootAssumption`, `PagingAssumption`: a kernel page within the tables.
- `VgaTextAssumption`: a screen of at least one cell, a `size_t` that addresses it
  twice over and holds how far erasing goes left of it.
- `KernelAssumption`: those of its parts; texts of glyphs and newlines; a second of
  ticks that an `int` holds; a `size_t` that an `unsigned short` divides; a home
  for the cursor of two bytes, and registers the BIOS left with a byte each.
- `UnitsAssumption`: the above; values that an `int` holds; codes of keys below 96, so that a press and a release
  differ; a minute of whole seconds and an hour of whole minutes; coordinates that a
  `uint16_t` holds; report lines no longer than a row.
- `GraphicsAssumption`, `EfiMainAssumption`: a screen and glyphs of at least one
  pixel, a `uint16_t` that holds the screen's size; lines of pixels no shorter than
  the resolution.
- `EfiLocksAssumption`: levels are numbers, users do not run above the lock.
- `EfiServicesAssumption`: an application runs below `TPL_NOTIFY`; sizes fit in a
  `UINTN`; a line has room for its terminator; `NULL` is no interface, buffer or file;
  a print buffer of two characters at least, and segments of the three kinds there
  are (a character or newline, an attribute, an item with its flags, widths and text).
- `EfiPathsAssumption`: a header and an alignment of at least one byte; nodes whose
  length fits in its two bytes, also once it is aligned (the field is set to the
  aligned length without a check); paths that end; no instance of more than 513 nodes,
  since `DevicePathInstance` gives up after 01000 of them, a number in octal.
- `EfiAppsAssumption`: limits, rooms and what is typed are numbers; a word whose signed
  half holds 13 and the largest number of pages; `NULL` is no value of a variable.

Some theorems carry a hypothesis besides, and each is there for a reason in the code:
no backspace at the start of a row (finding 1); `CodesApart`, no extended key in use
shares its code with another key in use (finding 2); and `PictureFits`,
that the screen has room for a triangle 300 wide and a text of 44 glyphs at (130, 500), as the code's 1024 by 768 has. `ClockRight` speaks of the time
before the `int` overflows, 248 days at 100 ticks a second, and `ReportsRight` of
screens of two rows or more.

### Only model-checked

- Liveness: `EveryRequestServed`, `KeysGetRead`, `StartUpEnds`, `TimedWaitEnds`.
- `FunctionsExact` and `MachinesAgree`: the results of many functions on strings,
  tables, registers and words, most defined by recursion over an argument. Each needs
  an induction of its own over that data, as device paths did, and the provers have
  no induction over an operator; these are left.

## 6. What the checks found

Each finding is a run whose one property TLC violates.

1. *Backspace at the start of a row* (`vgatext.c:167`). `terminal_column` is a
   `size_t`, so `terminal_column < 0` is never true. The column wraps to 2^64 - 1
   and stays on its row; erasing goes on through the rows above and then below
   0xB8000.
2. *Extended keys* (`keyboarddriver.c:64`). 0xE0 is reported as the release of
   0x60, and the second byte changes the state of an unrelated key.
3. *Early key* (`keyboarddriver.c:88`). The interrupt of a byte that arrives before
   the handler is registered is ended without reading the byte; the 8042 then
   raises no more.
4. *Torn cursor update* (`vgatext.c:275`). `vga_setup` writes port pairs with
   interrupts on while handlers write the same ports.
5. *Live page tables* (`paging.c:43`). "Each entry is 2mb", but the page-size flag is
   cut off; nothing makes the CPU keep what it has cached, on which the kernel lives.
6. *Appending to several instances* (`dpath.c:124`). "Src2 is appended to each
   instance", but each copy brings the node that ends the whole path.
7. *Unsigned numbers* (`print.c:1152`). `u` is "value as unsigned decimal", but with
   `l` the value goes to `ValueToString` as an `INT64`: its upper half is negative.
8. *Overlapping partitions* (`misc.c:468`). "Non of the regions overlapped so MBR is
   O.K.", but only the ends of the later partition of each pair are looked at.
9. *A search that stays where it is* (`misc.c:557`). "Search for the match", but
   nothing advances `Array`.

Other places where the code does not do what its comments or its sister functions say
are told as exact exceptions of the property they concern, so that the property fails
if the code should change either way. In `MachinesAgree`: the PAL stub of ia64, of whose
flag `palproc.S:69` says "p6 will be true, if it is one of the MCHK calls", compares
the r28 of an earlier call; `longjmp` of ia32 and arm goes nowhere; the `jmp_buf` of
aarch64 is a word short. In `AppsExact`: `route80h.c:4` says it changes the bit "on
ICH10's General Control And Status Register", and it finds an ICH10 and looks on;
`Drv0Unload` ignores that it failed.

## 7. Not modelled

- `disable_cursor`, `disable_timer`, `memsetw`, `to_lower`, `create_page`: nothing
  calls them, or they are empty. The timer's divisor: two constant port writes.
- `system.c`: port access and byte loops, folded into the definitions that use them.
- The multiboot header, linker script, GRUB menu, font data and glyphs: data.
- The headers of gnu-efi: constants, records and prototypes. What a definition uses
  of them it maps.
- Of gnu-efi: `debug.c`, `exit.c` and the wrappers of one firmware call each, which
  have no state; `initplat.c`, empty but for one call on ia64; `ia64/setjmp.S`, which
  cannot be executed as it is (it loads floating-point registers with an integer
  instruction); those applications that greet, wait or list their arguments by calls
  modelled elsewhere (`t.c`, `t2.c`, `t4.c`, `t5.c`, `t7.c`, `t8.c`, `exit.c`,
  `tpause.c`).
- The font tool (a build-time reader), build scripts, firmware images.

## 8. Plan

1. Proofs: those parts of `FunctionsExact` and `MachinesAgree` that are arithmetic or
   walks along a sequence, as those of device paths are.
2. `Kernel` with exceptions, on `ConsoleSteps` instead of whole calls.
3. The frame with and without an error code, register by register.
4. The wrappers of run-time calls, once something in the repository calls them.
