------------------------------ MODULE Keyboard ------------------------------
(***************************************************************************)
(* The keyboard: the driver, src/arch/x86_64/keyboarddriver.c, and the     *)
(* device in front of it (hardware, outside the repository): the keys held *)
(* down, the scan code bytes on their way, and the controller's one-byte   *)
(* output buffer behind port 0x60, which raises IRQ 1 when it fills.       *)
(***************************************************************************)
EXTENDS Integers, Sequences

CONSTANTS
  Keys,         (* the keys in use, by scan code                           *)
  Extended,     (* the keys in use whose code follows the prefix 0xE0      *)
  Cursor,       (* those of them that send fake shifts                     *)
  LeftShift, RightShift,        (* special_keys_us[5] and [6]              *)
  keyboard_us,  (* the character of each scan code                         *)
  to_upper,     (* the capital of each character                           *)
  FifoSize,     (* bound: bytes the keyboard holds back                    *)
  NULL          (* the null handler, no event, and an empty output buffer  *)

KeyboardAssumption ==
  /\ Keys \subseteq 1 .. 95 /\ Extended \subseteq 1 .. 95
  /\ Cursor \subseteq Extended
  /\ keyboard_us \in [Keys \union Extended \union {96} -> DOMAIN to_upper]
  /\ FifoSize \in Nat /\ NULL \notin Nat

VARIABLES
  held,             (* device: the keys that are down                      *)
  fifo,             (* device: bytes sent and not yet in the output buffer *)
  port,             (* device: the output buffer, or NULL                  *)
  keydown,          (* driver: the scan codes it believes to be down       *)
  keypress_handler  (* driver: the function events go to                   *)

device == <<held, fifo, port>>
driver == <<keydown, keypress_handler>>
vars   == <<held, fifo, port, keydown, keypress_handler>>

(* A key is its code and whether that follows a prefix, the byte 0xE0.     *)
AllKeys == (Keys \X {FALSE}) \union (Extended \X {TRUE})
Prefix  == 224
Codes   == Keys \union Extended \union {Prefix - 128}

(* keydown is in .bss, so it starts zero; a byte left over from the boot   *)
(* loader's use of the keyboard is one typed at once in this model.        *)
Init ==
  /\ held = {} /\ fifo = <<>> /\ port = NULL
  /\ keydown = [c \in Codes |-> FALSE]
  /\ keypress_handler = NULL

-----------------------------------------------------------------------------
(* the device                                                              *)

(* While the left shift is held, a cursor key's press is preceded by a     *)
(* fake release of that shift, and its release followed by a fake press.   *)
Fake(k, byte) ==
  IF k[2] /\ k[1] \in Cursor /\ <<LeftShift, FALSE>> \in held THEN <<Prefix, byte>> ELSE <<>>
Send(k, byte) ==
  LET code == IF k[2] THEN <<Prefix, byte>> ELSE <<byte>>
  IN  /\ Len(fifo) < FifoSize
      /\ fifo' = fifo \o (IF byte > 128 THEN code \o Fake(k, LeftShift)
                                         ELSE Fake(k, LeftShift + 128) \o code)

Press(k) ==
  /\ k \notin held /\ held' = held \union {k}
  /\ Send(k, k[1]) /\ UNCHANGED <<port, driver>>

Repeat(k) ==
  /\ k \in held
  /\ Send(k, k[1]) /\ UNCHANGED <<held, port, driver>>

Release(k) ==
  /\ k \in held /\ held' = held \ {k}
  /\ Send(k, k[1] + 128) /\ UNCHANGED <<port, driver>>

User == \E k \in AllKeys : Press(k) \/ Repeat(k) \/ Release(k)

(* The controller takes the next byte and raises IRQ 1.                    *)
Fill ==
  /\ port = NULL /\ fifo # <<>>
  /\ port' = Head(fifo) /\ fifo' = Tail(fifo)
  /\ UNCHANGED <<held, driver>>

-----------------------------------------------------------------------------
(* the driver                                                              *)

capitalize(down) == \E shift \in {LeftShift, RightShift} \intersect Keys : down[shift]

Event(scancode, pressed, repeat) ==
  LET c == keyboard_us[scancode]
  IN  [character |-> IF capitalize(keydown) THEN to_upper[c] ELSE c,
       scancode |-> scancode, pressed |-> pressed,
       repeating |-> repeat, released |-> ~ pressed]

(* The event keyboard_interrupt_handler passes on for a byte, computed     *)
(* from keydown as it was before the byte, and keydown after it.           *)
IsRelease(byte) == byte > 128
EventOf(byte) ==
  IF IsRelease(byte) THEN Event(byte - 128, FALSE, FALSE)
                     ELSE Event(byte, TRUE, keydown[byte])

KeydownAfter_stuck(down, byte) ==                  \* mutant of KeydownAfter
  IF IsRelease(byte) THEN down ELSE [down EXCEPT ![byte] = TRUE]
KeydownAfter(down, byte) ==
  IF IsRelease(byte) THEN [down EXCEPT ![byte - 128] = FALSE]
                     ELSE [down EXCEPT ![byte] = TRUE]

(* inb empties the output buffer; the event goes to the handler, if there  *)
(* is one, before keydown changes.                                         *)
Delivered == IF keypress_handler = NULL THEN NULL ELSE EventOf(port)
keyboard_interrupt_handler ==
  /\ port # NULL
  /\ keydown' = KeydownAfter(keydown, port)
  /\ port' = NULL
  /\ UNCHANGED <<held, fifo, keypress_handler>>

(* setup_keyboard_driver, after register_handler: memset, then the pointer *)
ClearKeydown ==
  /\ keydown' = [c \in Codes |-> FALSE]
  /\ UNCHANGED <<device, keypress_handler>>

assign_key_press_handler(h) ==
  /\ keypress_handler' = h
  /\ UNCHANGED <<device, keydown>>

-----------------------------------------------------------------------------
(* The driver on its own, each byte read once it is there                  *)

Next == \/ User \/ Fill \/ keyboard_interrupt_handler
        \/ assign_key_press_handler("handle_key_press")
Spec == Init /\ [][Next]_vars

-----------------------------------------------------------------------------
(* Properties                                                              *)

InFlight == (IF port = NULL THEN <<>> ELSE <<port>>) \o fifo
Down(c) == \E k \in held : k[1] = c
MaybeFaked(c) == c = LeftShift /\ \E k \in held : k[2] /\ k[1] \in Cursor

(* The driver will believe a code to be down, once it has read the bytes   *)
(* still on their way, if it does now or one of them is its press, and no  *)
(* release of it comes after.                                              *)
Believed(c) ==
  \E i \in 0 .. Len(InFlight) :
    /\ IF i = 0 THEN keydown[c] ELSE InFlight[i] = c
    /\ \A j \in i + 1 .. Len(InFlight) : InFlight[j] # c + 128

(* The codes the driver will believe to be down are those of the keys that *)
(* are down: what makes "if it's already held down this is a repeat" and   *)
(* capitals right.  Only the left shift may be missing, to a fake release, *)
(* and only while a cursor key is down.  No extended key shares a code     *)
(* with another key.                                                       *)
KeydownTracksHeld ==
  \A c \in Codes : /\ Believed(c) => Down(c)
                   /\ Down(c) => Believed(c) \/ MaybeFaked(c)

(* "Scan code's greater than 0x80 are released keys": such a byte comes    *)
(* for a key the driver knows to be down, so no release is reported for a  *)
(* key that was never pressed.                                             *)
OnlyHeldReleased ==
  port # NULL /\ IsRelease(port) => keydown[port - 128]
=============================================================================
