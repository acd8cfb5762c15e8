------------------------------ MODULE EfiMachine ------------------------------
(***************************************************************************)
(* The parts of gnu-efi written for one kind of machine: calls into the    *)
(* firmware from x86-64 code that passes arguments another way             *)
(* (efi_stub.S), with the program that tests them (apps/tcc.c); setjmp and *)
(* longjmp of five machines, with theirs (apps/setjmp.c); and calls of the *)
(* processor's own firmware on ia64 (palproc.S).                           *)
(***************************************************************************)
EXTENDS Integers, Sequences, SequencesExt, EfiAnswer

-----------------------------------------------------------------------------
(* efi_callN.  A place is a register, or the stack at an offset from the   *)
(* %rsp that the stub was entered with, where its return address is.       *)
MAX_ARGS == 10
Word == 8
Reg(name)     == <<name, 0>>
Stack(offset) == <<"stack", offset>>
ElfRegisters  == <<"rdi", "rsi", "rdx", "rcx", "r8", "r9">>
MsRegisters   == <<"rcx", "rdx", "r8", "r9">>
Places == {Reg(ElfRegisters[i]) : i \in DOMAIN ElfRegisters}
          \union {Stack(Word * k) : k \in -12 .. MAX_ARGS}

(* The function to call is the stub's first argument.                      *)
ArrivesAt(k) ==
  IF k + 1 <= Len(ElfRegisters) THEN Reg(ElfRegisters[k + 1]) ELSE Stack(8 + Word * (k - 6))
Entered(n) ==
  [p \in Places |-> IF \E k \in 1 .. n : p = ArrivesAt(k)
                    THEN CHOOSE k \in 1 .. n : p = ArrivesAt(k) ELSE 0]

(* The stub's own frame, and the moves in the order it makes them, from    *)
(* the last argument to the first.                                         *)
Frame(n) == CASE n <= 5 -> 40 [] n \in {6, 7} -> 56 [] n \in {8, 9} -> 72 [] n = 10 -> 88
GoesTo(n, k) ==
  IF k <= Len(MsRegisters) THEN Reg(MsRegisters[k]) ELSE Stack(32 + Word * (k - 5) - Frame(n))
Order_forward(n, i) == i                              \* mutant of Order
Order(n, i)         == n + 1 - i
Move(n, places, k) == [places EXCEPT ![GoesTo(n, k)] = places[ArrivesAt(k)]]
Calling(n) ==
  FoldLeft(LAMBDA places, i : Move(n, places, Order(n, i)), Entered(n), [i \in 1 .. n |-> i])

(* What the firmware's function takes for argument k: beyond its return    *)
(* address lie places for four registers, and then the other arguments.    *)
Callee(n) == -Frame(n) - Word
Taken(n, k) ==
  Calling(n)[IF k <= Len(MsRegisters) THEN Reg(MsRegisters[k]) ELSE Stack(Callee(n) + Word * k)]
Arguments(n) == [k \in 1 .. n |-> Taken(n, k)]

(* apps/tcc.c: each callback has an error of its own for the first of its  *)
(* arguments that is wrong, and the first error ends the program.          *)
Errors == <<"LOAD_ERROR", "INVALID_PARAMETER", "UNSUPPORTED", "BAD_BUFFER_SIZE",
            "BUFFER_TOO_SMALL", "NOT_READY", "DEVICE_ERROR", "WRITE_PROTECTED",
            "OUT_OF_RESOURCES", "VOLUME_CORRUPTED">>
FirstWrong(n) == SelectInSeq([k \in 1 .. n |-> Arguments(n)[k] # k], LAMBDA wrong : wrong)
TestCall(n) == IF FirstWrong(n) = 0 THEN "SUCCESS" ELSE Errors[FirstWrong(n)]
TccMain ==
  LET failed == SelectInSeq([i \in 1 .. MAX_ARGS + 1 |-> TestCall(i - 1)], LAMBDA rc : rc # "SUCCESS")
  IN  IF failed = 0 THEN "SUCCESS" ELSE TestCall(failed - 1)

-----------------------------------------------------------------------------
(* setjmp and longjmp of each machine: the registers in the order that     *)
(* setjmp keeps them, one slot of the jmp_buf each ("" is a slot left out; *)
(* arm's r3 and aarch64's x16 carry sp; mips64el has its floating point    *)
(* on), the first few that longjmp loads, and whether it then jumps.  The  *)
(* sources for ia32 and arm stop in the middle of longjmp: it runs on into *)
(* whatever is linked behind it.                                           *)
X86_64 == [keeps |-> <<"rbx", "sp", "rbp", "r12", "r13", "r14", "r15", "pc">>,
           loads |-> 8, jumps |-> TRUE]
Ia32 == [keeps |-> <<"ebx", "esi", "edi", "ebp", "sp">>, loads |-> 3, jumps |-> FALSE]
Arm == [keeps |-> <<"r3", "r4", "r5", "r6", "r7", "r8", "r9", "r10", "r11", "r12", "r14">>,
        loads |-> 11, jumps |-> FALSE]
Aarch64 ==
  [keeps |-> <<"x19", "x20", "x21", "x22", "x23", "x24", "x25", "x26", "x27", "x28", "x29", "pc",
               "sp", "", "d8", "d9", "d10", "d11", "d12", "d13", "d14", "d15">>,
   loads |-> 22, jumps |-> TRUE]
Mips64el ==
  [keeps |-> <<"pc", "sp", "fp", "gp", "s0", "s1", "s2", "s3", "s4", "s5", "s6", "s7",
               "f24", "f25", "f26", "f27", "f28", "f29", "f30", "f31">>,
   loads |-> 20, jumps |-> TRUE]
Machine == [x86_64 |-> X86_64, ia32 |-> Ia32, arm |-> Arm, aarch64 |-> Aarch64, mips64el |-> Mips64el]
Machines == DOMAIN Machine
Keeps(m) == Machine[m].keeps
Jumps(m) == Machine[m].jumps

(* The slots that jmp_buf declares for each (efisetjmp_arch.h)             *)
Declared(m) ==
  CASE m = "x86_64" -> 31 [] m = "ia32" -> 6 [] m = "aarch64" -> 21
    [] m = "arm" -> 12 [] m = "mips64el" -> 20

Saved(m) == ToSet(Keeps(m)) \ {""}
setjmp(m, regs) == [i \in DOMAIN Keeps(m) |-> IF Keeps(m)[i] = "" THEN "" ELSE regs[Keeps(m)[i]]]

Returned(v) == IF v = 0 THEN 1 ELSE v
(* What longjmp leaves: the registers, and what setjmp then returns.       *)
longjmp(m, env, regs, v) ==
  LET slot(r) == SelectInSeq(Keeps(m), LAMBDA q : q = r)
  IN  [regs |-> [r \in Saved(m) |-> IF slot(r) <= Machine[m].loads THEN env[slot(r)] ELSE regs[r]],
       result |-> IF Jumps(m) THEN <<Returned(v)>> ELSE <<>>]

(* apps/setjmp.c: setjmp is to return 0, then 3, then 1.                   *)
SetjmpMain(m) ==
  LET regs == [r \in Saved(m) |-> "then"]
      Jump(v) == longjmp(m, setjmp(m, regs), [r \in Saved(m) |-> "now"], v).result[1]
      run[seen \in Seq(Int)] ==
        LET rc == Last(seen)
        IN  IF rc = 1 \/ ~ Jumps(m) \/ Len(seen) > 3 THEN seen
            ELSE run[Append(seen, Jump(IF rc = 3 THEN 0 ELSE 3))]
  IN  run[<<0>>]

-----------------------------------------------------------------------------
(* ia64: the two stubs that call the processor's firmware, at in0, with    *)
(* the call's number and its arguments in in1 to in4.  The registers of    *)
(* the caller that matter: psr, of which i lets interrupts in and ic keeps *)
(* note of interruptions; r1 (gp), r2, r28, b0 and b5.                     *)
MachineChecks == {21, 24, 25, 26}
ScratchedByPAL(regs) == [r \in DOMAIN regs |-> <<"PAL", r>>]
Restored(regs) ==
  [r \in DOMAIN regs |-> IF r \in {"psr", "r1", "r2", "b0", "b5"} THEN regs[r] ELSE ScratchedByPAL(regs)[r]]

(* The static stub compares r28 before it puts the call's number there.    *)
MakeStaticPALCall(regs, in) ==
  [entered |-> [psr |-> [i |-> 0, ic |-> IF regs.r28 \in MachineChecks THEN regs.psr.ic ELSE 1],
                at |-> in[1], r28 |-> in[2], args |-> SubSeq(in, 3, 5)],
   left |-> Restored(regs)]
MakeStackedPALCall(regs, in) ==
  [entered |-> [psr |-> [regs.psr EXCEPT !.i = 0],
                at |-> in[1], r28 |-> in[2], args |-> SubSeq(in, 2, 5)],
   left |-> Restored(regs)]
PalCall(stub, regs, in) ==
  IF stub = "static" THEN MakeStaticPALCall(regs, in) ELSE MakeStackedPALCall(regs, in)
Caller(i, ic, r28) ==
  [psr |-> [i |-> i, ic |-> ic], r1 |-> "gp", r2 |-> "own", r28 |-> r28, b0 |-> "return", b5 |-> "own"]

-----------------------------------------------------------------------------
Next ==
  \/ /\ question = "none"
     /\ \/ \E n \in 0 .. MAX_ARGS : Ask("efi_call", <<n>>, Arguments(n))
        \/ Ask("tcc", <<>>, <<TccMain>>)
        \/ \E m \in Machines, v \in 0 .. 3 :
             LET env == setjmp(m, [r \in Saved(m) |-> <<r, "then">>])
             IN  Ask("longjmp", <<m, v>>, <<longjmp(m, env, [r \in Saved(m) |-> <<r, "now">>], v)>>)
        \/ \E m \in Machines : Ask("setjmp.c", <<m>>, SetjmpMain(m))
        \/ \E stub \in {"static", "stacked"}, i, ic \in {0, 1}, number, r28 \in {20, 21, 26, 27, 256} :
             Ask("pal", <<stub, Caller(i, ic, r28), number>>,
                 <<PalCall(stub, Caller(i, ic, r28), <<"PAL", number, "a", "b", "c">>)>>)
  \/ Again
Spec == Init /\ [][Next]_asked

-----------------------------------------------------------------------------
(* The firmware's function finds every argument in its place, on a stack   *)
(* aligned to 16 bytes (%rsp is 8 off when the stub is entered) and in a   *)
(* frame that holds them without touching the stub's own return address.   *)
CallsExact ==
  /\ question = "efi_call" =>
       LET n == subject[1]
       IN  /\ \A k \in 1 .. n : answer[k] = k
           /\ (Word + Frame(n)) % 16 = 0
           /\ Frame(n) >= Word * (IF n < 4 THEN 4 ELSE n)
  /\ question = "tcc" => answer = <<"SUCCESS">>

(* longjmp goes back to setjmp's caller with every register as it was, and *)
(* with a result that is not 0; on ia32 and arm it does not go anywhere.   *)
(* On aarch64 the last register is kept behind the end of the jmp_buf.     *)
AsThen(m, regs) == \A r \in Saved(m) : regs[r] = <<r, "then">>
JumpsExact ==
  /\ question = "longjmp" =>
       LET m == subject[1] IN
       /\ answer[1].result = <<>> <=> m \in {"ia32", "arm"}
       /\ Jumps(m) => /\ AsThen(m, answer[1].regs)
                      /\ answer[1].result = <<IF subject[2] = 0 THEN 1 ELSE subject[2]>>
       /\ Len(Keeps(m)) <= Declared(m) <=> m # "aarch64"
  /\ question = "setjmp.c" => (answer = <<0, 3, 1>> <=> subject[1] \notin {"ia32", "arm"})

(* The firmware is called with its number and arguments in place, never    *)
(* interrupted, and the caller gets back what it had.  A machine check is  *)
(* to leave psr.ic alone and other static calls are to set it; but what    *)
(* counts is the call whose number r28 happens to hold from before.        *)
PalExact ==
  question = "pal" =>
    LET regs == subject[2]  entered == answer[1].entered  left == answer[1].left
        asMeant == entered.psr.ic = IF subject[1] = "stacked" \/ subject[3] \in MachineChecks
                                    THEN regs.psr.ic ELSE 1
    IN  /\ entered.psr.i = 0 /\ entered.r28 = subject[3] /\ entered.at = "PAL"
        /\ entered.args = IF subject[1] = "static" THEN <<"a", "b", "c">> ELSE <<subject[3], "a", "b", "c">>
        /\ \A r \in DOMAIN regs \ {"r28"} : left[r] = regs[r]
        /\ asMeant <=> \/ subject[1] = "stacked" \/ regs.psr.ic = 1
                      \/ (regs.r28 \in MachineChecks <=> subject[3] \in MachineChecks)

MachineExact == CallsExact /\ JumpsExact /\ PalExact
=============================================================================
