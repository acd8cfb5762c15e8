------------------------------- MODULE EfiImage -------------------------------
(***************************************************************************)
(* How an application built with gnu-efi comes up: _start (crt0-efi, one   *)
(* for each machine) has _relocate (reloc) add the address it was loaded   *)
(* at to the words that hold addresses, and calls efi_main, which calls    *)
(* InitializeLib (init.c); and how a list moves when the operating system  *)
(* turns virtual addresses on (runtime/vm.c).  Word w of the image was     *)
(* linked to hold the address w.                                           *)
(***************************************************************************)
EXTENDS Integers, Sequences, FiniteSets, SequencesExt, EfiAnswer

CONSTANTS
  Words,               \* the words of the image, a set of integers above 0
  ldbase,              \* the address it was loaded at
  MAX_FUNCTION_DESCRIPTORS,
  MaxEntries,          \* bound: the relocations
  MaxLinks             \* bound: the links of a list

EfiImageAssumption ==
  /\ IsFiniteSet(Words) /\ Words \subseteq Nat \ {0} /\ ldbase \in Nat \ {0}
  /\ MAX_FUNCTION_DESCRIPTORS \in Nat /\ MaxEntries \in Nat /\ MaxLinks \in Nat

-----------------------------------------------------------------------------
(* _relocate.  dyn is what the dynamic section says: where the relocations *)
(* are (or not), their total size in entries, the size of one (0 if not    *)
(* stated), and which words make up the global offset table.               *)
Kinds == {"none", "relative", "function", "other"}
Entries ==
  {es \in UNION {[1 .. n -> [kind : Kinds, word : Words]] : n \in 0 .. MaxEntries} :
     \A i, j \in DOMAIN es : i # j => es[i].word # es[j].word}

(* What an address is made from is kept in its word, or, if the linker did *)
(* not store it there, in the entry only.                                  *)
Image(dyn) == [w \in Words |-> IF dyn.inPlace THEN w ELSE 0]

Done(status, mem) == [status |-> status, mem |-> mem]
Plus(mem, e)   == IF e.kind = "relative" THEN [mem EXCEPT ![e.word] = @ + ldbase] ELSE mem
Stored(mem, e) == IF e.kind = "relative" THEN [mem EXCEPT ![e.word] = ldbase + e.word] ELSE mem
All(apply(_, _), dyn) == FoldLeft(apply, Image(dyn), dyn.entries)
Relocate(dyn, moved) ==
  IF ~ dyn.rel /\ dyn.relent = 0 THEN Done("SUCCESS", Image(dyn))
  ELSE IF ~ dyn.rel \/ dyn.relent = 0 THEN Done("LOAD_ERROR", Image(dyn))
  ELSE Done("SUCCESS", moved)
RelocateX86_64(dyn)  == Relocate(dyn, All(Plus, dyn))
RelocateIa32(dyn)    == Relocate(dyn, All(Plus, dyn))
RelocateArm(dyn)     == Relocate(dyn, All(Plus, dyn))
RelocateAarch64(dyn) == Relocate(dyn, All(Stored, dyn))

(* Here the offset table is moved too, and entries of no stated size are   *)
(* not refused: the loop stays at the first for ever.                      *)
RelocateMips64el(dyn) ==
  LET moved == [w \in Words |-> Image(dyn)[w] + (IF w \in dyn.got THEN ldbase ELSE 0)]
  IN  IF ~ dyn.rel /\ dyn.relent # 0 THEN Done("LOAD_ERROR", Image(dyn))
      ELSE IF dyn.rel /\ dyn.relent # 0 THEN Done("SUCCESS", FoldLeft(Plus, moved, dyn.entries))
      ELSE Done(IF dyn.entries = <<>> \/ (~ dyn.rel /\ dyn.got = {}) THEN "SUCCESS" ELSE "endless", moved)

(* Here registers that the dynamic section leaves unset hold anything; the *)
(* address of a function becomes that of a descriptor, out of a table that *)
(* may be full, which is noticed after the word has been written.          *)
Descriptor(n) == -n
Apply(st, e) ==
  IF st.status # "SUCCESS" THEN st
  ELSE CASE e.kind = "none" -> st
         [] e.kind = "relative" -> [st EXCEPT !.mem = Plus(@, e)]
         [] e.kind = "other" -> [st EXCEPT !.status = "LOAD_ERROR"]
         [] e.kind = "function" ->
              [st EXCEPT !.mem[e.word] = Descriptor(st.used + 1),
                         !.used = IF @ < MAX_FUNCTION_DESCRIPTORS THEN @ + 1 ELSE @,
                         !.status = IF st.used < MAX_FUNCTION_DESCRIPTORS THEN @
                                    ELSE "BUFFER_TOO_SMALL"]
RelocateIa64(dyn) ==
  LET none == [status |-> "SUCCESS", mem |-> Image(dyn), used |-> 0]
      st == FoldLeft(Apply, none, dyn.entries)
  IN  IF dyn.rel /\ dyn.relent # 0 THEN Done(st.status, st.mem)
      ELSE Done(IF dyn.leftover \/ dyn.entries # <<>> THEN "astray" ELSE "SUCCESS", Image(dyn))

-----------------------------------------------------------------------------
(* _start: what the stack and registers hold, and the arguments and status *)
(* that efi_main is called on.  A call spoils the registers.               *)
Push(r) == [op |-> "push", reg |-> r]
Pop(r)  == [op |-> "pop", reg |-> r]
CallRelocate == [op |-> "call", reg |-> ""]
Execute(st, i) ==
  CASE i.op = "push" -> [st EXCEPT !.stack = <<st.regs[i.reg]>> \o @]
    [] i.op = "pop" -> [stack |-> Tail(st.stack), regs |-> [st.regs EXCEPT ![i.reg] = Head(st.stack)]]
    [] i.op = "call" -> [st EXCEPT !.regs = [r \in DOMAIN @ |-> "spoilt"]]
Run(regs, stack, code) == FoldLeft(Execute, [regs |-> regs, stack |-> stack], code)

Given(a, b) == [r \in {"a", "b", "c", "d"} |-> IF r = a THEN "image" ELSE IF r = b THEN "systab" ELSE "other"]
Start(args, status, checked, failed) ==
  [args |-> args, main |-> IF status = "SUCCESS" \/ ~ checked THEN "called" ELSE failed]

(* a and b are %rdi and %rsi, c and d %rcx and %rdx; the status that       *)
(* _relocate returned is not looked at.                                    *)
SecondPops == <<Pop("a"), Pop("b")>>
StartX86_64(status) ==
  LET st == Run(Given("c", "d"), <<>>,
                <<Push("c"), Push("d"), Pop("c"), Pop("d"), Push("c"), Push("d"), CallRelocate>>
                \o SecondPops)
  IN  Start(<<st.regs["a"], st.regs["b"]>>, status, FALSE, "left out")
(* The arguments are on the stack, above the return address and %ebp; c    *)
(* and d stand for what is read through %ebp, b for %ebx.                  *)
StartIa32(status) ==
  LET st == Run(Given("d", "c"), <<>>, <<Push("c"), Push("d"), Push("b"), Push("a"), CallRelocate,
                                         Pop("b"), Pop("b")>>)
  IN  Start(<<st.stack[1], st.stack[2]>>, status, TRUE, "left out")
(* a and b are the first two argument registers, kept on the stack.        *)
Kept == LET st == Run(Given("a", "b"), <<>>, <<Push("b"), Push("a"), CallRelocate, Pop("a"), Pop("b")>>)
        IN  <<st.regs["a"], st.regs["b"]>>
StartArm(status)     == Start(Kept, status, TRUE, "left out")
StartAarch64(status) == Start(Kept, status, TRUE, "left out")
(* The label that a failure branches to is the one behind, not the one     *)
(* ahead: it reads its tables again, from where _relocate returned to.     *)
StartMips64el(status) == Start(Kept, status, TRUE, "astray")
(* The arguments stay in the function's own registers.                     *)
StartIa64(status) == Start(<<"image", "systab">>, status, TRUE, "left out")

Machines == {"x86_64", "ia32", "arm", "aarch64", "mips64el", "ia64"}
Relocated(m, dyn) ==
  CASE m = "x86_64" -> RelocateX86_64(dyn) [] m = "ia32" -> RelocateIa32(dyn)
    [] m = "arm" -> RelocateArm(dyn) [] m = "aarch64" -> RelocateAarch64(dyn)
    [] m = "mips64el" -> RelocateMips64el(dyn) [] m = "ia64" -> RelocateIa64(dyn)
Started(m, status) ==
  CASE m = "x86_64" -> StartX86_64(status) [] m = "ia32" -> StartIa32(status)
    [] m = "arm" -> StartArm(status) [] m = "aarch64" -> StartAarch64(status)
    [] m = "mips64el" -> StartMips64el(status) [] m = "ia64" -> StartIa64(status)
Up(m, dyn) ==
  LET r == Relocated(m, dyn) IN
  IF r.status \in {"endless", "astray"} THEN [main |-> r.status, args |-> <<>>, mem |-> r.mem]
  ELSE Started(m, r.status) @@ [mem |-> r.mem]
-----------------------------------------------------------------------------
(* InitializeLib, called any number of times, and the globals it sets.  A  *)
(* call says what the firmware answers, "" where it fails.  Of the drivers *)
(* that compare strings, one that speaks the user's language is taken.     *)
Stub == "stub"
Unset == [LibInitialized |-> FALSE, LibImageHandle |-> "", ST |-> "", EFIDebug |-> "default",
          PoolAllocationType |-> "default", UnicodeInterface |-> Stub]
Or(answer1, default) == IF answer1 = "" THEN default ELSE answer1
EFIDebugVariable(g, call) == [g EXCEPT !.EFIDebug = Or(call.debug, @)]
InitializeUnicodeSupport(g, call) ==
  LET fit == SelectInSeq(call.drivers, LAMBDA d : d.live /\ Contains(d.languages, call.lang))
  IN  IF call.lang = "" \/ fit = 0 THEN g ELSE [g EXCEPT !.UnicodeInterface = call.drivers[fit].name]
FirstTime(g, call) ==
  LET set == [g EXCEPT !.LibInitialized = TRUE, !.LibImageHandle = call.image, !.ST = call.systab]
  IN  IF call.image = "" THEN set
      ELSE EFIDebugVariable([set EXCEPT !.PoolAllocationType = Or(call.dataType, @)], call)
NeedsUnicode(g, call) == call.image # "" /\ g.UnicodeInterface = Stub
InitializeLib(g, call) ==
  LET init == IF g.LibInitialized THEN g ELSE FirstTime(g, call)
  IN  IF NeedsUnicode(init, call) THEN InitializeUnicodeSupport(init, call) ELSE init

Drivers == {[name |-> "en", live |-> TRUE, languages |-> <<"fra", "eng">>],
            [name |-> "gone", live |-> FALSE, languages |-> <<"eng">>],
            [name |-> "fr", live |-> TRUE, languages |-> <<"fra">>]}
LibCalls ==
  [image : {"", "image"}, systab : {"s", "t"}, dataType : {"", "data"}, debug : {"", "mask"},
   lang : {"", "eng", "fra"}, drivers : {l \in Drivers \X Drivers : l[1] # l[2]}]

-----------------------------------------------------------------------------
(* RtConvertList: links 0 (the head) to n of a list, in a ring; an address *)
(* that ConvertPointer has moved is that much higher.                      *)
Virtual == 100
Ring(n) == [l \in 0 .. n |-> [Flink |-> (l + 1) % (n + 1), Blink |-> (l + n) % (n + 1)]]
RtConvertList(n) ==
  LET ConvertPointer(a) == a + Virtual
      go[m \in {n}, list \in [0 .. n -> [Flink : Int, Blink : Int]], Link \in 0 .. n] ==
        LET NextLink == list[Link].Flink
            now == [list EXCEPT ![Link] = [Flink |-> ConvertPointer(@.Flink),
                                           Blink |-> ConvertPointer(@.Blink)]]
        IN  IF NextLink = 0 THEN now ELSE go[m, now, NextLink]
  IN  go[n, Ring(n), 0]

-----------------------------------------------------------------------------
Dynamics ==
  [rel : BOOLEAN, relent : 0 .. 1, entries : Entries, got : SUBSET Words, inPlace : BOOLEAN,
   leftover : BOOLEAN]
Moved(dyn) == {dyn.entries[i].word : i \in DOMAIN dyn.entries}

Next ==
  \/ /\ question = "none"
     /\ \/ \E m \in Machines, dyn \in Dynamics :
             /\ dyn.got \cap Moved(dyn) = {} /\ (m # "mips64el" => dyn.got = {})
             /\ (m # "ia64" => ~ dyn.leftover) /\ (m = "mips64el" => dyn.inPlace)
             /\ Ask("start", <<m, dyn>>, <<Up(m, dyn)>>)
        \/ \E c \in LibCalls, d \in {l \in LibCalls : l.dataType # "" /\ l.debug # ""} :
             Ask("init", <<c, d>>, <<InitializeLib(Unset, c), InitializeLib(InitializeLib(Unset, c), d)>>)
        \/ \E n \in 0 .. MaxLinks : Ask("list", <<n>>, <<RtConvertList(n)>>)
  \/ Again
Spec == Init /\ [][Next]_asked

-----------------------------------------------------------------------------
(* efi_main runs with the arguments of _start on an image in which every   *)
(* word that a relocation names holds its address, and no other word has   *)
(* moved.  Exceptions: x86_64 calls it also after an error; a linker that  *)
(* leaves the word empty is understood on aarch64 only; and a function's   *)
(* descriptor takes the place of its address.                              *)
RightWord(m, dyn, mem, w) ==
  LET named(kind) == \E i \in DOMAIN dyn.entries : dyn.entries[i].word = w /\ dyn.entries[i].kind = kind
      linked == IF dyn.inPlace THEN w ELSE 0
  IN  CASE named("relative") -> mem[w] = ldbase + (IF m = "aarch64" THEN w ELSE linked)
        [] w \in dyn.got -> mem[w] = ldbase + w
        [] m = "ia64" /\ named("function") -> mem[w] < 0
        [] OTHER -> mem[w] = linked
StartExact ==
  question = "start" =>
    LET m == subject[1]
        dyn == subject[2]
        up == answer[1]
        whole == dyn.rel /\ dyn.relent # 0
        static == ~ dyn.rel /\ dyn.relent = 0 /\ dyn.entries = <<>>
        known == \A i \in DOMAIN dyn.entries : dyn.entries[i].kind # "other"
        functions == Cardinality({i \in DOMAIN dyn.entries : dyn.entries[i].kind = "function"})
    IN  /\ up.main = "called" => up.args = <<"image", "systab">>
        /\ up.main = "called" /\ whole => \A w \in Words : RightWord(m, dyn, up.mem, w)
        /\ (whole \/ static) /\ m # "ia64" => up.main = "called"
        /\ m = "ia64" /\ whole =>
             (up.main = "called" <=> known /\ functions <= MAX_FUNCTION_DESCRIPTORS)
        /\ m \in {"ia32", "arm", "aarch64"} => (up.main = "called" <=> (dyn.rel <=> dyn.relent # 0))
        /\ up.main = "endless" => m = "mips64el" /\ dyn.relent = 0

(* However often InitializeLib is called, the system table is the first    *)
(* caller's, and strings are compared by a driver that was there and spoke *)
(* the language asked for when an application with a handle called; once   *)
(* one is found it stays.  What depends on the image is set only if the    *)
(* very first call has a handle.                                           *)
InitExact ==
  question = "init" =>
    LET first == answer[1]
        second == answer[2]
        fits(call, name) ==
          /\ call.image # "" /\ call.lang # ""
          /\ \E i \in DOMAIN call.drivers :
               LET d == call.drivers[i] IN d.name = name /\ d.live /\ Contains(d.languages, call.lang)
        some(call) == \E d \in Drivers : fits(call, d.name)
    IN  /\ \A x \in {first, second} : x.ST = subject[1].systab /\ x.LibImageHandle = subject[1].image
        /\ second.PoolAllocationType # "default" => subject[1].image # ""
        /\ second.EFIDebug # "default" => subject[1].image # ""
        /\ IF some(subject[1]) THEN fits(subject[1], first.UnicodeInterface) ELSE first.UnicodeInterface = Stub
        /\ first.UnicodeInterface # Stub => second.UnicodeInterface = first.UnicodeInterface
        /\ first.UnicodeInterface = Stub =>
             IF some(subject[2]) THEN fits(subject[2], second.UnicodeInterface)
             ELSE second.UnicodeInterface = Stub

(* Every pointer of a list that is followed while it moves is moved once.  *)
ListExact ==
  question = "list" =>
    \A l \in 0 .. subject[1] :
      answer[1][l] = [Flink |-> Ring(subject[1])[l].Flink + Virtual,
                      Blink |-> Ring(subject[1])[l].Blink + Virtual]

ImageExact == StartExact /\ InitExact /\ ListExact
=============================================================================
