------------------------------- MODULE EfiApps -------------------------------
(***************************************************************************)
(* The applications that come with gnu-efi (efi/apps).  drv0.efi is a      *)
(* driver that stays in memory, once for each time it is loaded, and       *)
(* drv0_use.efi calls every copy of it; a copy's handle is named for the   *)
(* copy.  The others ask the firmware for something and end: what they do  *)
(* depends on what it answers.  tcc.c and setjmp.c are in EfiMachine.      *)
(***************************************************************************)
EXTENDS Integers, Sequences, SequencesExt, EfiAnswer

CONSTANTS
  NULL,
  Copies,              \* the copies of drv0.efi that may be loaded
  MaxHellos,           \* bound: the hellos that a copy says
  VALUE_MOD,           \* 2^w, w the width of a UINTN
  UINT32_MOD,
  MAX_NUM_PAGES, MAX_ADDR,
  Typed,               \* the numbers typed after AllocPages or FreePages
  NAME                 \* printenv's room for a name, 512 bytes

EfiAppsAssumption ==
  /\ {VALUE_MOD, UINT32_MOD} \subseteq Nat \ {0, 1, 2}
  /\ {MaxHellos, MAX_NUM_PAGES, MAX_ADDR, NAME} \subseteq Nat /\ Typed \subseteq Nat
  /\ {13, MAX_NUM_PAGES} \subseteq 0 .. VALUE_MOD \div 2 - 1
  /\ NULL \notin Seq(0 .. 2)

VARIABLES
  resident,            \* the copies of drv0.efi in memory
  handles,             \* the handles with its protocol, in LibLocateHandle's order
  held,                \* those that another driver holds
  Counter,             \* copy -> the hellos it has counted
  told,                \* what drv0_use.efi told last, handle by handle
  stuck                \* ghost: the copies unloaded while they were held

driverVars == <<resident, handles, held, Counter, told, stuck>>

-----------------------------------------------------------------------------
(* drv0.c and drv0_use.c                                                   *)
DriverInit ==
  /\ resident = {} /\ handles = <<>> /\ held = {} /\ stuck = {}
  /\ Counter = [c \in Copies |-> 0] /\ told = <<>>

Undefined == "undefined"
Lost == \E k \in DOMAIN told : told[k][1] = Undefined

(* If a call of the firmware fails on the way the copy goes away again.    *)
Load(c) ==
  /\ c \notin resident \union ToSet(handles)
  /\ \/ /\ Counter' = [Counter EXCEPT ![c] = 0]
        /\ handles' = Append(handles, c)
        /\ resident' = resident \union {c}
     \/ UNCHANGED <<Counter, handles, resident>>
  /\ UNCHANGED <<held, told, stuck>>

(* Drv0Unload ignores whether the protocol could be uninstalled, and says  *)
(* that it succeeded; the firmware then frees the copy's memory.           *)
Uninstalled_not(c) == handles                         \* mutant of Uninstalled
Uninstalled(c)     == RemoveFirst(handles, c)
Drv0Unload(c) ==
  /\ c \in resident /\ resident' = resident \ {c}
  /\ IF c \in held THEN stuck' = stuck \union {c} /\ UNCHANGED handles
     ELSE handles' = Uninstalled(c) /\ UNCHANGED stuck
  /\ UNCHANGED <<held, Counter, told>>

(* A handle that cannot be opened is skipped.  A copy that is gone is      *)
(* called all the same, wherever that leads.                               *)
SayHello(c) == Counter[c] + 1
Play(opens, c) ==
  IF c \notin opens THEN <<"skipped", 0>>
  ELSE IF c \in resident THEN <<"hello", SayHello(c)>> ELSE <<Undefined, 0>>
Use ==
  /\ \E opens \in SUBSET ToSet(handles) :
       /\ \A c \in opens \intersect resident : Counter[c] < MaxHellos
       /\ Counter' = [c \in Copies |-> IF c \in opens \intersect resident THEN SayHello(c)
                                      ELSE Counter[c]]
       /\ told' = IF handles = <<>> THEN <<<<"NOT_FOUND", 0>>>>
                  ELSE [k \in DOMAIN handles |-> Play(opens, handles[k])]
  /\ UNCHANGED <<resident, handles, held, stuck>>

(* Another driver, for which a protocol is not taken away.                 *)
HoldOrLetGo(c) ==
  /\ c \in ToSet(handles)
  /\ held' = IF c \in held THEN held \ {c} ELSE held \union {c}
  /\ UNCHANGED <<resident, handles, Counter, told, stuck>>

DriverNext ==
  \/ /\ ~Lost
     /\ Use \/ \E c \in Copies : Load(c) \/ Drv0Unload(c) \/ HoldOrLetGo(c)
  \/ Lost /\ UNCHANGED driverVars

-----------------------------------------------------------------------------
(* AllocPages.c and FreePages.c.  xtoi gives what a UINTN holds of the     *)
(* number typed, and most are then taken for signed.  A call of the        *)
(* firmware is its name and its arguments.                                 *)
xtoi(typed) == typed % VALUE_MOD
INTN(u)     == IF u >= VALUE_MOD \div 2 THEN u - VALUE_MOD ELSE u
Invalid(n, most) == n < 0 \/ n > most
AllocPages(argv) ==
  LET number(k) == INTN(xtoi(argv[k]))
      Addr == IF Len(argv) = 4 THEN xtoi(argv[4]) ELSE 0
  IN  IF Len(argv) \notin 3 .. 4 THEN <<"SUCCESS">>
      ELSE IF \/ Invalid(number(1), 2) \/ Invalid(number(2), 13)
              \/ Invalid(number(3), MAX_NUM_PAGES) \/ Addr > MAX_ADDR
      THEN <<"INVALID_PARAMETER">>
      ELSE <<"AllocatePages", number(1), number(2), number(3), Addr>>
FreePages(argv) ==
  IF \/ Len(argv) # 2 \/ Invalid(INTN(xtoi(argv[2])), MAX_NUM_PAGES) \/ xtoi(argv[1]) > MAX_ADDR
  THEN <<"SUCCESS">>
  ELSE <<"FreePages", xtoi(argv[1]), INTN(xtoi(argv[2]))>>

-----------------------------------------------------------------------------
(* route80h.c, on the PCI functions of a machine: whether one can be       *)
(* opened, what it says it is, and what its register rcba says.            *)
Devices == <<"LPCIF", "COUGARPOINT_LPCIF">>
is_device(function, device) == function.opens /\ function.is = device
find_pci_device(functions, device, pciio) ==
  LET i == SelectInSeq(functions, LAMBDA f : is_device(f, device))
  IN  IF i # 0 THEN [rc |-> "SUCCESS", pciio |-> i]
      ELSE [rc |-> "NOT_FOUND",
            pciio |-> IF \E f \in ToSet(functions) : f.opens THEN NULL ELSE pciio]

(* The search goes on after a device is found, and its last result counts. *)
Search(functions) ==
  LET st[n \in 0 .. Len(Devices)] ==
        IF n = 0 THEN [rc |-> "SUCCESS", pciio |-> NULL]
        ELSE find_pci_device(functions, Devices[n], st[n - 1].pciio)
  IN  st[Len(Devices)]
Route80h(functions) ==
  LET found == Search(functions)
      rcba == functions[found.pciio].rcba
  IN  IF found.rc # "SUCCESS" THEN <<found.rc>>
      ELSE CASE rcba = "on" -> <<"routed", found.pciio>>
             [] rcba = "off" -> <<"UNSUPPORTED">>
             [] rcba = "unreadable" -> <<"DEVICE_ERROR">>

-----------------------------------------------------------------------------
(* modelist.c, on a card: whether it has a graphics output and can be      *)
(* started, the mode it is in, and for each mode its information, or NULL  *)
(* if it cannot be queried.  A mode told is marked if it looks like the    *)
(* current one.                                                            *)
QueryMode(card, started, i) == IF started THEN card.modes[i] ELSE NULL
PrintMode(card, st, i) ==
  LET started == st.started \/ card.starts
      info == QueryMode(card, started, i)
  IN  [started |-> started,
       out |-> Append(st.out, IF info = NULL THEN <<i, "bad">>
                              ELSE <<i, IF info = card.modes[card.current] THEN "*" ELSE "none">>)]
print_modes(card) ==
  LET st[n \in 0 .. Len(card.modes)] ==
        IF n = 0 THEN [started |-> card.started, out |-> <<>>]
        ELSE PrintMode(card, st[n - 1], n)
  IN  st[Len(card.modes)].out
SetWatchdog(seconds) == seconds
ModeList(card) ==
  IF card.gop THEN [out |-> print_modes(card), watchdog |-> SetWatchdog(0)]
  ELSE [out |-> <<>>, watchdog |-> SetWatchdog(10)]

-----------------------------------------------------------------------------
(* debughook.c: the variable is asked for its size and then for its value, *)
(* between which it may have changed.                                      *)
GetVariable(variable, room) ==
  IF variable = NULL THEN "NOT_FOUND" ELSE IF Len(variable) > room THEN "BUFFER_TOO_SMALL" ELSE "SUCCESS"
GetVariableAttr(first, memory, second) ==
  LET size == Len(first)
      status == GetVariable(second, size)
  IN  IF GetVariable(first, 0) # "BUFFER_TOO_SMALL" THEN [rc |-> GetVariable(first, 0), data |-> NULL]
      ELSE IF ~memory THEN [rc |-> "OUT_OF_RESOURCES", data |-> NULL]
      ELSE IF status # "SUCCESS" THEN [rc |-> status, data |-> NULL]
      ELSE [rc |-> status, data |-> second \o [i \in 1 .. size - Len(second) |-> 0]]

(* The pauses until x, a UINTN, passes the limit or is 0.                  *)
Pauses(limit, mod) ==
  LET from[x \in Nat] == IF x = 0 \/ (x + 1) % mod > limit THEN 0 ELSE 1 + from[(x + 1) % mod]
  IN  from[1]
DebugHook(first, memory, second, mod) ==
  IF GetVariableAttr(first, memory, second).rc # "SUCCESS" THEN 0 ELSE Pauses(UINT32_MOD - 2, mod)

-----------------------------------------------------------------------------
(* printenv.c, on the firmware's variables: the sizes of their names and   *)
(* their values, NULL for one that cannot be had.                          *)
PrintEnv(variables) ==
  LET long == SelectInSeq(variables, LAMBDA v : v.size > NAME)
  IN  [k \in 1 .. (IF long = 0 THEN Len(variables) ELSE long - 1) |-> variables[k].value]

(* t3.c and t6.c: the image's own protocol; t6 goes on if it has none.     *)
ImageInfo(app, rc, li) ==
  IF app = "t3" THEN IF rc # "SUCCESS" THEN rc ELSE IF li = NULL THEN "UNSUPPORTED" ELSE "SUCCESS"
  ELSE IF rc # "SUCCESS" \/ li = NULL THEN Undefined ELSE "SUCCESS"

-----------------------------------------------------------------------------
Few(n, S) == UNION {[1 .. k -> S] : k \in 0 .. n}
PciFunctions == [opens : BOOLEAN, is : {"LPCIF", "COUGARPOINT_LPCIF", "another", "unreadable"},
               rcba : {"on", "off", "unreadable"}]
Cards == UNION {[gop : BOOLEAN, started : BOOLEAN, starts : BOOLEAN,
                 modes : [1 .. n -> {NULL, "large", "small"}], current : 1 .. n] : n \in 1 .. 3}
Values == {NULL} \union (Few(2, {1, 2}) \ {<<>>})

Asked ==
  \/ \E argv \in Few(2, Typed) : Ask("FreePages", argv, FreePages(argv))
  \/ \E a, b, c \in Typed, rest \in Few(2, Typed) :
       /\ rest = <<>> \/ a + b + c < 6
       /\ Ask("AllocPages", <<a, b, c>> \o rest, AllocPages(<<a, b, c>> \o rest))
  \/ \E functions \in Few(2, PciFunctions) : Ask("route80h", functions, Route80h(functions))
  \/ \E card \in Cards : Ask("modelist", card, ModeList(card))
  \/ \E first, second \in Values, memory \in BOOLEAN :
       \/ Ask("variable", <<first, memory, second>>, GetVariableAttr(first, memory, second))
       \/ \E mod \in {UINT32_MOD, UINT32_MOD * UINT32_MOD} :
            Ask("pause", <<first, memory, second, mod>>, <<DebugHook(first, memory, second, mod)>>)
  \/ \E variables \in Few(3, [size : {1, NAME, NAME + 1}, value : {NULL, "v"}]) :
       Ask("printenv", variables, PrintEnv(variables))
  \/ \E app \in {"t3", "t6"}, rc \in {"SUCCESS", "UNSUPPORTED"}, li \in {NULL, "image"} :
       Ask("image", <<app, rc, li>>, ImageInfo(app, rc, li))
Next ==
  \/ question = "none" /\ Asked
  \/ Again
Spec ==
  /\ Init /\ DriverInit
  /\ [][(Next /\ UNCHANGED driverVars) \/ (DriverNext /\ UNCHANGED asked)]_<<asked, driverVars>>

-----------------------------------------------------------------------------
(* Properties                                                              *)

(* The handles that drv0_use.efi finds are those of the copies in memory,  *)
(* each once, but for copies unloaded while their protocol was held; only  *)
(* those can lead drv0_use.efi to code that is gone.                       *)
DriverExact ==
  /\ IsInjective(handles) /\ ToSet(handles) = resident \union stuck
  /\ resident \intersect stuck = {}
  /\ Lost => stuck # {}

(* The firmware is asked for pages, or given them back, exactly if every   *)
(* number typed is within the limits that are printed, and then with the   *)
(* numbers typed, as long as these fit in a word.                          *)
Allowed(numbers, limits) == \A k \in DOMAIN numbers : numbers[k] <= limits[k]
Served(service, allowed) ==
  IF allowed THEN answer[1] = service /\ \A k \in DOMAIN subject : answer[k + 1] = subject[k]
  ELSE answer[1] # service
PagesExact ==
  question \in {"AllocPages", "FreePages"} /\ (\A k \in DOMAIN subject : subject[k] < VALUE_MOD) =>
    IF question = "AllocPages"
    THEN Served("AllocatePages", /\ Len(subject) \in {3, 4}
                                 /\ Allowed(subject, <<2, 13, MAX_NUM_PAGES, MAX_ADDR>>))
    ELSE Served("FreePages", Len(subject) = 2 /\ Allowed(subject, <<MAX_ADDR, MAX_NUM_PAGES>>))

(* Port 80h is routed only through a function that opens, is the last of   *)
(* the devices looked for and has its registers mapped, and not found is   *)
(* the answer exactly if there is no such device.  So it never is on the   *)
(* ICH10 that the first lines of route80h.c name: its loop looks on.       *)
Route80hExact ==
  question = "route80h" =>
    LET last == {i \in DOMAIN subject : is_device(subject[i], Devices[Len(Devices)])}
    IN  /\ answer[1] = "routed" => answer[2] \in last /\ subject[answer[2]].rcba = "on"
        /\ answer[1] = "NOT_FOUND" <=> last = {}

(* Each mode is told once, in order; the current one is marked if it can   *)
(* be queried at all, and marked is nothing that differs from it.  The     *)
(* watchdog, set to 10 seconds before, is off exactly if there was         *)
(* something to list.                                                      *)
ModesExact ==
  question = "modelist" =>
    LET out == answer.out  on == subject.started \/ subject.starts
        current == subject.modes[subject.current]
    IN  /\ subject.gop <=> answer.watchdog = 0
        /\ DOMAIN out = (IF subject.gop THEN DOMAIN subject.modes ELSE {})
        /\ \A i \in DOMAIN out :
             /\ out[i][1] = i
             /\ out[i][2] = "bad" <=> ~on \/ subject.modes[i] = NULL
             /\ out[i][2] = "*" => subject.modes[i] = current
             /\ i = subject.current => out[i][2] \in {"bad", "*"}

(* There is data exactly if the value was read, which begins with what the *)
(* variable held the second time and is as long as it was the first time:  *)
(* one that grew, or went, in between is not read.  The pause for a        *)
(* debugger, which only a value that was read gives, always ends, also     *)
(* where the counter is as narrow as its limit.                            *)
VariableExact ==
  LET first == subject[1]  second == subject[3]
      kept == first # NULL /\ second # NULL /\ Len(second) <= Len(first) /\ subject[2]
  IN  /\ question = "variable" =>
           /\ (answer.rc = "SUCCESS" <=> kept) /\ (answer.data # NULL <=> kept)
           /\ kept => Len(answer.data) = Len(first) /\ IsPrefix(second, answer.data)
      /\ question = "pause" => answer[1] = IF kept THEN UINT32_MOD - 3 ELSE 0

(* The variables told are the first ones, in order, and all of them unless *)
(* the name of the next has no room.                                       *)
PrintEnvExact ==
  question = "printenv" =>
    /\ \A k \in DOMAIN answer : answer[k] = subject[k].value /\ subject[k].size <= NAME
    /\ Len(answer) = Len(subject) \/ subject[Len(answer) + 1].size > NAME

(* t3.efi reads the protocol of its own image only if there is one.        *)
ImageTold == question = "image" /\ answer = Undefined => subject[1] = "t6"

AppsExact ==
  /\ DriverExact /\ PagesExact /\ Route80hExact /\ ModesExact /\ VariableExact
  /\ PrintEnvExact /\ ImageTold
=============================================================================
