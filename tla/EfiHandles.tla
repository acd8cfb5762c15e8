----------------------------- MODULE EfiHandles -----------------------------
(***************************************************************************)
(* LibInstallProtocolInterfaces, LibReinstallProtocolInterfaces and        *)
(* LibUninstallProtocolInterfaces of gnu-efi (hand.c), one firmware call   *)
(* at a time, and a driver whose notification function takes hold of what  *)
(* gets installed.  The firmware's handle database is external: the handle *)
(* exists while a protocol is installed on it, and an interface that a     *)
(* driver holds is not taken away.                                         *)
(***************************************************************************)
EXTENDS Integers, Sequences

CONSTANTS
  Protocols, Interfaces,
  NULL,
  MaxList,             \* bound: the protocols that a call lists
  APPLICATION, TPL_NOTIFY

EfiHandlesAssumption ==
  /\ NULL \notin Interfaces /\ MaxList \in Nat
  /\ APPLICATION \in Nat /\ TPL_NOTIFY \in Nat /\ APPLICATION < TPL_NOTIFY

VARIABLES
  db,                  \* protocol -> the interface on the handle, or NULL
  opened,              \* the protocols that the driver holds
  signalled,           \* the driver's event, which waits for the level to drop
  tpl, OldTpl,
  Handle, OldHandle,   \* the caller's variable: the handle, or NULL
  call, args,          \* the call under way, or "none", and its list
  pos,                 \* the entries that va_arg has read
  Index, Status, undoing,
  before               \* ghost: db as the call found it

fw    == <<db, opened, signalled>>
frame == <<call, args, OldTpl, OldHandle, before>>
vars  == <<fw, tpl, frame, Handle, pos, Index, Status, undoing>>

Installed == {p \in Protocols : db[p] # NULL}
TheHandle == IF Installed = {} THEN NULL ELSE "handle"

Init ==
  /\ db = [p \in Protocols |-> NULL] /\ opened = {} /\ signalled = FALSE
  /\ tpl = APPLICATION /\ OldTpl = APPLICATION
  /\ Handle = NULL /\ OldHandle = NULL
  /\ call = "none" /\ args = <<>> /\ pos = 0 /\ Index = 0
  /\ Status = "SUCCESS" /\ undoing = FALSE /\ before = db

-----------------------------------------------------------------------------
(* The driver: its function runs below the level it asked for.             *)
Notified ==
  /\ signalled /\ tpl < TPL_NOTIFY
  /\ signalled' = FALSE /\ opened' = Installed
  /\ UNCHANGED <<db, tpl, frame, Handle, pos, Index, Status, undoing>>
LetGo ==
  /\ call = "none" /\ opened # {} /\ opened' = {}
  /\ UNCHANGED <<db, signalled, tpl, frame, Handle, pos, Index, Status, undoing>>

(* The firmware's answers: a status, and the interface then installed.     *)
Install(p, i) ==
  IF db[p] # NULL THEN {<<"INVALID_PARAMETER", db[p]>>}
  ELSE {<<"SUCCESS", i>>, <<"OUT_OF_RESOURCES", NULL>>}
Replace(p, old, new) ==
  IF db[p] # old THEN {<<"NOT_FOUND", db[p]>>}
  ELSE IF p \in opened THEN {<<"ACCESS_DENIED", old>>}
  ELSE {<<"SUCCESS", new>>}

Entry == args[pos + 1]
Calls(answers) == \E a \in answers :
  /\ db' = [db EXCEPT ![Entry.protocol] = a[2]]
  /\ signalled' = (signalled \/ (a[1] = "SUCCESS" /\ a[2] # NULL))
  /\ Status' = IF undoing THEN Status ELSE a[1]
  /\ pos' = pos + 1
  /\ UNCHANGED <<opened, tpl, frame, undoing>>

-----------------------------------------------------------------------------
Entries(c) == [protocol : Protocols, new : Interfaces,
               old : IF c = "reinstall" THEN Interfaces ELSE {NULL}]
Lists(c) == UNION {[1 .. n -> Entries(c)] : n \in 0 .. MaxList}

Level_same(c) == APPLICATION                          \* mutant of Level
Level(c)      == IF c = "uninstall" THEN tpl ELSE TPL_NOTIFY
Begin(c, list) ==
  /\ call = "none" /\ ~ signalled
  /\ call' = c /\ args' = list /\ before' = db
  /\ tpl' = Level(c) /\ OldTpl' = tpl
  /\ Handle' = TheHandle /\ OldHandle' = TheHandle
  /\ pos' = 0 /\ Index' = 0 /\ Status' = "SUCCESS" /\ undoing' = FALSE
  /\ UNCHANGED fw

More == ~ undoing /\ pos < Len(args)
Counted == Index' = IF Status' = "SUCCESS" THEN Index + 1 ELSE Index

InstallNext ==
  /\ call = "install" /\ More /\ Status = "SUCCESS"
  /\ Calls(Install(Entry.protocol, Entry.new)) /\ Counted
  /\ Handle' = IF Status' = "SUCCESS" THEN "handle" ELSE Handle
ReinstallNext ==
  /\ call = "reinstall" /\ More /\ Status = "SUCCESS"
  /\ Calls(Replace(Entry.protocol, Entry.old, Entry.new)) /\ Counted
  /\ UNCHANGED Handle
UninstallNext ==                              \* it goes on after a failure
  /\ call = "uninstall" /\ More
  /\ Calls(Replace(Entry.protocol, Entry.new, NULL))
  /\ UNCHANGED <<Handle, Index>>

(* After an error the list is read again from its start, and as many of    *)
(* its entries are undone as had been done.                                *)
Failed ==
  /\ call # "uninstall" /\ Status # "SUCCESS" /\ ~ undoing
  /\ undoing' = TRUE /\ pos' = 0
  /\ UNCHANGED <<fw, tpl, frame, Handle, Index, Status>>
Undo ==
  /\ undoing /\ Index > 0 /\ Index' = Index - 1
  /\ Calls(IF call = "install" THEN Replace(Entry.protocol, Entry.new, NULL)
           ELSE Replace(Entry.protocol, Entry.new, Entry.old))
  /\ UNCHANGED Handle

Finished == IF undoing THEN Index = 0
            ELSE pos = Len(args) /\ (Status = "SUCCESS" \/ call = "uninstall")
Return ==
  /\ call # "none" /\ Finished
  /\ call' = "none" /\ tpl' = OldTpl
  /\ Handle' = IF undoing /\ call = "install" THEN OldHandle ELSE Handle
  /\ args' = <<>> /\ pos' = 0 /\ Index' = 0 /\ Status' = "SUCCESS"
  /\ undoing' = FALSE /\ before' = db /\ OldHandle' = NULL
  /\ UNCHANGED <<fw, OldTpl>>

Next ==
  \/ Notified \/ LetGo
  \/ \E c \in {"install", "reinstall", "uninstall"} : \E l \in Lists(c) : Begin(c, l)
  \/ InstallNext \/ ReinstallNext \/ UninstallNext \/ Failed \/ Undo \/ Return
Spec == Init /\ [][Next]_vars

-----------------------------------------------------------------------------
(* A list is installed or replaced whole, or not at all: when a call that  *)
(* failed returns, the handle has the interfaces it had, and its caller    *)
(* has the handle it had.  The driver is kept out by the raised level, so  *)
(* nothing just installed is held when it must be taken back.  One thing   *)
(* breaks it: replacing one protocol twice in a list, since what was done  *)
(* first is undone first.                                                  *)
Repeats == \E i, j \in 1 .. Len(args) : i < j /\ args[i].protocol = args[j].protocol
AllOrNothing ==
  [][call # "none" /\ call' = "none" /\ call # "uninstall" =>
      \/ Status # "SUCCESS" /\ db = before /\ Handle' = TheHandle
      \/ Status # "SUCCESS" /\ call = "reinstall" /\ Repeats
      \/ /\ Status = "SUCCESS" /\ Handle' = TheHandle
         /\ \A p \in Protocols :
              LET mine == {i \in 1 .. Len(args) : args[i].protocol = p}
              IN  IF mine = {} THEN db[p] = before[p]
                  ELSE \E i \in mine : db[p] = args[i].new /\ \A j \in mine : j <= i]_vars
=============================================================================
