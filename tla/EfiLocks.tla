------------------------------ MODULE EfiLocks ------------------------------
(***************************************************************************)
(* FLOCK of gnu-efi (lock.c, runtime/rtlock.c): a lock that raises the     *)
(* task priority level.  Tasks are the application and the notification    *)
(* functions of events; one that is signalled preempts whoever runs at a   *)
(* lower level, and returns before the preempted task goes on, so there is *)
(* one active task per level and the one of highest level runs.            *)
(***************************************************************************)
EXTENDS Integers

CONSTANTS
  Tasks,               \* the application and the notification functions
  App,                 \* the application
  Users,               \* the tasks that take the lock
  TplOf,               \* the level at which each task runs
  Tpl                  \* the lock's level, given to InitializeLock

ASSUME EfiLocksAssumption ==
  /\ App \in Tasks /\ Users \subseteq Tasks
  /\ TplOf \in [Tasks -> Nat] /\ Tpl \in Nat
  /\ \A t \in Users : TplOf[t] <= Tpl

VARIABLES
  tpl,                 \* the firmware's current level
  active,              \* the tasks that have begun and not returned
  resume,              \* the level to which the firmware returns after a task
  at,                  \* where each task is
  saved,               \* the level in a task's hands: RaiseTPL's, or Tpl's
  OwnerTpl, Lock       \* the fields of the FLOCK

vars == <<tpl, active, resume, at, saved, OwnerTpl, Lock>>

Places == {"out", "raised", "owned", "held", "releasing", "released"}

TypeOK ==
  /\ tpl \in Nat /\ OwnerTpl \in Nat /\ Lock \in Int
  /\ active \subseteq Tasks
  /\ resume \in [Tasks -> Nat] /\ saved \in [Tasks -> Nat]
  /\ at \in [Tasks -> Places]

InitializeLock == OwnerTpl = 0 /\ Lock = 0
Init ==
  /\ InitializeLock
  /\ tpl = TplOf[App] /\ active = {App}
  /\ resume = [t \in Tasks |-> 0] /\ saved = [t \in Tasks |-> 0]
  /\ at = [t \in Tasks |-> "out"]

-----------------------------------------------------------------------------
Runs(t) == t \in active /\ \A u \in active : TplOf[u] <= TplOf[t]

(* The firmware dispatches a notification function, and takes it back.     *)
Notify(t) ==
  /\ t \notin active /\ TplOf[t] > tpl
  /\ active' = active \union {t}
  /\ resume' = [resume EXCEPT ![t] = tpl]
  /\ tpl' = TplOf[t]
  /\ UNCHANGED <<at, saved, OwnerTpl, Lock>>
Return(t) ==
  /\ Runs(t) /\ t # App /\ at[t] = "out"
  /\ active' = active \ {t}
  /\ tpl' = resume[t]
  /\ UNCHANGED <<resume, at, saved, OwnerTpl, Lock>>

Go(t, from, to) == Runs(t) /\ at[t] = from /\ at' = [at EXCEPT ![t] = to]

(* RtAcquireLock: OwnerTpl = RaiseTPL(Tpl); Lock += 1.                     *)
Raised_not == tpl                                     \* mutant of Raised
Raised     == Tpl
RaiseTPL(t) ==
  /\ t \in Users /\ Go(t, "out", "raised")
  /\ saved' = [saved EXCEPT ![t] = tpl]
  /\ tpl' = Raised
  /\ UNCHANGED <<active, resume, OwnerTpl, Lock>>
StoreOwner(t) ==
  /\ Go(t, "raised", "owned") /\ OwnerTpl' = saved[t]
  /\ UNCHANGED <<tpl, active, resume, saved, Lock>>
CountUp(t) ==
  /\ Go(t, "owned", "held") /\ Lock' = Lock + 1
  /\ UNCHANGED <<tpl, active, resume, saved, OwnerTpl>>

(* RtReleaseLock: the owner's level is read and the lock given back while  *)
(* the level is still raised; lowering it lets waiting tasks in at once.   *)
LoadOwner(t) ==
  /\ Go(t, "held", "releasing") /\ saved' = [saved EXCEPT ![t] = OwnerTpl]
  /\ UNCHANGED <<tpl, active, resume, OwnerTpl, Lock>>
CountDown(t) ==
  /\ Go(t, "releasing", "released") /\ Lock' = Lock - 1
  /\ UNCHANGED <<tpl, active, resume, saved, OwnerTpl>>
RestoreTPL(t) ==
  /\ Go(t, "released", "out") /\ tpl' = saved[t]
  /\ UNCHANGED <<active, resume, saved, OwnerTpl, Lock>>

Next == \E t \in Tasks :
  \/ Notify(t) \/ Return(t)
  \/ RaiseTPL(t) \/ StoreOwner(t) \/ CountUp(t)
  \/ LoadOwner(t) \/ CountDown(t) \/ RestoreTPL(t)
Spec == Init /\ [][Next]_vars

-----------------------------------------------------------------------------
(* Mutual exclusion, with a counter that never passes 1, which the code    *)
(* asserts on both sides: no other task is between RaiseTPL and RestoreTPL *)
(* while one holds the lock, whoever preempts it at a higher level.        *)
Inside(t) == at[t] \notin {"out"}
Exclusive ==
  /\ \A t, u \in Tasks : Inside(t) /\ Inside(u) => t = u
  /\ Lock = (IF \E t \in Tasks : at[t] \in {"held", "releasing"} THEN 1 ELSE 0)

(* Whoever runs outside the lock runs at its own level: the level saved in *)
(* OwnerTpl by one acquisition is never the one restored by another.       *)
LevelRestored ==
  \A t \in Tasks : Runs(t) /\ ~ Inside(t) => tpl = TplOf[t]
=============================================================================
