-------------------------------- MODULE Clock --------------------------------
(***************************************************************************)
(* The clock timer.c shows: the handler counts a tick and prints the time  *)
(* every second.  `elapsed' is not in the code: the ticks there have been. *)
(***************************************************************************)
EXTENDS Timer

CONSTANT MaxElapsed    \* bound: the ticks looked at

ClockAssumption == MaxElapsed \in Nat

VARIABLES
  elapsed,             \* the ticks since power-on
  timer_ticks,         \* how many the code has counted
  shown                \* the time printed last

vars == <<elapsed, timer_ticks, shown>>

(* The time a clock shows: its hours are not reduced, for days and years.  *)
HMS(ticks) ==
  LET seconds  == ticks \div TIMER_PHASE_HZ
      inMinute == TICKS_IN_MINUTES \div TIMER_PHASE_HZ
      inHour   == TICKS_IN_HOUR \div TICKS_IN_MINUTES
  IN  [hours   |-> (seconds \div inMinute) \div inHour,
       minutes |-> (seconds \div inMinute) % inHour,
       seconds |-> seconds % inMinute]

Init == elapsed = 0 /\ timer_ticks = 0 /\ shown = HMS(0)

timer_interrupt_handler ==
  /\ elapsed < MaxElapsed
  /\ elapsed' = elapsed + 1
  /\ timer_ticks' = Increment(timer_ticks)
  /\ shown' = IF Due(timer_ticks') THEN TotalTime(timer_ticks') ELSE shown

BoundReached == elapsed = MaxElapsed /\ UNCHANGED vars

Next == timer_interrupt_handler \/ BoundReached
Spec == Init /\ [][Next]_vars

(* "How long has the system been running for?"  At every moment the time   *)
(* printed last is the elapsed time in whole seconds: it is printed on     *)
(* every second, never between, and its parts are carried correctly.       *)
ShowsElapsed == shown = HMS(elapsed)
=============================================================================
