-------------------------------- MODULE Timer --------------------------------
(***************************************************************************)
(* The arithmetic of src/arch/x86_64/timer.c on timer_ticks, a C int that  *)
(* is only ever counted up.  Clock runs it on its own, Kernel with the     *)
(* rest of the system.                                                     *)
(***************************************************************************)
EXTENDS Integers

CONSTANTS
  INT_MAX,             (* 2^31 - 1                                         *)
  TIMER_PHASE_HZ,      (* ticks per second (100)                           *)
  TICKS_IN_MINUTES,    (* 100 * 60                                         *)
  TICKS_IN_HOUR        (* 100 * 60 * 60                                    *)

TimerAssumption ==
  /\ {INT_MAX, TIMER_PHASE_HZ, TICKS_IN_MINUTES, TICKS_IN_HOUR} \subseteq Nat \ {0}
  /\ TICKS_IN_MINUTES % TIMER_PHASE_HZ = 0
  /\ TICKS_IN_HOUR % TICKS_IN_MINUTES = 0

Int32 == -(INT_MAX + 1) .. INT_MAX

(* C divides towards zero, and the remainder has the dividend's sign.      *)
Quotient(a, b)  == IF a >= 0 THEN a \div b ELSE -((-a) \div b)
Remainder(a, b) == a - b * Quotient(a, b)

(* timer_ticks++ on x86: past INT_MAX it goes on at the smallest int.      *)
Increment(ticks) == IF ticks = INT_MAX THEN -(INT_MAX + 1) ELSE ticks + 1

(* Is the time printed at this tick?                                       *)
Due_early(ticks) == ticks % TIMER_PHASE_HZ = 1           \* mutant of Due
Due(ticks)       == Remainder(ticks, TIMER_PHASE_HZ) = 0

(* What output_totaltime_to_terminal prints.                               *)
TotalTime(ticks) ==
  [hours   |-> Quotient(ticks, TICKS_IN_HOUR),
   minutes |-> Quotient(Remainder(ticks, TICKS_IN_HOUR), TICKS_IN_MINUTES),
   seconds |-> Quotient(Remainder(ticks, TICKS_IN_MINUTES), TIMER_PHASE_HZ)]
=============================================================================
