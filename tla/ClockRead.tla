------------------------------ MODULE ClockRead ------------------------------
(***************************************************************************)
(* What cmos_read_rtc (src/src/core/cmos.c) promises: it returns what all  *)
(* registers of the clock showed at one instant of the call, although it   *)
(* reads them one by one while the clock runs.                             *)
(***************************************************************************)
EXTENDS Naturals

CONSTANTS
  Register(_, _),  \* Register(f, t): content of register f after t updates
  Fields,          \* the registers
  Nothing          \* the call has not returned

VARIABLES
  now,     \* updates since the call
  reading  \* what the call returned

(* The contents of the clock after t updates.                              *)
At(t) == [f \in Fields |-> Register(f, t)]

Init == now = 0 /\ reading = Nothing

Tick == now' = now + 1 /\ UNCHANGED reading

Return ==
  /\ reading = Nothing
  /\ \E t \in 0 .. now : reading' = At(t)
  /\ UNCHANGED now

Next == Tick \/ Return

Spec == Init /\ [][Next]_<< now, reading >>
=============================================================================
