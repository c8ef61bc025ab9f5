-------------------------------- MODULE Cmos --------------------------------
(***************************************************************************)
(* What the two parts of cmos_read_rtc (src/src/core/cmos.c) share: Rtc    *)
(* reads the registers of the clock, RtcConvert converts what was read.    *)
(***************************************************************************)
EXTENDS Integers, Sequences

(* The fields of cmos_rtc_t.                                               *)
Fields == {"seconds", "minutes", "hours", "weekdays", "day", "month", "year", "century"}

VARIABLES
  step,  \* where the call is
  rtc    \* the local variable of that name
=============================================================================
