--------------------------------- MODULE Rtc ---------------------------------
(***************************************************************************)
(* cmos_read_rtc (src/src/core/cmos.c), the part that reads the clock.     *)
(*                                                                         *)
(* The clock is a device of its own: once a second it raises its update    *)
(* flag, changes its registers and drops the flag.  cmos_read_rtc reads    *)
(* the registers one by one, with interrupts enabled, so that any number   *)
(* of the device's steps may lie between two of its reads.                 *)
(***************************************************************************)
EXTENDS Cmos

CONSTANTS
  Register(_, _),  \* Register(f, t): content of register f after t updates
  Period,          \* updates after which a register may show an old value again
  MaxTime          \* bound: updates per behaviour

(* The order in which the registers are read.                              *)
Order == << "seconds", "minutes", "hours", "weekdays", "day", "month", "year", "century" >>

ASSUME PeriodAssumption == Period \in Nat \ {0}
ASSUME MaxTimeAssumption == MaxTime \in Nat

(* A register that has changed keeps away from its old value for Period    *)
(* updates (seconds: 60).                                                  *)
ASSUME RegisterAssumption ==
  \A f \in Fields : \A i, t, j \in 0 .. MaxTime + 1 :
    i <= t /\ t <= j /\ j - i < Period /\ Register(f, i) = Register(f, j) =>
      Register(f, t) = Register(f, i)

VARIABLES
  time,       \* the clock: updates completed
  uip,        \*   update in progress, bit 7 of status register A
  updates,    \*   updates each register has seen
  first,      \* the call: in the reads before the loop or in it
  reg,        \*   the next register to read
  last,       \*   the reading that rtc is compared with
  start,      \* time when the flag was last seen clear by the call
  laststart   \*   and the time before that

clock == << time, uip, updates >>
call  == << step, first, reg, rtc, last, start, laststart >>
rtcvars == << clock, call >>

Uninitialized == [f \in Fields |-> -1]    \* overwritten before it is used

RtcInit ==
  /\ time = 0 /\ uip = FALSE /\ updates = [f \in Fields |-> 0]
  /\ step = "wait" /\ first = TRUE /\ reg = 1
  /\ rtc = Uninitialized /\ last = Uninitialized
  /\ start = 0 /\ laststart = 0

-----------------------------------------------------------------------------
(* The device (external).  The kernel reads the clock twice in much less   *)
(* than a minute: the readings compared span fewer than Period updates.    *)
UpdateBegin ==
  /\ ~ uip
  /\ time < MaxTime
  /\ time + 1 - laststart < Period
  /\ uip' = TRUE
  /\ UNCHANGED << time, updates, call >>

UpdateRegister(f) ==
  /\ uip /\ updates[f] = time
  /\ updates' = [updates EXCEPT ![f] = time + 1]
  /\ UNCHANGED << time, uip, call >>

UpdateEnd ==
  /\ uip /\ \A f \in Fields : updates[f] = time + 1
  /\ uip' = FALSE
  /\ time' = time + 1
  /\ UNCHANGED << updates, call >>

Update == UpdateBegin \/ (\E f \in Fields : UpdateRegister(f)) \/ UpdateEnd

-----------------------------------------------------------------------------
update_in_progress == uip

read_register(f) == Register(f, updates[f])

(* Fault: the flag is not looked at.                                       *)
FaultNoWait ==
  /\ step = "wait"
  /\ step' = "read" /\ reg' = 1
  /\ laststart' = start /\ start' = time
  /\ UNCHANGED << clock, first, rtc, last >>

(* while (update_in_progress()) ; has seen the flag clear.                 *)
Wait ==
  /\ step = "wait"
  /\ ~ update_in_progress
  /\ step' = "read" /\ reg' = 1
  /\ laststart' = start /\ start' = time
  /\ UNCHANGED << clock, first, rtc, last >>

(* One of the eight reads of a round.                                      *)
ReadOne(more) ==
  /\ step = "read"
  /\ rtc' = [rtc EXCEPT ![Order[reg]] = read_register(Order[reg])]
  /\ reg' = reg + 1
  /\ step' = IF more THEN "read" ELSE IF first THEN "copy" ELSE "compare"
  /\ UNCHANGED << clock, first, last, start, laststart >>

(* Fault: one read too many.                                               *)
FaultReadNine == ReadOne(reg <= Len(Order))

Read == ReadOne(reg < Len(Order))

(* The head of the loop: the first reading is copied to last, and so is    *)
(* every later one that differs.                                           *)
Copy ==
  /\ step = "copy"
  /\ last' = rtc /\ first' = FALSE
  /\ step' = "wait"
  /\ UNCHANGED << clock, reg, rtc, start, laststart >>

(* Fault: the comparison leaves out the minutes.                           *)
FaultNotEqual == \E f \in Fields \ {"minutes"} : rtc[f] # last[f]

rtc_values_are_not_equal == \E f \in Fields : rtc[f] # last[f]

(* Fault: a round that differs is not copied.                              *)
FaultNoCopy ==
  /\ step = "compare"
  /\ step' = IF rtc_values_are_not_equal THEN "wait" ELSE "done"
  /\ UNCHANGED << clock, first, reg, rtc, last, start, laststart >>

Compare ==
  /\ step = "compare"
  /\ step' = IF rtc_values_are_not_equal THEN "copy" ELSE "done"
  /\ UNCHANGED << clock, first, reg, rtc, last, start, laststart >>

cmos_read_rtc == Wait \/ Read \/ Copy \/ Compare

Done == step = "done" /\ UNCHANGED rtcvars

RtcNext == Update \/ cmos_read_rtc \/ Done

RtcSpec == RtcInit /\ [][RtcNext]_rtcvars

(* The call runs, and an update that has begun ends.                       *)
FairSpec ==
  /\ RtcSpec
  /\ WF_rtcvars(cmos_read_rtc)
  /\ WF_rtcvars(\E f \in Fields : UpdateRegister(f)) /\ WF_rtcvars(UpdateEnd)
-----------------------------------------------------------------------------
(* The clock and the call have their types.                                *)
TypeOK ==
  /\ time \in 0 .. MaxTime /\ uip \in BOOLEAN
  /\ updates \in [Fields -> 0 .. MaxTime]
  /\ step \in {"wait", "read", "copy", "compare", "done"} /\ first \in BOOLEAN
  /\ reg \in 1 .. Len(Order) + 1 /\ (step = "read" => reg <= Len(Order))
  /\ rtc = [f \in Fields |-> rtc[f]] /\ last = [f \in Fields |-> last[f]]
  /\ start \in 0 .. time /\ laststart \in 0 .. start

(* "to avoid getting inconsistent values due to RTC updates": the values   *)
(* returned are those of one instant, the one at which the call last saw   *)
(* the flag clear, whatever updates came between its reads.                *)
Consistent == step = "done" => \A f \in Fields : rtc[f] = Register(f, start)

(* The loop ends: once the clock leaves the call two quiet rounds, it has  *)
(* the same values twice.                                                  *)
CallReturns == <>(step = "done")

(* The call as a whole is an atomic read of the clock.                     *)
Nothing == << >>
Atomic == INSTANCE ClockRead WITH now <- time, reading <- IF step = "done" THEN rtc ELSE Nothing
ReadsAtomically == Atomic!Spec
=============================================================================
