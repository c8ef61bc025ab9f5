----------------------------- MODULE RtcConvert -----------------------------
(***************************************************************************)
(* cmos_read_rtc (src/src/core/cmos.c), the part that converts what was    *)
(* read to binary and to a 24 hour clock.  The registers are bytes; the    *)
(* formats are those of the MC146818 clock.                                *)
(***************************************************************************)
EXTENDS Cmos

CONSTANT Times  \* times of the clock, as records of binary numbers

ASSUME TimesAssumption == Times \subseteq { t \in [Fields -> 0 .. 99] : t.hours < 24 }

VARIABLES
  showing,  \* the time that the clock means to show
  reg_b     \* formats: [binary, hours24], bits 2 and 1 of status register B

convertvars == << showing, reg_b, step, rtc >>

(* The clock (external): two decimal digits to a byte, or a binary number; *)
(* the hours of a 12 hour clock run 12, 1, ..., 11 and have bit 7 set in   *)
(* the afternoon.                                                          *)
Bcd(v) == 16 * (v \div 10) + (v % 10)

Show(v, b) == IF b.binary THEN v ELSE Bcd(v)

ShowHours(h, b) ==
  IF b.hours24 THEN Show(h, b)
  ELSE Show(IF h % 12 = 0 THEN 12 ELSE h % 12, b) + (IF h >= 12 THEN 128 ELSE 0)

Shown(t, b) ==
  [f \in DOMAIN t |-> IF f = "hours" THEN ShowHours(t[f], b) ELSE Show(t[f], b)]

ConvertInit ==
  /\ showing \in Times
  /\ reg_b \in [binary : BOOLEAN, hours24 : BOOLEAN]
  /\ step = "bcd"
  /\ rtc = Shown(showing, reg_b)

-----------------------------------------------------------------------------
(* The low digit is v & 0x0F, the high one v / 16, of the hours without    *)
(* bit 7, which is kept.                                                   *)
FromBcd(v) == (v % 16) + (v \div 16) * 10

(* Fault: bit 7 of the hours is taken for a digit.                         *)
FaultHoursFromBcd(h) == FromBcd(h)

HoursFromBcd(h) == FromBcd(h % 128) + 128 * (h \div 128)

Decode ==
  /\ step = "bcd"
  /\ rtc' = IF reg_b.binary THEN rtc
            ELSE [f \in DOMAIN rtc |-> IF f = "hours" THEN HoursFromBcd(rtc[f])
                                       ELSE FromBcd(rtc[f])]
  /\ step' = "hours"
  /\ UNCHANGED << showing, reg_b >>

To24Hours ==
  /\ step = "hours"
  /\ rtc' = IF ~ reg_b.hours24 /\ rtc.hours >= 128
            THEN [rtc EXCEPT !.hours = ((rtc.hours % 128) + 12) % 24] ELSE rtc
  /\ step' = "year"
  /\ UNCHANGED << showing, reg_b >>

(* The year is 16 bits wide, the century is left as it is.                 *)
FullYear ==
  /\ step = "year"
  /\ rtc' = [rtc EXCEPT !.year = (rtc.year + rtc.century * 100) % 2^16]
  /\ step' = "done"
  /\ UNCHANGED << showing, reg_b >>

Converted == step = "done" /\ UNCHANGED convertvars

ConvertNext == Decode \/ To24Hours \/ FullYear \/ Converted

ConvertSpec == ConvertInit /\ [][ConvertNext]_convertvars

-----------------------------------------------------------------------------
(* What the caller should get: binary numbers, and the full year.          *)
Meant == [showing EXCEPT !.year = showing.century * 100 + showing.year]

(* Every format gives the time the clock shows, apart from the hours after *)
(* noon and midnight of a 12 hour clock.                                   *)
ConvertsBack ==
  step = "done" /\ (reg_b.hours24 \/ showing.hours \notin {0, 12}) => rtc = Meant
=============================================================================
