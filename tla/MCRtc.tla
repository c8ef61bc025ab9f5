-------------------------------- MODULE MCRtc --------------------------------
(***************************************************************************)
(* A clock shortly before midnight of New Year's Eve: a minute has three   *)
(* seconds, and with the first full minute every other register changes.   *)
(***************************************************************************)
EXTENDS Rtc

MCRegister(f, t) == IF f = "seconds" THEN (t + 1) % 3 ELSE (t + 1) \div 3
=============================================================================
