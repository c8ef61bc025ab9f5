---------------------------- MODULE MCRtcConvert ----------------------------
(***************************************************************************)
(* Every hour, with the least and the greatest values of the other fields  *)
(* and values on both sides of a carry between decimal digits.             *)
(***************************************************************************)
EXTENDS RtcConvert

MCTimes ==
  [seconds : {0, 9, 59}, minutes : {10, 59}, hours : 0 .. 23, weekdays : {1, 7},
   day : {1, 31}, month : {9, 12}, year : {0, 17, 99}, century : {19, 20}]
=============================================================================
