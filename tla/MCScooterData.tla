---------------------------- MODULE MCScooterData ----------------------------
(***************************************************************************)
(* Registers whose answers make the interesting frames.  A battery of 34   *)
(* with 0 behind it still checks when its length byte arrives as 5, with   *)
(* 65281 behind it when that arrives as 4, and a distance of 37154 with    *)
(* 255 behind it when it arrives as 3.  37154 is negative as a speed, and  *)
(* 25801 is where a bar of 127 columns would end at the largest int16_t.   *)
(***************************************************************************)
EXTENDS Screen

MCRegisters == {<<34, 0>>, <<34, 65281>>, <<37154, 255>>, <<25801, 0>>}

(* An idle parser's sum is overwritten before it is read, and the code is  *)
(* never read.                                                             *)
MCView ==
  <<parser.idx, IF parser.idx = 0 THEN 0 ELSE parser.sum,
    shown, rest, half, faults, lost>>

=============================================================================
