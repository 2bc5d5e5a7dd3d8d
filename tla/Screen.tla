------------------------------- MODULE Screen -------------------------------
(***************************************************************************)
(* The battery bar that ninebot_data_updated_handler draws of the values   *)
(* shown: main.c computes its end, and the line loop of ssd1306.c runs to  *)
(* it in 16-bit numbers.  The value may come from a frame that was never   *)
(* checked, and is then any 16-bit number.                                 *)
(***************************************************************************)
EXTENDS ScooterData

CONSTANT Width \* ssd1306_width()

ASSUME WidthAssumption == Width = 128

MaxShort == 32767

Bug_BarEnd(batt) == Signed((((Width - 1) * batt) \div 100) % 65536)

(* x2: a share of the width, cut to uint16_t and passed on as int16_t. *)
BarEnd(batt) == Signed(((Width * batt) \div 100) % 65536)

(* A line between 0 and x is drawn from its left end to its right end. *)
LineRight(x) == IF x < 0 THEN 0 ELSE x

(* The loop leaves when its counter, an int16_t, is past the right end. *)
LineEnds(x) == LineRight(x) < MaxShort

-----------------------------------------------------------------------------
(* The handler of a notification gets to the end of the bar, whatever the  *)
(* register said: no value makes the loop of ssd1306_draw_line run to the  *)
(* largest int16_t, which its counter never passes.                        *)
DrawingEnds == LineEnds(BarEnd(shown.batt))
=============================================================================
