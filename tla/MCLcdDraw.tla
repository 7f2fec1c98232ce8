----------------------------- MODULE MCLcdDraw ------------------------------
(* LcdDraw on one heap buffer and one stack slot.                          *)
EXTENDS LcdDraw
=============================================================================
