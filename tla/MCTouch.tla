------------------------------ MODULE MCTouch -------------------------------
(* Touch with the corners of the panel and a position in between. *)
EXTENDS Touch

MCPositions == {<<0, 0>>, <<239, 319>>, <<100, 50>>}
MCGarbage == {<<0, 0>>, <<4095, 4095>>}
=============================================================================
