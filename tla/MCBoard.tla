------------------------------ MODULE MCBoard -------------------------------
(* Board with brightness percentages on both sides of the clamp. *)
EXTENDS Board

MCPercents == {-1, 50, 101}
=============================================================================
