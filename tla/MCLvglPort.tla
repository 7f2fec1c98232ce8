----------------------------- MODULE MCLvglPort -----------------------------
(* LvglPort with a handful of handler results for TLC.                     *)
EXTENDS LvglPort
=============================================================================
