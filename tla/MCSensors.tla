----------------------------- MODULE MCSensors -----------------------------
(* Sensors with a few data lengths, temperatures on both sides of zero and *)
(* of a carry between the bytes, and at the ends of the range.             *)
EXTENDS Sensors

MCTemperatures == {-32768, -257, -1, 0, 255, 6400, 32767}
=============================================================================
