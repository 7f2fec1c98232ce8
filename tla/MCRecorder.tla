----------------------------- MODULE MCRecorder -----------------------------
(* Recorder and the SD card with a few data lengths.                       *)
EXTENDS Recorder
=============================================================================
