--------------------------- MODULE MCDisplayFlush ---------------------------
(* DisplayFlush with small pools, buffers and contents for TLC.            *)
EXTENDS DisplayFlush
=============================================================================
