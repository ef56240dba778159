--------------------------- MODULE MCSha256Engine ---------------------------
(***************************************************************************)
(* Sha256Engine for TLC, with the block size, the number of rounds and the *)
(* stretch of the hardware.  Only the FIFO is smaller: the longest message *)
(* is four blocks, the DMA pauses at 8 words instead of 480 and 34 fit     *)
(* instead of 512, so that the DMA does pause before the end of the        *)
(* message, and would run over if it did not.                              *)
(***************************************************************************)
EXTENDS Sha256Engine

MC_BlockWords == 16
MC_Rounds == 64
MC_Stretch == 7
MC_SyncLag == 2
MC_Burst == 2
MC_Depth == 34
MC_Throttle == 8
============================================================================
