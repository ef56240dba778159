--------------------------- MODULE MCSha256Reset ---------------------------
(***************************************************************************)
(* Sha256Reset for TLC, with the times of the hardware: 27 bus clocks are  *)
(* what the driver's own measurement gives for a store (16 stores in 3.5   *)
(* us, test_sha256_fifo.c:90), and 125 are the microsecond of usleep(1).   *)
(* The DataMover gets all the time that these leave it: 23 are too many.   *)
(***************************************************************************)
EXTENDS Sha256Reset

MC_StoreGap == 27
MC_SleepGap == 125
MC_MoverLag == 22
============================================================================
