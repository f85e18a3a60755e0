----------------------------- MODULE MCCrorcDma -----------------------------
(* A C-RORC channel with a count of two bits and queues of a few entries.  *)
EXTENDS CrorcDmaChannel
=============================================================================
