------------------------------ MODULE MCQueue ------------------------------
(***************************************************************************)
(* The ring with three slots (two usable): the indices wrap after three    *)
(* operations, the queue is empty, partly filled and full.                 *)
(***************************************************************************)
EXTENDS ProducerConsumerQueue
=============================================================================
