----------------------------- MODULE MCDmaBench -----------------------------
(* A few superpages, and the three kinds of run: with a limit,             *)
(* without one, and the buffer-full check.                                  *)
EXTENDS DmaBench
MCOptions == {[infinite |-> FALSE, limit |-> 3, bufferFullCheck |-> FALSE],
              [infinite |-> TRUE,  limit |-> 0, bufferFullCheck |-> FALSE],
              [infinite |-> FALSE, limit |-> 2, bufferFullCheck |-> TRUE]}
=============================================================================
