------------------------------ MODULE MCCruDma ------------------------------
(* A CRU endpoint with two links of two descriptors each.                  *)
EXTENDS CruDmaChannel, TLC
Symmetric == Permutations(Page)
=============================================================================
