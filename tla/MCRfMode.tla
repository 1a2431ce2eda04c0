------------------------------ MODULE MCRfMode ------------------------------
(* The mode machine with two sync codes and a few commands and pairings.   *)
EXTENDS RfMode, TLC

Symmetry == Permutations(Codes)
=============================================================================
