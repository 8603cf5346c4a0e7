------------------------------ MODULE MCBatches ------------------------------
(***************************************************************************)
(* A batch of five: halves of unequal length and three levels of halving.  *)
(***************************************************************************)
EXTENDS BatchIsolation
=============================================================================
