------------------------------ MODULE MCBatch ------------------------------
(* Model checking of Batch: the bounds are given in the .cfg file.         *)
EXTENDS Batch
=============================================================================
