------------------------------- MODULE MCBatch -------------------------------
(* Batch for TLC: a file of two rows beside one API request.                *)
EXTENDS Batch

CONSTANTS r1, r2

MCFile == <<r1, r2>>
=============================================================================
