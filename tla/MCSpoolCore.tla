---------------------------- MODULE MCSpoolCore ----------------------------
(* Constants for model checking the job store on its own.                  *)
EXTENDS SpoolCore, TLC

CONSTANTS p1, p2, p3, b1, b2, b3, b4, m1, m2, raster, text

Symmetry == Permutations(Ptr) \cup Permutations(Buf) \cup Permutations(Meta)
=============================================================================
