----------------------------- MODULE MCSessCore -----------------------------
(* Constants for model checking the session store on its own.              *)
EXTENDS SessCore, TLC

CONSTANTS p1, p2, p3, b1, b2, b3, echo

Symmetry == Permutations({p1, p2, p3}) \cup Permutations({b1, b2, b3})
=============================================================================
