------------------------------ MODULE Machine ------------------------------
(* What the capstones share: null pointers, uint32_t, the argument limit.  *)
EXTENDS Integers

CONSTANTS NULL,
          Word,    \* 2^32, the modulus of uint32_t
          MaxArg   \* the longest argument a frontend accepts (SESS_MAX_ARG, ENC_MAX_ARG)

ASSUME MachineAssumption ==
  /\ Word \in Nat
  /\ MaxArg \in Nat /\ MaxArg < Word
  /\ NULL \notin Int

U32 == 0 .. Word - 1
Arg == 0 .. MaxArg

Lesser(m, n)  == IF m < n THEN m ELSE n
Greater(m, n) == IF m < n THEN n ELSE m
=============================================================================
