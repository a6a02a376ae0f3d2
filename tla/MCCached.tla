------------------------------ MODULE MCCached ------------------------------
(* Constants for model checking cached.                                    *)
EXTENDS Cached

CONSTANTS p1, p2

\* "key" and a longer key it begins, whose line and preview are too long, and one
\* that does not fit the buffer for names.
Short == [stem |-> "key", len |-> 1]
Long  == [stem |-> "key", len |-> 7]
Over  == [stem |-> "key", len |-> 9]

Names == {Short, Long, Over}

OneChain == [n \in Names |-> 0]

\* Values kept inside the entry, in a block of their own, and, on the fast path,
\* in the padding behind small[] and beyond it.
EveryOp ==
  UNION {Request("set",   {Short}, {MaxArg + 1}, {FALSE}, {NULL}),
         Request("set",   {Long},  {1}, {FALSE}, {NULL}),
         Request("set",   {Short}, {5}, {TRUE}, {"hex"}),
         Request("get",   {Short}, {0}, {FALSE}, {NULL}),
         Request("del",   {Over},  {0}, {FALSE}, {NULL}),
         Request("del",   {Short}, {0}, {FALSE}, {NULL}),
         Request("stats", {Short}, {0}, {TRUE}, {NULL}),
         Request("bad",   {Short}, {0}, {FALSE}, {NULL})}
=============================================================================
