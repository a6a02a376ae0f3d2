---------------------------- MODULE MCCacheLoad ----------------------------
(* Constants for model checking cacheload.                                 *)
EXTENDS CacheLoad

CONSTANTS p1, p2, p3

a == [stem |-> "a", len |-> 1]
b == [stem |-> "b", len |-> 1]
c == [stem |-> "c", len |-> 1]

Names == {a, b, c}

\* Two names share a chain.
TwoChains == [n \in Names |-> IF n = c THEN 1 ELSE 0]

\* Tags of no byte and of some, and values kept inside the entry, in a block, and too
\* long to be loaded.
EveryEntry == [name: Names, id_len: {0, 1}, len: {0, 2, MaxArg + 1}]
=============================================================================
