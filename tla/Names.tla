------------------------------- MODULE Names -------------------------------
(***************************************************************************)
(* Names of cache entries and configuration keys, and what the stores make *)
(* of a name they are asked for: cachecore.c and cfgcore.c copy it into a  *)
(* buffer of 32 bytes that starts out with whatever was there before.      *)
(*                                                                         *)
(* A name is known by its first characters (stem) and its length: of two   *)
(* names with the same stem the shorter begins the longer.                 *)
(***************************************************************************)
EXTENDS Machine

CONSTANTS Name,      \* the names in use
          NormSize   \* 32, the size of the buffer

ASSUME NamesAssumption ==
  /\ Name \subseteq [stem: STRING, len: Nat]
  /\ NULL \notin Name
  /\ NormSize \in Nat \ {0}

Begins(m, n) == m.stem = n.stem /\ m.len <= n.len

\* Names from "limit" characters on are not copied at all.
Overlong(n, limit) == NormSize < n.len /\ n.len < limit

\* The names normalize_key can make of n; NULL is any string that is no name in
\* use.  A short name is copied without its terminator, so the old bytes of the
\* buffer follow it; byte 31 is zero in any case, and cuts a name of 32.
Normal(n, limit) ==
  IF n.len >= limit
  THEN {m \in Name : m.len < NormSize} \cup {NULL}
  ELSE IF n.len < NormSize - 1
  THEN {m \in Name : Begins(n, m) /\ m.len < NormSize} \cup {NULL}
  ELSE LET cut == {m \in Name : Begins(m, n) /\ m.len = NormSize - 1}
       IN IF cut = {} THEN {NULL} ELSE cut
=============================================================================
