------------------------------ MODULE Versions ------------------------------
(***************************************************************************)
(* What the cache is to its clients: under each name the values that were  *)
(* stored, newest first.  Storing hides the value before, deleting brings  *)
(* it back.                                                                *)
(***************************************************************************)
EXTENDS Integers, Sequences

CONSTANTS Name, Value
VARIABLE versions

Init == versions = [n \in Name |-> <<>>]

Store(n, v) == versions' = [versions EXCEPT ![n] = <<v>> \o @]

Remove(n) ==
  /\ versions[n] # <<>>
  /\ versions' = [versions EXCEPT ![n] = Tail(@)]

Next ==
  /\ versions' # versions
  /\ \E n \in Name : Remove(n) \/ \E v \in Value : Store(n, v)

Spec == Init /\ [][Next]_versions
=============================================================================
