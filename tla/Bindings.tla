------------------------------ MODULE Bindings ------------------------------
(***************************************************************************)
(* What the configuration store is to its clients: a name is bound once,   *)
(* and what it is bound to never changes.                                  *)
(***************************************************************************)
CONSTANTS Name, Value,
          Unbound   \* what a name that is not bound yet has for a value

VARIABLE bound

Init == bound = [n \in Name |-> Unbound]

Bind(n) ==
  /\ bound[n] = Unbound
  /\ bound'[n] \in Value
  /\ bound' = [bound EXCEPT ![n] = bound'[n]]

Next == \E n \in Name : Bind(n)

Spec == Init /\ [][Next]_bound
=============================================================================
