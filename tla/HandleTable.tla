---------------------------- MODULE HandleTable ----------------------------
(***************************************************************************)
(* What a table of numbered objects promises its clients, whatever the     *)
(* pointers behind it do: creation hands out the lowest free number, a     *)
(* number names one object from its creation to its destruction, and an    *)
(* operation touches at most one number.  The session table of sesscore    *)
(* and the job table of spoolcore are shown to implement it.               *)
(***************************************************************************)
EXTENDS Integers

CONSTANTS Handle,  \* the numbers handed to clients
          Object,  \* what a number can name
          Size,    \* how large an object's contents can be
          None     \* a number that names nothing

VARIABLE table     \* what each number names, with the size of its contents

Entry == [obj: Object, len: Size]

Init == table = [h \in Handle |-> None]

Create(h, e) ==
  /\ table[h] = None
  /\ \A g \in Handle : table[g] = None => h <= g
  /\ \A g \in Handle : table[g] # None => table[g].obj # e.obj
  /\ table' = [table EXCEPT ![h] = e]

Update(h, n) ==
  /\ table[h] # None
  /\ table' = [table EXCEPT ![h] = [obj |-> table[h].obj, len |-> n]]

Destroy(h) ==
  /\ table[h] # None
  /\ table' = [table EXCEPT ![h] = None]

Next ==
  \E h \in Handle :
    \/ \E e \in Entry : Create(h, e)
    \/ \E n \in Size : Update(h, n)
    \/ Destroy(h)

Spec == Init /\ [][Next]_table
=============================================================================
