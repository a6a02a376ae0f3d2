----------------------------- MODULE ReadyQueue -----------------------------
(***************************************************************************)
(* What the ready queue of the spooler promises: jobs enter at the back,   *)
(* may be withdrawn while nobody drains the queue, and a drain takes them  *)
(* from the front, lets nobody in and ends only when the queue is empty.   *)
(***************************************************************************)
EXTENDS Integers, Sequences

CONSTANT Object
VARIABLES queue, draining

Init == queue = <<>> /\ draining = FALSE

Submit(x) ==
  /\ ~draining
  /\ \A i \in 1 .. Len(queue) : queue[i] # x
  /\ queue' = Append(queue, x)
  /\ UNCHANGED draining

\* The job at place i goes, and those behind it move up.
Withdraw(i) ==
  /\ ~draining
  /\ queue' = [k \in 1 .. Len(queue) - 1 |-> queue[IF k < i THEN k ELSE k + 1]]
  /\ UNCHANGED draining

Begin == ~draining /\ draining' = TRUE /\ UNCHANGED queue

Take ==
  /\ draining
  /\ queue # <<>>
  /\ queue' = Tail(queue)
  /\ UNCHANGED draining

End ==
  /\ draining
  /\ queue = <<>>
  /\ draining' = FALSE
  /\ UNCHANGED queue

Next ==
  \/ \E x \in Object : Submit(x)
  \/ \E i \in 1 .. Len(queue) : Withdraw(i)
  \/ Begin \/ Take \/ End

Spec == Init /\ [][Next]_<<queue, draining>>
=============================================================================
