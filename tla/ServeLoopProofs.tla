-------------------------- MODULE ServeLoopProofs --------------------------
(***************************************************************************)
(* Proofs about the two server threads, for any requests the clients send. *)
(* Each step of serve is shown to preserve ServeInv on its own, so that    *)
(* the proofs about a daemon cite the step its action takes.               *)
(***************************************************************************)
EXTENDS ServeLoop, SequenceTheorems, TLAPS

Serving == {"big", "body", "badop", "enter", "locked"}

\* A thread that serves a request has one of those the clients send, and has
\* passed its length unless it is about to refuse it.
RequestInHand(R) ==
  /\ req \in [Thread -> R \cup {NULL}]
  /\ \A t \in Thread : pc[t] \in Serving =>
       req[t] \in R /\ (pc[t] # "big" => req[t].len \in Arg)

\* The inductive invariant of serve.
ServeInv(R) == ServeTypeOK /\ RequestInHand(R) /\ LockDiscipline /\ NoArgumentLeft

USE MachineAssumption, ServeAssumption

\* main starts both threads outside of everything.
LEMMA ServeInitInv ==
  ASSUME NEW R, ServeInit
  PROVE  ServeInv(R)
<1>1. \A t \in Thread : pc[t] \in {"start", "listen", "gone"}
  BY DEF ServeInit, Thread
<1>2. ServeTypeOK
  BY DEF ServeInit, ServeTypeOK, Thread
<1> QED
  BY <1>1, <1>2 DEF ServeInit, ServeInv, RequestInHand, Serving, LockDiscipline,
                    NoArgumentLeft, Inside

\* A thread that goes from one place outside the critical section to another,
\* holding no argument, keeps the lock and the list of steps as they are.
LEMMA GotoInv ==
  ASSUME NEW R, ServeInv(R), NEW t \in Thread, pc[t] # "locked",
         NEW where \in {"exit", "gone", "listen", "drain", "read"}, Goto(t, where),
         \/ UNCHANGED <<req, arg, lock, todo>> /\ ~arg[t]
         \/ req' = [req EXCEPT ![t] = NULL] /\ FreeArg(t) /\ UNCHANGED <<lock, todo>>
         \/ req' = [req EXCEPT ![t] = NULL] /\ ~arg[t] /\ UNCHANGED <<arg, lock, todo>>
  PROVE  ServeInv(R)'
<1>1. ServeTypeOK'
  BY DEF ServeInv, ServeTypeOK, Goto, FreeArg
<1>2. RequestInHand(R)'
  BY DEF ServeInv, ServeTypeOK, RequestInHand, Serving, Goto
<1>3. LockDiscipline'
  BY DEF ServeInv, ServeTypeOK, LockDiscipline, Inside, Goto
<1>4. NoArgumentLeft'
  BY DEF ServeInv, ServeTypeOK, RequestInHand, NoArgumentLeft, Goto, FreeArg
<1> QED
  BY <1>1, <1>2, <1>3, <1>4 DEF ServeInv

\* Setting the transports up, giving the pipe up, and flushing it after a client.
LEMMA StartupInv ==
  ASSUME NEW R, ServeInv(R), StartTcp \/ PipeFails \/ Drained
  PROVE  ServeInv(R)'
<1>1. PICK t \in Thread, where \in {"exit", "gone", "listen"} :
        /\ pc[t] \in {"start", "listen", "drain"} /\ Goto(t, where)
        /\ UNCHANGED <<req, arg, lock, todo>>
  BY DEF StartTcp, PipeFails, Drained, Thread
<1>2. ~arg[t]
  BY <1>1 DEF ServeInv, NoArgumentLeft
<1> QED
  BY <1>1, <1>2, GotoInv

\* A connection starts with nothing in hand.
LEMMA AcceptInv ==
  ASSUME NEW R, ServeInv(R), NEW t \in Thread, Accept(t)
  PROVE  ServeInv(R)'
<1>1. ~arg[t]
  BY DEF Accept, ServeInv, NoArgumentLeft
<1> QED
  BY <1>1, GotoInv DEF Accept

\* A header is read: the argument it announces is allocated when it is accepted,
\* and nothing is allocated when it is refused or the connection is given up.
LEMMA ReadHeaderInv ==
  ASSUME NEW R, ServeInv(R), NEW t \in Thread, NEW r \in R, r.len \in Nat, ReadHeader(t, r)
  PROVE  ServeInv(R)'
<1>1. pc[t] = "read" /\ ~arg[t] /\ UNCHANGED <<lock, todo>>
  BY DEF ReadHeader, ServeInv, NoArgumentLeft
<1>2. CASE Hangup(t) /\ UNCHANGED <<req, arg>>
  BY <1>1, <1>2, GotoInv DEF Hangup
<1>3. CASE ~(Hangup(t) /\ UNCHANGED <<req, arg>>)
  <2>1. PICK where \in {"big", "body", "badop", "enter"} :
          /\ Goto(t, where)
          /\ req' = [req EXCEPT ![t] = r]
          /\ where # "big" => r.len \in Arg
          /\ \/ where = "body" /\ r.len \in 1 .. MaxArg /\ arg' = [arg EXCEPT ![t] = TRUE]
             \/ UNCHANGED arg
    BY <1>3 DEF ReadHeader, Received, Arg
  <2>2. ServeTypeOK'
    BY <1>1, <2>1 DEF ServeInv, ServeTypeOK, Goto
  <2>3. RequestInHand(R)'
    BY <1>1, <2>1 DEF ServeInv, ServeTypeOK, RequestInHand, Serving, Goto
  <2>4. LockDiscipline'
    BY <1>1, <2>1 DEF ServeInv, ServeTypeOK, LockDiscipline, Inside, Goto
  <2>5. NoArgumentLeft'
    BY <1>1, <2>1 DEF ServeInv, ServeTypeOK, RequestInHand, NoArgumentLeft, Goto
  <2> QED
    BY <2>2, <2>3, <2>4, <2>5 DEF ServeInv
<1> QED
  BY <1>2, <1>3

\* The argument has arrived: the buffer and the request stay in hand.
LEMMA ReadBodyInv ==
  ASSUME NEW R, ServeInv(R), NEW t \in Thread, ReadBody(t)
  PROVE  ServeInv(R)'
<1>1. PICK where \in {"badop", "enter"} : Goto(t, where)
  BY DEF ReadBody, Received
<1>2. ServeTypeOK'
  BY <1>1 DEF ReadBody, ServeInv, ServeTypeOK, Goto
<1>3. RequestInHand(R)'
  BY <1>1 DEF ReadBody, ServeInv, ServeTypeOK, RequestInHand, Serving, Goto
<1>4. LockDiscipline'
  BY <1>1 DEF ReadBody, ServeInv, ServeTypeOK, LockDiscipline, Inside, Goto
<1>5. NoArgumentLeft'
  BY <1>1 DEF ReadBody, ServeInv, ServeTypeOK, NoArgumentLeft, Goto
<1> QED
  BY <1>2, <1>3, <1>4, <1>5 DEF ServeInv

\* The ways out of a request before the lock is taken, for any reason.
LEMMA TurnedAwayInv ==
  ASSUME NEW R, ServeInv(R), NEW t \in Thread, Dropped(t) \/ RefuseBig(t) \/ RefuseOp(t)
  PROVE  ServeInv(R)'
<1>1. CASE Dropped(t)
  BY <1>1, GotoInv DEF Dropped, Hangup
<1>2. CASE RefuseBig(t)
  <2>1. ~arg[t]
    BY <1>2 DEF RefuseBig, ServeInv, NoArgumentLeft
  <2> QED
    BY <1>2, <2>1, GotoInv DEF RefuseBig, Hangup
<1>3. CASE RefuseOp(t)
  BY <1>3, GotoInv DEF RefuseOp
<1> QED
  BY <1>1, <1>2, <1>3

\* EnterCriticalSection: the lock was free, so the other thread is not inside.
LEMMA EnterInv ==
  ASSUME NEW R, ServeInv(R), NEW t \in Thread, Enter(t)
  PROVE  ServeInv(R)' /\ todo' = [todo EXCEPT ![t] = <<"handle">>] /\ lock' = t
<1>1. ServeTypeOK'
  BY DEF Enter, Acquire, ServeInv, ServeTypeOK, Goto, Step
<1>2. RequestInHand(R)'
  BY DEF Enter, ServeInv, ServeTypeOK, RequestInHand, Serving, Goto
<1>3. LockDiscipline'
  BY DEF Enter, Acquire, ServeInv, ServeTypeOK, LockDiscipline, Inside, Goto
<1>4. NoArgumentLeft'
  BY DEF Enter, ServeInv, ServeTypeOK, NoArgumentLeft, Goto
<1> QED
  BY <1>1, <1>2, <1>3, <1>4 DEF ServeInv, Enter, Acquire

\* A step inside the critical section changes the list of steps only.
LEMMA ThenInv ==
  ASSUME NEW R, ServeInv(R), NEW t \in Thread, NEW step, At(t, step),
         NEW steps \in Seq(Step), Then(t, steps)
  PROVE  /\ ServeInv(R)'
         /\ todo' = [todo EXCEPT ![t] = steps \o Tail(todo[t])]
         /\ lock = t /\ UNCHANGED <<pc, req, arg, lock>>
<1>1. todo[t] \in Seq(Step) /\ todo[t] # <<>>
  BY DEF ServeInv, ServeTypeOK, At
<1>2. Tail(todo[t]) \in Seq(Step)
  BY <1>1
<1>3. steps \o Tail(todo[t]) \in Seq(Step)
  BY <1>2
<1>4. todo' = [todo EXCEPT ![t] = steps \o Tail(todo[t])]
  BY DEF Then
<1>5. ServeTypeOK'
  BY <1>3, <1>4 DEF Then, ServeInv, ServeTypeOK
<1>6. RequestInHand(R)' /\ LockDiscipline' /\ NoArgumentLeft'
  BY DEF Then, ServeInv, RequestInHand, LockDiscipline, NoArgumentLeft, Inside
<1>7. lock = t
  BY DEF ServeInv, LockDiscipline, Inside, At
<1> QED
  BY <1>4, <1>5, <1>6, <1>7 DEF ServeInv, Then

\* LeaveCriticalSection, and the argument is freed.
LEMMA LeaveInv ==
  ASSUME NEW R, ServeInv(R), NEW t \in Thread, Leave(t)
  PROVE  ServeInv(R)' /\ UNCHANGED todo /\ pc' = [pc EXCEPT ![t] = "read"]
<1>1. ServeTypeOK'
  BY DEF Leave, Release, FreeArg, ServeInv, ServeTypeOK, Goto
<1>2. RequestInHand(R)'
  BY DEF Leave, ServeInv, ServeTypeOK, RequestInHand, Serving, Goto
<1>3. LockDiscipline'
  BY DEF Leave, Release, ServeInv, ServeTypeOK, LockDiscipline, Inside, Goto
<1>4. NoArgumentLeft'
  BY DEF Leave, FreeArg, ServeInv, ServeTypeOK, NoArgumentLeft, Goto
<1> QED
  BY <1>1, <1>2, <1>3, <1>4 DEF ServeInv, Leave, Goto

\* Steps of the store alone leave the threads alone.
LEMMA ServeStutterInv ==
  ASSUME NEW R, ServeInv(R), UNCHANGED serveVars
  PROVE  ServeInv(R)'
BY DEF serveVars, ServeInv, ServeTypeOK, RequestInHand, LockDiscipline, NoArgumentLeft, Inside
=============================================================================
