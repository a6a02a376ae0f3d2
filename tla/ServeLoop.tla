----------------------------- MODULE ServeLoop -----------------------------
(***************************************************************************)
(* The two server threads of sessiond and of spoold, which are the same    *)
(* program text around different handlers: the pipe thread and the TCP     *)
(* (main) thread each serve one connection at a time, request after        *)
(* request, and run the handler inside the critical section g_lock.        *)
(*                                                                         *)
(* Inside the critical section a thread has a list of steps to do: the     *)
(* calls into the store, which a daemon's handlers define, and the replies,*)
(* which may block on the client while the lock is held.                   *)
(***************************************************************************)
EXTENDS Machine, Sequences

VARIABLES
  pc,    \* where each thread is
  req,   \* the request it is serving
  arg,   \* whether it holds an allocated argument buffer
  lock,  \* the owner of g_lock
  todo   \* what is left to do before LeaveCriticalSection

serveVars == <<pc, req, arg, lock, todo>>

Thread == {"pipe", "tcp"}
Step   == {"handle", "reply", "defer", "pump"}

ASSUME ServeAssumption == NULL \notin Thread

\* main: the pipe thread may fail to start; the listener is set up next.
ServeInit ==
  /\ \E p \in {"listen", "gone"} : pc = [t \in Thread |-> IF t = "tcp" THEN "start" ELSE p]
  /\ req = [t \in Thread |-> NULL]
  /\ arg = [t \in Thread |-> FALSE]
  /\ lock = NULL
  /\ todo = [t \in Thread |-> <<>>]

Goto(t, where) == pc' = [pc EXCEPT ![t] = where]

\* socket, bind and listen; when one fails main returns and the process exits.
StartTcp ==
  /\ pc["tcp"] = "start"
  /\ Goto("tcp", "listen") \/ Goto("tcp", "exit")
  /\ UNCHANGED <<req, arg, lock, todo>>

\* CreateNamedPipeW fails and the pipe thread returns.
PipeFails ==
  /\ pc["pipe"] = "listen"
  /\ Goto("pipe", "gone")
  /\ UNCHANGED <<req, arg, lock, todo>>

\* accept or ConnectNamedPipe succeeds.  A failure is retried: no step.
Accept(t) ==
  /\ pc[t] = "listen"
  /\ Goto(t, "read")
  /\ UNCHANGED <<req, arg, lock, todo>>

\* serve returns: the pipe is flushed before it is closed, a socket is not.
Hangup(t) == Goto(t, IF t = "pipe" THEN "drain" ELSE "listen")

\* FlushFileBuffers ends: the client has read everything or is gone.
Drained ==
  /\ pc["pipe"] = "drain"
  /\ Goto("pipe", "listen")
  /\ UNCHANGED <<req, arg, lock, todo>>

\* Ops nobody handles are turned away before the lock is taken.
Received(r) == IF r.op = "bad" THEN "badop" ELSE "enter"

\* A request header arrives: too long an argument is refused, and the buffer for
\* one that fits is allocated if there is memory.
ReadHeader(t, r) ==
  /\ pc[t] = "read"
  /\ \/ /\ r.len > MaxArg
        /\ Goto(t, "big")
        /\ req' = [req EXCEPT ![t] = r]
        /\ UNCHANGED arg
     \/ /\ r.len \in 1 .. MaxArg
        /\ Goto(t, "body")
        /\ req' = [req EXCEPT ![t] = r]
        /\ arg' = [arg EXCEPT ![t] = TRUE]
     \/ /\ r.len = 0
        /\ Goto(t, Received(r))
        /\ req' = [req EXCEPT ![t] = r]
        /\ UNCHANGED arg
     \/ /\ r.len \in 1 .. MaxArg
        /\ Hangup(t)
        /\ UNCHANGED <<req, arg>>
  /\ UNCHANGED <<lock, todo>>

\* The argument is complete.
ReadBody(t) ==
  /\ pc[t] = "body"
  /\ Goto(t, Received(req[t]))
  /\ UNCHANGED <<req, arg, lock, todo>>

\* Variant: the buffer is not freed.
KeepArg(t) == UNCHANGED arg

FreeArg(t) == arg' = [arg EXCEPT ![t] = FALSE]

\* The client is gone before its header, or before the rest of its argument.
Dropped(t) ==
  /\ pc[t] \in {"read", "body"}
  /\ Hangup(t)
  /\ req' = [req EXCEPT ![t] = NULL]
  /\ FreeArg(t)
  /\ UNCHANGED <<lock, todo>>

\* "ERR big", and the connection is closed with the argument unread.
RefuseBig(t) ==
  /\ pc[t] = "big"
  /\ Hangup(t)
  /\ req' = [req EXCEPT ![t] = NULL]
  /\ UNCHANGED <<arg, lock, todo>>

\* "ERR op", and the connection goes on.
RefuseOp(t) ==
  /\ pc[t] = "badop"
  /\ Goto(t, "read")
  /\ req' = [req EXCEPT ![t] = NULL]
  /\ FreeArg(t)
  /\ UNCHANGED <<lock, todo>>

\* Variant: nothing is waited for.
AcquireAnyway(t) == lock' = t

\* EnterCriticalSection returns.
Acquire(t) == lock = NULL /\ lock' = t

Enter(t) ==
  /\ pc[t] = "enter"
  /\ Acquire(t)
  /\ Goto(t, "locked")
  /\ todo' = [todo EXCEPT ![t] = <<"handle">>]
  /\ UNCHANGED <<req, arg>>

\* The thread is inside the critical section and its next step is this one.
At(t, step) == pc[t] = "locked" /\ todo[t] # <<>> /\ Head(todo[t]) = step

\* The step is done and these are to follow it.
Then(t, steps) ==
  /\ todo' = [todo EXCEPT ![t] = steps \o Tail(@)]
  /\ UNCHANGED <<pc, req, arg, lock>>

\* conn_write: it returns when the client takes the bytes or goes away, and its
\* result is ignored.
Reply(t) == At(t, "reply") /\ Then(t, <<>>)

\* Variant: a way out that forgets LeaveCriticalSection.
KeepLock == UNCHANGED lock

Release == lock' = NULL

Leave(t) ==
  /\ pc[t] = "locked"
  /\ todo[t] = <<>>
  /\ Release
  /\ Goto(t, "read")
  /\ req' = [req EXCEPT ![t] = NULL]
  /\ FreeArg(t)
  /\ UNCHANGED todo

Exited == pc["tcp"] = "exit"

-----------------------------------------------------------------------------
Inside(t) == pc[t] = "locked"

ServeTypeOK ==
  /\ pc \in [Thread -> {"start", "exit", "gone", "listen", "drain", "read", "big", "body",
                        "badop", "enter", "locked"}]
  /\ arg \in [Thread -> BOOLEAN]
  /\ lock \in Thread \cup {NULL}
  /\ todo \in [Thread -> Seq(Step)]

\* A thread is inside a handler exactly when it owns g_lock, so the two never
\* are at once, and no way through serve leaves the lock behind.
LockDiscipline == \A t \in Thread : Inside(t) <=> lock = t

\* A request's argument buffer is freed on every way back to the top of serve
\* and out of it: dropped connections, refused ops and served requests.
NoArgumentLeft ==
  \A t \in Thread : arg[t] => /\ pc[t] \in {"body", "badop", "enter", "locked"}
                              /\ req[t].len \in 1 .. MaxArg
=============================================================================
