----------------------------- MODULE ServeOnce -----------------------------
(***************************************************************************)
(* The server threads of cached and cfgsvcd: those of ServeLoop, but a     *)
(* connection carries one request and is closed after it.                  *)
(***************************************************************************)
EXTENDS ServeLoop

\* serve returns from inside: the request and its buffer are gone.
EndRequest(t) ==
  /\ Hangup(t)
  /\ req' = [req EXCEPT ![t] = NULL]
  /\ FreeArg(t)
  /\ UNCHANGED todo

\* "ERR op" or "ERR unsupported".
RefuseOnce(t) == pc[t] = "badop" /\ EndRequest(t) /\ UNCHANGED lock

\* LeaveCriticalSection, and serve returns.
LeaveOnce(t) ==
  /\ pc[t] = "locked"
  /\ todo[t] = <<>>
  /\ Release
  /\ EndRequest(t)
=============================================================================
