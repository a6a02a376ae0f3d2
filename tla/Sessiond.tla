------------------------------ MODULE Sessiond ------------------------------
(***************************************************************************)
(* sessiond.exe: the session store served to one pipe client and one TCP   *)
(* client at a time.  The pipe connection caches a pointer of its own.     *)
(***************************************************************************)
EXTENDS SessCore, ServeLoop

CONSTANT Traffic   \* the requests the clients send, some of Requests below

VARIABLES
  cur,      \* conn.cur of the pipe connection
  plugins,  \* g_plugins: the handlers that were found at startup
  used      \* history: the session each thread's request was carried out on

ownVars == <<cur, plugins, used>>
vars == <<storeVars, serveVars, ownVars>>

\* The requests a client can send.  A field an operation does not read has one
\* value; an argument one byte too long stands for all that are refused.
Request(op, types, handles, lens, flags) ==
  [op: {op}, type: types, handle: handles, len: lens, flag: flags]

Requests ==
  UNION {Request("open",   Handler \cup {NULL}, {0}, Arg, {FALSE}),
         Request("run",    {NULL}, WireHandle, {0}, BOOLEAN),
         Request("set",    {NULL}, WireHandle, Arg, BOOLEAN),
         Request("append", {NULL}, WireHandle, Arg, BOOLEAN),
         Request("close",  {NULL}, WireHandle, {0}, {FALSE}),
         Request("stat",   {NULL}, {0}, {0}, BOOLEAN),
         Request("flush",  {NULL}, {0}, Arg, {FALSE}),
         Request("bad",    {NULL}, {0}, {1, MaxArg + 1}, {FALSE})}

ASSUME TrafficAssumption == Traffic \subseteq Requests

plugin_for(type) == IF type \in plugins THEN type ELSE NULL

\* The pipe uses its cached pointer in place of SESS_RECENT.
ViaCur(t) == t = "pipe" /\ req[t].handle = SESS_RECENT

Using(t, s) == used' = [used EXCEPT ![t] = s]

\* Of the pointers outside the store, the pipe connection's is the only one.
Held == {cur}

-----------------------------------------------------------------------------
(* The handlers, each up to its first reply or to SessDefer.               *)

h_open(t) ==
  /\ \E ret \in Handle \cup {SESS_ERR} :
       /\ SessOpen(plugin_for(req[t].type), req[t].len, Held, ret)
       /\ cur' = IF t = "pipe" /\ ret # SESS_ERR THEN slots'[ret] ELSE cur
  /\ Then(t, <<"reply">>)
  /\ UNCHANGED used

\* The reply comes first and the deferral after it.
RunSteps(t) == IF req[t].flag THEN <<"reply", "defer">> ELSE <<"reply">>

h_use_run(t) ==
  \/ /\ ViaCur(t)
     /\ cur = NULL
     /\ Then(t, <<"reply">>)
     /\ UNCHANGED <<storeVars, cur, used>>
  \/ /\ ViaCur(t)
     /\ cur # NULL
     /\ IF sess[cur] = NULL THEN Crash("cur") ELSE UNCHANGED storeVars
     /\ Then(t, RunSteps(t))
     /\ Using(t, cur)
     /\ UNCHANGED cur
  \/ /\ ~ViaCur(t)
     /\ \E ret \in Handler \cup {SESS_ERR} :
          /\ SessUseRun(req[t].handle, ret)
          /\ Then(t, IF ret = SESS_ERR THEN <<"reply">> ELSE RunSteps(t))
     /\ Using(t, SessGet(req[t].handle))
     /\ UNCHANGED cur

\* The deferral comes first and the reply after it.
SetSteps(t) == IF req[t].flag THEN <<"defer", "reply">> ELSE <<"reply">>

h_use_set(t) ==
  \/ /\ ViaCur(t)
     /\ cur = NULL
     /\ Then(t, <<"reply">>)
     /\ UNCHANGED <<storeVars, cur, used>>
  \/ /\ ViaCur(t)
     /\ cur # NULL
     /\ IF sess[cur] = NULL
        THEN Crash("cur")
        ELSE SetData(cur, req[t].len, "cur") /\ UNCHANGED <<slots, count, recent, batch>>
     /\ Then(t, SetSteps(t))
     /\ Using(t, cur)
     /\ UNCHANGED cur
  \/ /\ ~ViaCur(t)
     /\ \E ret \in {SESS_OK, SESS_ERR} :
          /\ SessUseSet(req[t].handle, req[t].len, ret)
          /\ Then(t, IF ret = SESS_ERR THEN <<"reply">> ELSE SetSteps(t))
     /\ Using(t, SessGet(req[t].handle))
     /\ UNCHANGED cur

h_use_append(t) ==
  /\ \E ret \in {SESS_OK, SESS_ERR} : SessUseAppend(req[t].handle, req[t].len, ret)
  /\ Then(t, <<"reply">>)
  /\ Using(t, SessGet(req[t].handle))
  /\ UNCHANGED cur

h_close(t) ==
  /\ \E ret \in {SESS_OK, SESS_ERR} : SessClose(req[t].handle, ret)
  /\ Then(t, <<"reply">>)
  /\ UNCHANGED <<cur, used>>

h_stat(t) ==
  /\ SessStat(req[t].flag /\ t # "tcp")
  /\ Then(t, <<"reply">>)
  /\ UNCHANGED <<cur, used>>

h_flush(t) ==
  /\ SessFlush(req[t].len)
  /\ Then(t, <<"reply">>)
  /\ UNCHANGED <<cur, used>>

\* g_ops[req.op]
RunHandler(t) ==
  /\ At(t, "handle")
  /\ \/ req[t].op = "open"   /\ h_open(t)
     \/ req[t].op = "run"    /\ h_use_run(t)
     \/ req[t].op = "set"    /\ h_use_set(t)
     \/ req[t].op = "append" /\ h_use_append(t)
     \/ req[t].op = "close"  /\ h_close(t)
     \/ req[t].op = "stat"   /\ h_stat(t)
     \/ req[t].op = "flush"  /\ h_flush(t)
  /\ UNCHANGED plugins

\* FLAG_DEFER: h_use_run and h_use_set end in SessDefer.
Defer(t) ==
  /\ At(t, "defer")
  /\ SessDefer(req[t].handle)
  /\ Then(t, <<>>)
  /\ UNCHANGED ownVars

-----------------------------------------------------------------------------
Init == SessNew /\ ServeInit /\ cur = NULL /\ plugins \in SUBSET Handler
        /\ used = [t \in Thread |-> NULL]

\* serve starts with no current session.
Connect(t) ==
  /\ Accept(t)
  /\ cur' = IF t = "pipe" THEN NULL ELSE cur
  /\ UNCHANGED <<storeVars, plugins, used>>

\* The steps of serve around the handlers, which leave the store alone.
Transport(t) ==
  /\ \/ \E r \in Traffic : ReadHeader(t, r)
     \/ ReadBody(t)
     \/ Dropped(t)
     \/ RefuseBig(t)
     \/ RefuseOp(t)
  /\ UNCHANGED <<storeVars, ownVars>>

Startup ==
  /\ StartTcp \/ PipeFails \/ Drained
  /\ UNCHANGED <<storeVars, ownVars>>

Dispatch(t) == Enter(t) /\ UNCHANGED <<storeVars, ownVars>>

Answer(t) == Reply(t) /\ UNCHANGED <<storeVars, ownVars>>

Finish(t) ==
  /\ Leave(t)
  /\ Using(t, NULL)
  /\ UNCHANGED <<storeVars, cur, plugins>>

Gone == fault # "none" \/ Exited

Next ==
  \/ /\ ~Gone
     /\ \/ Startup
        \/ \E t \in Thread : \/ Connect(t) \/ Transport(t) \/ Dispatch(t)
                             \/ RunHandler(t) \/ Defer(t) \/ Answer(t) \/ Finish(t)
  \/ Gone /\ UNCHANGED vars

Spec == Init /\ [][Next]_vars

-----------------------------------------------------------------------------
(* Properties.                                                             *)

\* A request with FLAG_DEFER is one unit: when its deferral comes, which for RUN
\* is after a reply that may have blocked, the handle still names the very
\* session the request was carried out on, and that session is still there,
\* whatever the other transport asks for meanwhile (h_use_run, h_use_set under
\* g_lock).  The pipe's RECENT is excepted: see PipeRecentIsCurrent.
DeferSameSession ==
  \A t \in Thread :
    Inside(t) /\ (\E i \in 1 .. Len(todo[t]) : todo[t][i] = "defer") /\ ~ViaCur(t) =>
      fault # "none" \/ (/\ SessGet(req[t].handle) = used[t]
                         /\ used[t] # NULL /\ sess[used[t]] # NULL)

\* sessiond.c: SESS_RECENT "on the pipe ... it's this connection's cached current
\* pointer": a USE of RECENT on the pipe is carried out on the current session.
PipeRecentIsCurrent ==
  used["pipe"] # NULL /\ ViaCur("pipe") => used["pipe"] = cur

-----------------------------------------------------------------------------
(* Liveness.  A thread inside the critical section runs on, and a blocked  *)
(* reply ends because the client takes it or goes away; a thread takes a   *)
(* lock that stays free.  Nothing is assumed of what clients send, and the *)
(* critical section hands the lock out in no particular order.             *)

Fairness ==
  \A t \in Thread :
    /\ WF_vars(~Gone /\ (RunHandler(t) \/ Defer(t) \/ Answer(t) \/ Finish(t)))
    /\ WF_vars(~Gone /\ Dispatch(t))

FairSpec == Spec /\ Fairness

\* The critical section is always left again, by every way through every handler.
LockReleased == \A t \in Thread : lock = t ~> (lock # t \/ Gone)

\* A request that waits for the lock is served, unless the other transport is
\* served again and again in its place: nobody waits for a lock that is free or
\* whose owner is stuck.
Other(t) == CHOOSE u \in Thread : u # t

WaitsOnlyWhileOtherServed ==
  \A t \in Thread :
    <>[](pc[t] = "enter" /\ ~Gone) => []<>(lock = Other(t)) /\ []<>(lock = NULL)
=============================================================================
