------------------------------- MODULE Spoold -------------------------------
(***************************************************************************)
(* spoold.exe: the job store served to one pipe client and one TCP client  *)
(* at a time.  Buffer reuse is for the pipe, reprints and the pump are for *)
(* TCP, and the consuming filter is for neither.                           *)
(***************************************************************************)
EXTENDS SpoolCore, ServeLoop

CONSTANT Traffic   \* the requests the clients send, some of Requests below

VARIABLE filters   \* g_filters: the filters that were found at startup

vars == <<spoolVars, serveVars, filters>>

\* A field an operation does not read has one value; an argument one byte too
\* long stands for all that are refused.
Request(op, fmts, jobs, lens, flags) ==
  [op: {op}, fmt: fmts, job: jobs, len: lens, flag: flags]

Requests ==
  UNION {Request("submit",  Filter \cup {NULL}, {0}, Arg, {FALSE}),
         Request("render",  {NULL}, WireId, {0}, {FALSE}),
         Request("append",  {NULL}, WireId, Arg, {FALSE}),
         Request("cancel",  {NULL}, WireId, {0}, {FALSE}),
         Request("status",  {NULL}, {0}, {0}, BOOLEAN),
         Request("recycle", {NULL}, WireId, {0}, {FALSE}),
         Request("dup",     {NULL}, WireId, {0}, {FALSE}),
         Request("flush",   {NULL}, {0}, {0}, {FALSE}),
         Request("bad",     {NULL}, {0}, {1, MaxArg + 1}, {FALSE})}

ASSUME TrafficAssumption == Traffic \subseteq Requests

\* Variant: the consuming filter is loaded as well.
load_every_filter == filters \in SUBSET Filter

load_filters == filters \in SUBSET (Filter \ Consuming)

filter_for(fmt) == IF fmt \in filters THEN fmt ELSE NULL

-----------------------------------------------------------------------------
(* The handlers, up to the reply.                                          *)

h_submit(t) ==
  /\ \E ret \in Id \cup {SPOOL_ERR} : JobSubmit(filter_for(req[t].fmt), req[t].len, ret)
  /\ Then(t, <<"reply">>)

h_render(t) ==
  /\ \E ret \in {SPOOL_OK, SPOOL_ERR} : JobRender(req[t].job, ret)
  /\ Then(t, <<"reply">>)

h_append(t) ==
  /\ \E ret \in {SPOOL_OK, SPOOL_ERR} : JobAppend(req[t].job, req[t].len, ret)
  /\ Then(t, <<"reply">>)

h_cancel(t) ==
  /\ \E ret \in {SPOOL_OK, SPOOL_ERR} : JobCancel(req[t].job, ret)
  /\ Then(t, <<"reply">>)

h_status(t) ==
  /\ JobStatus(req[t].flag /\ t # "tcp")
  /\ Then(t, <<"reply">>)

h_recycle(t) ==
  /\ IF t = "tcp"
     THEN UNCHANGED spoolVars
     ELSE \E ret \in {SPOOL_OK, SPOOL_ERR} : JobRecycle(req[t].job, ret)
  /\ Then(t, <<"reply">>)

h_dup(t) ==
  /\ IF t # "tcp"
     THEN UNCHANGED spoolVars
     ELSE \E ret \in Id \cup {SPOOL_ERR} : JobDup(req[t].job, ret)
  /\ Then(t, <<"reply">>)

h_flush(t) ==
  \/ /\ t # "tcp"
     /\ UNCHANGED spoolVars
     /\ Then(t, <<"reply">>)
  \/ /\ t = "tcp"
     /\ JobFlush
     /\ Then(t, <<"pump", "reply">>)

\* g_ops[req.op]
RunHandler(t) ==
  /\ At(t, "handle")
  /\ \/ req[t].op = "submit"  /\ h_submit(t)
     \/ req[t].op = "render"  /\ h_render(t)
     \/ req[t].op = "append"  /\ h_append(t)
     \/ req[t].op = "cancel"  /\ h_cancel(t)
     \/ req[t].op = "status"  /\ h_status(t)
     \/ req[t].op = "recycle" /\ h_recycle(t)
     \/ req[t].op = "dup"     /\ h_dup(t)
     \/ req[t].op = "flush"   /\ h_flush(t)
  /\ UNCHANGED filters

\* The loop of JobFlush, a job at a time, inside the critical section.
RunPump(t) ==
  /\ At(t, "pump")
  /\ \/ (JobDequeue \/ JobWork) /\ UNCHANGED serveVars
     \/ PumpEnds /\ Then(t, <<>>)
  /\ UNCHANGED filters

-----------------------------------------------------------------------------
Init == SpoolNew /\ ServeInit /\ load_filters

\* The steps of serve around the handlers, which leave the store alone.
Transport(t) ==
  /\ \/ Accept(t)
     \/ \E r \in Traffic : ReadHeader(t, r)
     \/ ReadBody(t)
     \/ Dropped(t)
     \/ RefuseBig(t)
     \/ RefuseOp(t)
  /\ UNCHANGED <<spoolVars, filters>>

Startup ==
  /\ StartTcp \/ PipeFails \/ Drained
  /\ UNCHANGED <<spoolVars, filters>>

Dispatch(t) == Enter(t) /\ UNCHANGED <<spoolVars, filters>>

Answer(t) == Reply(t) /\ UNCHANGED <<spoolVars, filters>>

Finish(t) == Leave(t) /\ UNCHANGED <<spoolVars, filters>>

Gone == fault # "none" \/ Exited

Next ==
  \/ /\ ~Gone
     /\ \/ Startup
        \/ \E t \in Thread : \/ Transport(t) \/ Dispatch(t) \/ RunHandler(t)
                             \/ RunPump(t) \/ Answer(t) \/ Finish(t)
  \/ Gone /\ UNCHANGED vars

Spec == Init /\ [][Next]_vars

\* As in Sessiond: a thread inside the critical section runs on, a reply ends, a
\* lock that stays free is taken, and nothing is assumed of what clients send.
Fairness ==
  \A t \in Thread :
    /\ WF_vars(~Gone /\ (RunHandler(t) \/ RunPump(t) \/ Answer(t) \/ Finish(t)))
    /\ WF_vars(~Gone /\ Dispatch(t))

FairSpec == Spec /\ Fairness

-----------------------------------------------------------------------------
(* Properties.                                                             *)

\* The pump is at work exactly while the TCP thread holds the lock for a FLUSH, so
\* no request of the other transport finds the queue half drained or a job taken
\* off it (h_flush under g_lock).
PumpInsideLock ==
  /\ pumping => lock = "tcp" /\ (At("tcp", "pump") \/ fault # "none")
  /\ taken # NULL => pumping

\* spoold.c: "The consuming text filter is not offered to network/pipe clients":
\* no job is ever rendered by a filter that frees the document under the store.
NeverConsumed ==
  /\ fault # "consumed"
  /\ \A p \in Ptr : job[p] # NULL => job[p].filter \notin Consuming

\* A FLUSH that is answered has left nothing queued, and every id is free again.
FlushedEmpty ==
  \A t \in Thread :
    Inside(t) /\ At(t, "reply") /\ req[t].op = "flush" /\ t = "tcp" /\ fault = "none" =>
      Queue = <<>> /\ count = 0

\* The critical section is always left again, the pump's loop included.
LockReleased == \A t \in Thread : lock = t ~> (lock # t \/ Gone)
=============================================================================
