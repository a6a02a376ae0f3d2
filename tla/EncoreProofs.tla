---------------------------- MODULE EncoreProofs ----------------------------
(***************************************************************************)
(* Proofs about the programs of Encore.  The server: its threads are those *)
(* of sessiond, the pump runs inside the critical section only, the store  *)
(* is sound whatever the two clients ask, no job gets a filter that was    *)
(* not loaded, and a FLUSH that is answered has left nothing.  The batch   *)
(* client: its jobs own what they hold.  For any requests, any batch file, *)
(* any filters and any number of jobs.                                     *)
(***************************************************************************)
EXTENDS Spoold, SpoolC, SpoolCoreProofs, ServeLoopProofs

USE MachineAssumption, ServeAssumption

\* The inductive invariant.
SpooldInv == ServeInv(Traffic) /\ PumpInsideLock

\* The length of a request is one of those it was built from.
LEMMA RequestFields ==
  ASSUME NEW op, NEW fmts, NEW jobs, NEW lens \in SUBSET Nat, NEW flags,
         NEW r \in Request(op, fmts, jobs, lens, flags)
  PROVE  r.len \in Nat
BY DEF Request

\* So every request a client can send announces a number of bytes.
LEMMA RequestLength ==
  ASSUME NEW r \in Traffic
  PROVE  r.len \in Nat
<1>1. r \in Requests
  BY TrafficAssumption
<1>2. Arg \in SUBSET Nat /\ {0} \in SUBSET Nat /\ {1, MaxArg + 1} \in SUBSET Nat
  BY DEF Arg
<1>3. \/ r \in Request("submit",  Filter \cup {NULL}, {0}, Arg, {FALSE})
      \/ r \in Request("render",  {NULL}, WireId, {0}, {FALSE})
      \/ r \in Request("append",  {NULL}, WireId, Arg, {FALSE})
      \/ r \in Request("cancel",  {NULL}, WireId, {0}, {FALSE})
      \/ r \in Request("status",  {NULL}, {0}, {0}, BOOLEAN)
      \/ r \in Request("recycle", {NULL}, WireId, {0}, {FALSE})
      \/ r \in Request("dup",     {NULL}, WireId, {0}, {FALSE})
      \/ r \in Request("flush",   {NULL}, {0}, {0}, {FALSE})
      \/ r \in Request("bad",     {NULL}, {0}, {1, MaxArg + 1}, {FALSE})
  BY <1>1 DEF Requests
<1> QED
  BY <1>2, <1>3, RequestFields

\* Retiring a job starts and ends no pump, and at most puts down what it had taken.
LEMMA RetireKeepsPump ==
  ASSUME NEW p, NEW named, RenderAndRetire(p, named)
  PROVE  pumping' = pumping /\ taken' \in {taken, NULL}
BY DEF RenderAndRetire, JobRetire, Crash

\* A request other than FLUSH starts no pump and takes no job.
LEMMA HandlerKeepsPump ==
  ASSUME NEW t \in Thread, taken = NULL, ~pumping,
         h_submit(t) \/ h_render(t) \/ h_append(t) \/ h_cancel(t) \/ h_status(t)
         \/ h_recycle(t) \/ h_dup(t)
  PROVE  ~pumping' /\ taken' = NULL /\ Then(t, <<"reply">>)
<1>1. CASE h_submit(t)
  BY <1>1 DEF h_submit, JobSubmit, AddJob, spoolVars
<1>2. CASE h_render(t)
  BY <1>2, RetireKeepsPump DEF h_render, JobRender, NoJob, StaleJob, Crash, spoolVars
<1>3. CASE h_append(t)
  BY <1>3 DEF h_append, JobAppend, NoJob, StaleJob, Crash, spoolVars
<1>4. CASE h_cancel(t)
  BY <1>4 DEF h_cancel, JobCancel, NoJob, StaleJob, Crash, spoolVars
<1>5. CASE h_status(t)
  BY <1>5 DEF h_status, JobStatus, Crash, spoolVars
<1>6. CASE h_recycle(t)
  BY <1>6 DEF h_recycle, JobRecycle, NoJob, StaleJob, Crash, spoolVars
<1>7. CASE h_dup(t)
  BY <1>7 DEF h_dup, JobDup, AddJob, NoJob, StaleJob, Crash, spoolVars
<1> QED
  BY <1>1, <1>2, <1>3, <1>4, <1>5, <1>6, <1>7

\* A thread that is not at the pump's step meets no pump at work.
LEMMA PumpIdle ==
  ASSUME SpooldInv, fault = "none", lock # "tcp" \/ ~At("tcp", "pump")
  PROVE  ~pumping /\ taken = NULL
BY DEF SpooldInv, PumpInsideLock

\* A handler runs with no pump at work, and FLUSH alone starts one.
LEMMA HandlerInv ==
  ASSUME SpooldInv, fault = "none", NEW t \in Thread, RunHandler(t)
  PROVE  SpooldInv'
<1>1. At(t, "handle") /\ lock = t
  BY DEF RunHandler, SpooldInv, ServeInv, LockDiscipline, Inside, At
<1>2. ~pumping /\ taken = NULL
  BY <1>1, PumpIdle DEF At
<1>3. <<"reply">> \in Seq(Step) /\ <<"pump", "reply">> \in Seq(Step)
  <2>1. "reply" \in Step /\ "pump" \in Step
    BY DEF Step
  <2> QED
    BY <2>1
<1>4. CASE h_flush(t) /\ t = "tcp"
  <2>1. Then(t, <<"pump", "reply">>) /\ JobFlush
    BY <1>4 DEF h_flush
  <2>2. /\ ServeInv(Traffic)' /\ lock' = t /\ pc' = pc
        /\ todo' = [todo EXCEPT ![t] = <<"pump", "reply">> \o Tail(todo[t])]
    BY <1>1, <1>3, <2>1, ThenInv DEF SpooldInv
  <2>3. todo'[t] # <<>> /\ Head(todo'[t]) = "pump"
    <3>1. Tail(todo[t]) \in Seq(Step) /\ todo'[t] = <<"pump", "reply">> \o Tail(todo[t])
      BY <1>1, <2>2 DEF SpooldInv, ServeInv, ServeTypeOK, At
    <3>2. Len(todo'[t]) > 0 /\ todo'[t][1] = "pump" /\ todo'[t] \in Seq(Step)
      BY <1>3, <3>1
    <3> QED
      BY <3>2
  <2>4. At("tcp", "pump")'
    BY <1>1, <1>4, <2>2, <2>3 DEF At
  <2>5. taken' = NULL
    BY <1>2, <2>1 DEF JobFlush
  <2> QED
    BY <1>4, <2>2, <2>4, <2>5 DEF SpooldInv, PumpInsideLock
<1>5. CASE ~(h_flush(t) /\ t = "tcp")
  <2>1. ~pumping' /\ taken' = NULL /\ Then(t, <<"reply">>)
    <3>1. CASE h_flush(t)
      BY <1>2, <1>5, <3>1 DEF h_flush, spoolVars
    <3> QED
      BY <1>2, <3>1, HandlerKeepsPump DEF RunHandler
  <2>2. ServeInv(Traffic)'
    BY <1>1, <1>3, <2>1, ThenInv DEF SpooldInv
  <2> QED
    BY <2>1, <2>2 DEF SpooldInv, PumpInsideLock
<1> QED
  BY <1>4, <1>5

\* The pump's own steps: only the last of them moves the thread on.
LEMMA PumpInv ==
  ASSUME SpooldInv, fault = "none", NEW t \in Thread, RunPump(t)
  PROVE  SpooldInv'
<1>1. CASE (JobDequeue \/ JobWork) /\ UNCHANGED serveVars
  <2>1. pumping /\ lock = "tcp" /\ At("tcp", "pump")
    BY <1>1 DEF JobDequeue, JobWork, SpooldInv, PumpInsideLock
  <2>2. ServeInv(Traffic)'
    BY <1>1, ServeStutterInv DEF SpooldInv
  <2>3. pumping' = pumping
    BY <1>1, RetireKeepsPump DEF JobDequeue, JobWork, DropCancelled, Crash
  <2>4. lock' = "tcp" /\ At("tcp", "pump")'
    BY <1>1, <2>1 DEF At, serveVars
  <2> QED
    BY <2>1, <2>2, <2>3, <2>4 DEF SpooldInv, PumpInsideLock
<1>2. CASE PumpEnds /\ Then(t, <<>>)
  <2>1. ServeInv(Traffic)'
    <3>1. <<>> \in Seq(Step)
      OBVIOUS
    <3> QED
      BY <1>2, <3>1, ThenInv DEF SpooldInv, RunPump
  <2>2. ~pumping' /\ taken' = NULL
    BY <1>2 DEF PumpEnds
  <2> QED
    BY <2>1, <2>2 DEF SpooldInv, PumpInsideLock
<1> QED
  BY <1>1, <1>2 DEF RunPump

\* Every other step starts outside the critical section, or at a reply, or at its
\* end, so while a pump is at work no such step is taken by the thread it runs on.
LEMMA AroundInv ==
  ASSUME SpooldInv, fault = "none", NEW t \in Thread,
         Transport(t) \/ Dispatch(t) \/ Answer(t) \/ Finish(t)
  PROVE  SpooldInv'
<1>1. ServeInv(Traffic)'
  <2>1. CASE Transport(t)
    BY <2>1, AcceptInv, ReadHeaderInv, ReadBodyInv, TurnedAwayInv, RequestLength
       DEF SpooldInv, Transport
  <2>2. CASE Answer(t)
    <3>1. <<>> \in Seq(Step)
      OBVIOUS
    <3> QED
      BY <2>2, <3>1, ThenInv DEF SpooldInv, Answer, Reply
  <2>3. CASE Dispatch(t) \/ Finish(t)
    BY <2>3, EnterInv, LeaveInv DEF SpooldInv, Dispatch, Finish
  <2> QED
    BY <2>1, <2>2, <2>3
<1>2. UNCHANGED spoolVars
  BY DEF Transport, Dispatch, Answer, Finish
<1>3. CASE ~pumping
  BY <1>1, <1>2, <1>3 DEF SpooldInv, PumpInsideLock, spoolVars
<1>4. CASE pumping
  <2>1. lock = "tcp" /\ At("tcp", "pump")
    BY <1>4 DEF SpooldInv, PumpInsideLock
  <2>2. t # "tcp" /\ Transport(t)
    <3>1. ~Dispatch(t)
      BY <2>1 DEF Dispatch, Enter, Acquire, Thread
    <3>2. ~Answer(t) /\ ~Finish(t)
      BY <2>1 DEF Answer, Reply, Finish, Leave, At, SpooldInv, ServeInv, LockDiscipline, Inside
    <3>3. ~(t = "tcp" /\ Transport(t))
      BY <2>1 DEF Transport, Accept, ReadHeader, ReadBody, Dropped, RefuseBig, RefuseOp, At
    <3> QED
      BY <3>1, <3>2, <3>3
  <2>3. lock' = lock /\ todo' = todo /\ pc'["tcp"] = pc["tcp"]
    <3>1. \E where : pc' = [pc EXCEPT ![t] = where]
      BY <2>2 DEF Transport, Accept, ReadHeader, ReadBody, Dropped, RefuseBig, RefuseOp, Goto,
                  Hangup
    <3>2. lock' = lock /\ todo' = todo
      BY <2>2 DEF Transport, Accept, ReadHeader, ReadBody, Dropped, RefuseBig, RefuseOp
    <3> QED
      BY <2>2, <3>1, <3>2 DEF SpooldInv, ServeInv, ServeTypeOK, Thread
  <2>4. lock' = "tcp" /\ At("tcp", "pump")'
    BY <2>1, <2>3 DEF At
  <2> QED
    BY <1>1, <1>2, <1>4, <2>4 DEF SpooldInv, PumpInsideLock, spoolVars
<1> QED
  BY <1>3, <1>4

\* Every step of the server preserves the invariant.
LEMMA NextInv ==
  ASSUME SpooldInv, [Next]_vars
  PROVE  SpooldInv'
<1>1. CASE UNCHANGED vars
  BY <1>1, ServeStutterInv DEF SpooldInv, PumpInsideLock, At, vars, spoolVars, serveVars
<1>2. CASE ~Gone /\ Startup
  <2>1. ServeInv(Traffic)' /\ UNCHANGED <<spoolVars, lock, todo>>
    BY <1>2, StartupInv DEF SpooldInv, Startup, StartTcp, PipeFails, Drained
  <2>2. pc["tcp"] = "locked" => pc'["tcp"] = pc["tcp"]
    <3>1. \E t \in Thread : \E where : (pc' = [pc EXCEPT ![t] = where] /\ pc[t] # "locked")
      BY <1>2 DEF Startup, StartTcp, PipeFails, Drained, Goto, Thread
    <3> QED
      BY <3>1 DEF SpooldInv, ServeInv, ServeTypeOK, Thread
  <2> QED
    BY <2>1, <2>2 DEF SpooldInv, PumpInsideLock, At, spoolVars
<1>3. ASSUME ~Gone, NEW t \in Thread,
             \/ Transport(t) \/ Dispatch(t) \/ RunHandler(t)
             \/ RunPump(t) \/ Answer(t) \/ Finish(t)
      PROVE  SpooldInv'
  BY <1>3, AroundInv, HandlerInv, PumpInv DEF Gone
<1> QED
  BY <1>1, <1>2, <1>3 DEF Next

\* Two threads outside the critical section, and no pump.
LEMMA InitInv == Init => SpooldInv
<1> SUFFICES ASSUME Init PROVE SpooldInv
  OBVIOUS
<1> QED
  BY ServeInitInv DEF Init, SpoolNew, SpooldInv, PumpInsideLock

-----------------------------------------------------------------------------
(* The store in the hands of the server.                                   *)

\* The filters found at startup, none of them consuming (load_filters).
Loaded == filters \in SUBSET (Filter \ Consuming)

StoreInv == SpoolInv /\ Loaded /\ NeverConsumed

\* A request names a job the store can be asked for (ReadHeader, serve).
LEMMA RequestJob ==
  ASSUME NEW r \in Traffic
  PROVE  r.job \in WireId
<1>1. r \in Requests
  BY TrafficAssumption
<1>2. 0 \in WireId
  BY SpoolCoreAssumption DEF WireId, SPOOL_RECENT
<1>3. \A op, fmts, jobs, lens, flags :
        jobs \subseteq WireId /\ r \in Request(op, fmts, jobs, lens, flags) => r.job \in WireId
  BY DEF Request
<1> QED
  BY <1>1, <1>2, <1>3 DEF Requests

\* A handler makes one call, with a filter that was loaded, or none.
LEMMA HandlerCalls ==
  ASSUME SpooldInv, fault = "none", NEW t \in Thread, RunHandler(t)
  PROVE  ~pumping /\ (Calls(filters) \/ UNCHANGED spoolVars)
<1>1. At(t, "handle") /\ lock = t
  BY DEF RunHandler, SpooldInv, ServeInv, LockDiscipline, Inside, At
<1>2. ~pumping
  BY <1>1, PumpIdle DEF At
<1>3. req[t].job \in WireId /\ req[t].len \in Arg
  BY <1>1, RequestJob DEF SpooldInv, ServeInv, RequestInHand, Serving, At
<1>4. filter_for(req[t].fmt) \in filters \cup {NULL}
  BY DEF filter_for
<1>5. CASE h_submit(t)
  BY <1>2, <1>3, <1>4, <1>5 DEF h_submit, Calls
<1>6. CASE h_render(t) \/ h_append(t) \/ h_cancel(t) \/ h_recycle(t)
  BY <1>2, <1>3, <1>6 DEF h_render, h_append, h_cancel, h_recycle, Calls
<1>7. CASE h_status(t)
  <2>1. (req[t].flag /\ t # "tcp") \in BOOLEAN
    OBVIOUS
  <2> QED
    BY <1>2, <1>7, <2>1 DEF h_status, Calls
<1>8. CASE h_dup(t) \/ h_flush(t)
  BY <1>2, <1>3, <1>8 DEF h_dup, h_flush, Calls
<1> QED
  BY <1>2, <1>5, <1>6, <1>7, <1>8 DEF RunHandler

\* So what a step of the server does to the store is of one of the kinds.
LEMMA ServerKinds ==
  ASSUME SpooldInv, StoreInv, [Next]_vars
  PROVE  Kinds(filters) /\ UNCHANGED filters
<1>1. CASE UNCHANGED <<spoolVars, filters>>
  BY <1>1, StutterKind DEF StoreInv, Kinds
<1>2. ASSUME ~Gone, NEW t \in Thread, RunHandler(t)
      PROVE  Kinds(filters) /\ UNCHANGED filters
  <2>1. ~pumping /\ (Calls(filters) \/ UNCHANGED spoolVars)
    BY <1>2, HandlerCalls DEF Gone
  <2>2. filters \in SUBSET Filter
    BY DEF StoreInv, Loaded
  <2>3. UNCHANGED filters
    BY <1>2 DEF RunHandler
  <2> QED
    BY <1>1, <2>1, <2>2, <2>3, CallKind DEF StoreInv
<1>3. ASSUME ~Gone, NEW t \in Thread, RunPump(t)
      PROVE  Kinds(filters) /\ UNCHANGED filters
  BY <1>3, PumpKind DEF RunPump, StoreInv
<1>4. \/ UNCHANGED <<spoolVars, filters>>
      \/ ~Gone /\ \E t \in Thread : RunHandler(t) \/ RunPump(t)
  BY DEF Next, Startup, Transport, Dispatch, Answer, Finish, vars
<1> QED
  BY <1>1, <1>2, <1>3, <1>4

\* No kind of step brings a job a filter that was not loaded, or runs one.
LEMMA KindsNeverConsume ==
  ASSUME StoreInv, Kinds(filters)
  PROVE  NeverConsumed'
<1>1. \A p \in Live : job[p].filter \notin Consuming
  BY DEF StoreInv, NeverConsumed, Live
<1>2. filters \cap Consuming = {} /\ fault # "consumed" /\ SpoolInv
  BY DEF StoreInv, Loaded, NeverConsumed
<1>3. CASE Still
  BY <1>1, <1>2, <1>3 DEF Still, NeverConsumed, Live
<1>4. CASE (\E p \in Ptr : Recycled(p)) \/ JobFlush \/ PumpEnds
  BY <1>1, <1>2, <1>4 DEF Recycled, JobFlush, PumpEnds, NeverConsumed, Live
<1>5. ASSUME NEW p \in Ptr, Retired(p) PROVE NeverConsumed'
  <2>1. PICK n \in Nat : \E q \in [1 .. n -> Ptr] : ListIs(n, q)
    BY <1>2 DEF SpoolInv, Linked
  <2>2. PICK q \in [1 .. n -> Ptr] : ListIs(n, q)
    BY <2>1
  <2>3. job[p] # NULL /\ taken \in {p, NULL} /\ UnlinkAndFree(p) /\ taken' = NULL /\ fault' = fault
    BY <1>5 DEF Retired, Live
  <2>4. /\ job'[p] = NULL
        /\ \A x \in Ptr : x # p => /\ job'[x] = NULL <=> job[x] = NULL
                                   /\ job[x] # NULL => job'[x].filter = job[x].filter
    BY <1>2, <2>2, <2>3, UnlinkedIs
  <2> QED
    BY <1>1, <1>2, <2>3, <2>4 DEF NeverConsumed, Live
<1>6. ASSUME NEW p \in Ptr, NEW new \in Job, Rewritten(p, new) PROVE NeverConsumed'
  <2>1. job' = [job EXCEPT ![p] = new] /\ new.filter = job[p].filter /\ p \in Live /\ fault' = fault
    BY <1>6 DEF Rewritten
  <2>2. \A x \in Ptr : x # p => job'[x] = job[x]
    BY <2>1 DEF Live, SpoolInv, SpoolTypeOK
  <2>3. job'[p] = new
    BY <1>2, <2>1 DEF SpoolInv, SpoolTypeOK
  <2> QED
    BY <1>1, <1>2, <2>1, <2>2, <2>3 DEF NeverConsumed, Live
<1>7. ASSUME NEW p \in Ptr, NEW ret \in Id, NEW j \in Job, NEW b \in Buf,
             Added(filters, p, ret, j, b)
      PROVE  NeverConsumed'
  <2>1. /\ job'[p] = j
        /\ \A x \in Ptr : x # p => /\ job'[x] = NULL <=> job[x] = NULL
                                   /\ job[x] # NULL => job'[x].filter = job[x].filter
    BY <1>2, <1>7, AddedIs
  <2>2. j.filter \notin Consuming /\ fault' = fault
    BY <1>1, <1>2, <1>7 DEF Added, AddJob
  <2> QED
    BY <1>1, <1>2, <2>1, <2>2 DEF NeverConsumed, Live
<1>8. CASE JobDequeue
  <2>1. PICK n \in Nat : \E q \in [1 .. n -> Ptr] : ListIs(n, q)
    BY <1>2 DEF SpoolInv, Linked
  <2>2. PICK q \in [1 .. n -> Ptr] : ListIs(n, q)
    BY <2>1
  <2>3. qhead \in Ptr /\ job' = [job EXCEPT ![qhead].qnext = NULL] /\ fault' = fault
    BY <1>2, <1>8, <2>2, DequeuedIs
  <2>4. job \in [Ptr -> Job \cup {NULL}]
    BY <1>2 DEF SpoolInv, SpoolTypeOK
  <2>5. job[qhead] \in Job
    BY <1>2, <1>8, <2>2, <2>3, <2>4, DequeuedIs
  <2>6. \A x \in Ptr : /\ job'[x] = NULL => job[x] = NULL \/ x = qhead
                       /\ job[x] # NULL => job'[x].filter = job[x].filter
                       /\ job[x] = NULL => job'[x] = NULL
    BY <2>3, <2>4, <2>5, SpoolCoreAssumption DEF Job
  <2> QED
    BY <1>1, <1>2, <2>3, <2>6 DEF NeverConsumed, Live
<1> QED
  BY <1>3, <1>4, <1>5, <1>6, <1>7, <1>8 DEF Kinds

\* With nothing queued and nothing taken no job is left, and every id is free.
LEMMA NothingQueued ==
  ASSUME SpoolInv, qhead = NULL, taken = NULL
  PROVE  count = 0
<1>1. PICK n \in Nat : \E q \in [1 .. n -> Ptr] : ListIs(n, q)
  BY DEF SpoolInv, Linked
<1>2. PICK q \in [1 .. n -> Ptr] : ListIs(n, q)
  BY <1>1
<1>3. n = 0
  <2>1. n # 0 => 1 \in 1 .. n /\ q[1] \in Ptr
    OBVIOUS
  <2> QED
    BY <1>2, <2>1, SpoolCoreAssumption DEF ListIs
<1>4. \A p \in Ptr : job[p] = NULL
  <2>1. \A i \in 1 .. n : FALSE
    BY <1>3
  <2>2. \A p \in Ptr : (\E i \in 1 .. n : q[i] = p) <=> (job[p] # NULL /\ p # taken)
    BY <1>2 DEF ListIs
  <2> QED
    BY <2>1, <2>2, SpoolCoreAssumption
<1>5. \A i \in Id : slots[i] = NULL
  BY <1>4 DEF SpoolInv, SpoolTypeOK, Link, JobTableConsistent, JobsNumbered
<1>6. {i \in Id : slots[i] # NULL} = {}
  BY <1>5
<1>7. count = Cardinality({})
  BY <1>6 DEF SpoolInv, JobTableConsistent, JobsCounted
<1> QED
  BY <1>7, FS_EmptySet

\* The TCP thread is about to answer a FLUSH.
Flushed == At("tcp", "reply") /\ req["tcp"].op = "flush" /\ fault = "none"

FlushDone == Flushed => qhead = NULL /\ count = 0

\* Only the end of the pump leads to that answer, and nobody comes between.
LEMMA FlushDoneKept ==
  ASSUME SpooldInv, SpoolInv, FlushDone, [Next]_vars
  PROVE  FlushDone'
<1>1. CASE UNCHANGED spoolVars /\ (Flushed' => Flushed)
  BY <1>1 DEF FlushDone, spoolVars
<1>2. "tcp" \in Thread /\ lock \in Thread \cup {NULL}
      /\ pc \in [Thread -> {"start", "exit", "gone", "listen", "drain", "read", "big", "body",
                            "badop", "enter", "locked"}]
      /\ todo \in [Thread -> Seq(Step)] /\ DOMAIN req = Thread
  BY DEF Thread, SpooldInv, ServeInv, ServeTypeOK, RequestInHand
<1>3. CASE UNCHANGED vars
  BY <1>1, <1>3 DEF vars, serveVars, spoolVars, Flushed, At
<1>4. CASE Startup
  <2>1. UNCHANGED <<spoolVars, todo, req>>
    BY <1>4 DEF Startup, StartTcp, PipeFails, Drained
  <2>2. pc'["tcp"] = "locked" => pc["tcp"] = "locked"
    BY <1>2, <1>4 DEF Startup, StartTcp, PipeFails, Drained, Goto
  <2> QED
    BY <1>1, <2>1, <2>2 DEF Flushed, At, spoolVars
<1>5. ASSUME NEW t \in Thread, Transport(t) \/ Dispatch(t) \/ Answer(t) \/ Finish(t)
      PROVE  FlushDone'
  <2>1. UNCHANGED spoolVars
    BY <1>5 DEF Transport, Dispatch, Answer, Finish
  <2>2. CASE t # "tcp"
    <3>1. pc'["tcp"] = pc["tcp"] /\ todo'["tcp"] = todo["tcp"] /\ req'["tcp"] = req["tcp"]
      BY <1>2, <1>5, <2>2
         DEF Transport, Accept, ReadHeader, ReadBody, Dropped, RefuseBig, RefuseOp, Goto, Hangup,
             Dispatch, Enter, Answer, Reply, Then, Finish, Leave
    <3> QED
      BY <1>1, <2>1, <3>1 DEF Flushed, At, spoolVars
  <2>3. CASE t = "tcp" /\ (Transport(t) \/ Finish(t))
    <3>1. pc'["tcp"] # "locked"
      BY <1>2, <2>3
         DEF Transport, Accept, ReadHeader, ReadBody, Received, Dropped, RefuseBig, RefuseOp, Goto,
             Hangup, Finish, Leave
    <3> QED
      BY <3>1 DEF FlushDone, Flushed, At
  <2>4. CASE t = "tcp" /\ Dispatch(t)
    <3>1. todo'["tcp"] = <<"handle">>
      BY <1>2, <2>4 DEF Dispatch, Enter
    <3>2. Head(<<"handle">>) = "handle"
      OBVIOUS
    <3> QED
      BY <3>1, <3>2 DEF FlushDone, Flushed, At
  <2>5. CASE t = "tcp" /\ Answer(t)
    <3>1. At("tcp", "reply") /\ req' = req
      BY <2>5 DEF Answer, Reply, Then
    <3> QED
      BY <1>1, <2>1, <3>1 DEF Flushed, spoolVars
  <2> QED
    BY <1>5, <2>2, <2>3, <2>4, <2>5
<1>6. ASSUME NEW t \in Thread, fault = "none", RunHandler(t) \/ RunPump(t) PROVE FlushDone'
  <2>1. lock = t /\ pc[t] = "locked" /\ todo[t] # <<>> /\ Head(todo[t]) \in {"handle", "pump"}
    BY <1>6 DEF RunHandler, RunPump, At, SpooldInv, ServeInv, LockDiscipline, Inside
  <2>2. pc' = pc /\ req' = req
    BY <1>6 DEF RunHandler, RunPump, h_submit, h_render, h_append, h_cancel, h_status, h_recycle,
                h_dup, h_flush, Then, serveVars
  <2>3. CASE t # "tcp"
    <3>1. pc["tcp"] # "locked"
      BY <1>2, <2>1, <2>3 DEF SpooldInv, ServeInv, LockDiscipline, Inside
    <3> QED
      BY <2>2, <3>1 DEF FlushDone, Flushed, At
  <2>4. CASE t = "tcp" /\ RunHandler(t)
    <3>1. CASE h_flush(t)
      <4>1. todo'["tcp"] = <<"pump", "reply">> \o Tail(todo["tcp"])
        BY <1>2, <2>4, <3>1 DEF h_flush, Then
      <4>2. Tail(todo["tcp"]) \in Seq(Step) /\ <<"pump", "reply">> \in Seq(Step)
        BY <1>2, <2>1, <2>4 DEF Step
      <4>3. Head(todo'["tcp"]) = "pump"
        BY <4>1, <4>2
      <4> QED
        BY <4>3 DEF FlushDone, Flushed, At
    <3>2. CASE req[t].op # "flush"
      BY <2>2, <2>4, <3>2 DEF FlushDone, Flushed
    <3> QED
      BY <2>4, <3>1, <3>2 DEF RunHandler
  <2>5. CASE t = "tcp" /\ RunPump(t) /\ ~PumpEnds
    <3>1. todo' = todo /\ Head(todo["tcp"]) = "pump"
      BY <2>5 DEF RunPump, serveVars, At
    <3> QED
      BY <3>1 DEF FlushDone, Flushed, At
  <2>6. CASE PumpEnds
    <3>1. count = 0
      BY <2>6, NothingQueued DEF PumpEnds
    <3> QED
      BY <2>6, <3>1 DEF PumpEnds, FlushDone
  <2> QED
    BY <1>6, <2>3, <2>4, <2>5, <2>6
<1> QED
  BY <1>3, <1>4, <1>5, <1>6 DEF Next, Gone

\* Nothing is in the store, and nobody is answered, to begin with.
LEMMA StoreInitInv ==
  ASSUME Init
  PROVE  StoreInv /\ FlushDone
<1>1. SpoolInv
  BY SpoolNewInv DEF Init
<1>2. Loaded /\ NeverConsumed
  BY DEF Init, load_filters, Loaded, NeverConsumed, SpoolNew
<1>3. FlushDone
  BY DEF Init, SpoolNew, FlushDone
<1> QED
  BY <1>1, <1>2, <1>3 DEF StoreInv

-----------------------------------------------------------------------------
(* The batch client: every record is one call or none, so a batch is a use *)
(* of the store, and one that shares no block between its jobs.            *)

BatchRecord == [op: OpName, fmt: Filter \cup {NULL}, job: WireId,
                len: 0 .. MaxArg + 1, flag: BOOLEAN]

\* While a record is carried out, it is one whose length was accepted.
BatchAccepted ==
  /\ stage = "body" => rec \in BatchRecord /\ rec.len \in Arg
  /\ found \in SUBSET Filter

LEMMA BatchAcceptedInvariant == BatchSpec => []BatchAccepted
<1>1. BatchInit => BatchAccepted
  BY DEF BatchInit, BatchAccepted
<1>2. BatchAccepted /\ [BatchNext]_batchVars => BatchAccepted'
  <2> SUFFICES ASSUME BatchAccepted, [BatchNext]_batchVars PROVE BatchAccepted'
    OBVIOUS
  <2>1. CASE ReadRecord
    <3>1. PICK r \in Records : r.len <= MaxArg /\ rec' = r
      BY <2>1 DEF ReadRecord
    <3>2. r \in BatchRecord
      BY BatchAssumption DEF BatchRecord
    <3>3. r.len \in Arg
      BY <3>1, <3>2 DEF BatchRecord, Arg
    <3> QED
      BY <2>1, <3>1, <3>2, <3>3 DEF ReadRecord, BatchAccepted
  <2>2. CASE ReadBatchHeader \/ EndBatch \/ Truncated \/ CarryOut
    BY <2>2 DEF ReadBatchHeader, EndBatch, Truncated, CarryOut, BatchAccepted
  <2>3. CASE UNCHANGED batchVars
    BY <2>3 DEF batchVars, BatchAccepted
  <2> QED
    BY <2>1, <2>2, <2>3 DEF BatchNext, Work
<1> QED
  BY <1>1, <1>2, PTL DEF BatchSpec

\* A step of the client leaves the store alone or carries out one record.
LEMMA BatchSteps ==
  ASSUME [BatchNext]_batchVars, BatchAccepted
  PROVE  \/ UNCHANGED spoolVars
         \/ /\ fault = "none" /\ Operation
            /\ rec.job \in WireId /\ rec.len \in Arg /\ rec.flag \in BOOLEAN
            /\ found_for(rec.fmt) \in found \cup {NULL} /\ found \in SUBSET Filter
<1>1. \/ UNCHANGED spoolVars
      \/ ~Done /\ CarryOut
  BY DEF BatchNext, Work, ReadBatchHeader, EndBatch, ReadRecord, Truncated, batchVars
<1>2. CASE ~Done /\ CarryOut
  <2>1. fault = "none" /\ Operation /\ rec \in BatchRecord /\ rec.len \in Arg
        /\ found \in SUBSET Filter
    BY <1>2 DEF Done, CarryOut, BatchAccepted
  <2>2. rec.job \in WireId /\ rec.flag \in BOOLEAN
    BY <2>1 DEF BatchRecord
  <2> QED
    BY <2>1, <2>2 DEF found_for
<1> QED
  BY <1>1, <1>2

\* A batch is one use of the job store, whatever the file holds: a record is one call
\* of its API and nothing else touches it (wmain of spoolc.c).
THEOREM BatchUsesStore == BatchSpec => SpoolSpec
<1>1. BatchInit => SpoolNew /\ ~pumping
  BY DEF BatchInit, SpoolNew
<1>2. BatchAccepted /\ ~pumping /\ [BatchNext]_batchVars => [SpoolNext]_spoolVars /\ ~pumping'
  <2> SUFFICES ASSUME BatchAccepted, ~pumping, [BatchNext]_batchVars, ~UNCHANGED spoolVars
               PROVE  Call /\ ~pumping'
    BY DEF SpoolNext, spoolVars
  <2>1. /\ fault = "none" /\ Operation
        /\ rec.job \in WireId /\ rec.len \in Arg /\ rec.flag \in BOOLEAN
        /\ found_for(rec.fmt) \in Filter \cup {NULL}
    BY BatchSteps
  <2>2. CASE \E ret \in Id \cup {SPOOL_ERR} : JobSubmit(found_for(rec.fmt), rec.len, ret)
    BY <2>1, <2>2 DEF Call, JobSubmit, AddJob, spoolVars
  <2>3. CASE \E ret \in {SPOOL_OK, SPOOL_ERR} : JobRender(rec.job, ret)
    <3>1. ~pumping'
      BY <2>3 DEF JobRender, NoJob, StaleJob, Crash, RenderAndRetire, JobRetire, spoolVars
    <3> QED
      BY <2>1, <2>3, <3>1 DEF Call
  <2>4. CASE \E ret \in {SPOOL_OK, SPOOL_ERR} : JobAppend(rec.job, rec.len, ret)
    <3>1. ~pumping'
      BY <2>4 DEF JobAppend, NoJob, StaleJob, Crash, spoolVars
    <3> QED
      BY <2>1, <2>4, <3>1 DEF Call
  <2>5. CASE \E ret \in {SPOOL_OK, SPOOL_ERR} : JobCancel(rec.job, ret)
    <3>1. ~pumping'
      BY <2>5 DEF JobCancel, NoJob, StaleJob, Crash, spoolVars
    <3> QED
      BY <2>1, <2>5, <3>1 DEF Call
  <2>6. CASE JobStatus(rec.flag)
    BY <2>1, <2>6 DEF Call, JobStatus, Crash, spoolVars
  <2> QED
    BY <2>1, <2>2, <2>3, <2>4, <2>5, <2>6 DEF Operation
<1> QED
  BY <1>1, <1>2, BatchAcceptedInvariant, PTL DEF BatchSpec, SpoolSpec

\* The store stays consistent through any batch, so does its queue.
THEOREM BatchKeepsStore == BatchSpec => []SpoolInv
BY BatchUsesStore, SpoolInvariant, PTL

\* No block is kept, no metadata shared, no pump at work, and only two faults happen.
Unshared ==
  /\ ~pumping
  /\ scratch = NULL
  /\ \A p \in Live : job[p].meta # NULL =>
       job[p].meta \in metas /\ \A q \in Live : job[q].meta = job[p].meta => p = q
  /\ fault \in {"none", "consumed", "moved"}

\* A job's document is where the job says it is.
LEMMA DocumentThere ==
  ASSUME SpoolInv, Unshared, NEW p \in Live
  PROVE  buf[job[p].data] = job[p].cap /\ buf[job[p].data] # NULL
<1>1. p \in Ptr /\ job[p] \in Job /\ buf[job[p].data] = job[p].cap
  BY DEF Live, Unshared, SpoolInv, SpoolTypeOK, DocumentsOwned
<1>2. job[p].cap \in DocCap /\ Greater(MaxDoc, MinCap) \in Int
  BY <1>1, SpoolCoreAssumption DEF Job, Greater
<1>3. job[p].cap \in Int
  BY <1>2 DEF DocCap
<1> QED
  BY <1>1, <1>3

\* RENDER faults on nothing but a filter that consumes the document.
LEMMA BatchRender ==
  ASSUME SpoolInv, Unshared, fault = "none", NEW id \in WireId, NEW ret, JobRender(id, ret)
  PROVE  /\ Still \/ \E p \in Ptr : Retired(p)
         /\ fault' \in {"none", "consumed"}
<1>1. taken = NULL /\ ~pumping
  BY DEF Unshared, SpoolInv, TakenLive
<1>2. Still \/ \E p \in Ptr : Retired(p)
  BY <1>1, JobRenderKind
<1>3. CASE NoJob(id, ret)
  BY <1>2, <1>3 DEF NoJob, spoolVars
<1>4. CASE LiveJob(id) /\ RenderAndRetire(JobGet(id), JobGet(id))
  <2>1. JobGet(id) \in Live
    BY <1>4, FoundIs
  <2>2. /\ buf[job[JobGet(id)].data] # NULL
        /\ job[JobGet(id)].meta # NULL => job[JobGet(id)].meta \in metas
    BY <2>1, DocumentThere DEF Unshared
  <2>3. fault' \in {fault, "consumed"}
    BY <1>4, <2>2 DEF RenderAndRetire, Readable, JobRetire, Crash
  <2> QED
    BY <1>2, <2>3
<1> QED
  BY <1>3, <1>4, NeverStale DEF JobRender

\* APPEND faults on nothing but a realloc that moves the block.
LEMMA BatchAppend ==
  ASSUME SpoolInv, Unshared, fault = "none", NEW id \in WireId, NEW len \in Arg, NEW ret,
         JobAppend(id, len, ret)
  PROVE  /\ Still \/ \E p \in Ptr, new \in Job : Rewritten(p, new)
         /\ fault' \in {"none", "moved"}
<1>1. Still \/ \E p \in Ptr, new \in Job : Rewritten(p, new)
  BY AppendKind DEF Arg
<1>2. CASE NoJob(id, ret)
  BY <1>1, <1>2 DEF NoJob, spoolVars
<1>3. CASE LiveJob(id) /\ ~NoJob(id, ret) /\ ~StaleJob(id)
  <2>1. JobGet(id) \in Live
    BY <1>3, FoundIs
  <2>2. buf[job[JobGet(id)].data] # NULL
    BY <2>1, DocumentThere
  <2>3. fault' \in {fault, "moved"}
    BY <1>3, <2>2 DEF JobAppend, AppendTo
  <2> QED
    BY <1>1, <2>3
<1> QED
  BY <1>2, <1>3, NeverStale DEF JobAppend

\* What an operation of the client does to the store.
LEMMA BatchOperation ==
  ASSUME SpoolInv, Unshared, fault = "none", Operation,
         rec.job \in WireId, rec.len \in Arg, rec.flag \in BOOLEAN,
         found_for(rec.fmt) \in found \cup {NULL}, found \in SUBSET Filter
  PROVE  /\ \/ Still
            \/ \E p \in Ptr : Retired(p)
            \/ \E p \in Ptr, new \in Job : Rewritten(p, new)
            \/ \E p \in Ptr, id \in Id, j \in Job, b \in Buf :
                 Added(found, p, id, j, b) /\ MetaFresh(j)
         /\ fault' \in {"none", "consumed", "moved"}
<1>1. taken = NULL /\ ~pumping /\ rec.len \in Nat
  BY DEF Unshared, SpoolInv, TakenLive, Arg
<1>2. CASE \E ret \in Id \cup {SPOOL_ERR} : JobSubmit(found_for(rec.fmt), rec.len, ret)
  <2>1. \/ UNCHANGED spoolVars
        \/ \E p \in Ptr, id \in Id, j \in Job, b \in Buf :
             Added(found, p, id, j, b) /\ MetaFresh(j)
    BY <1>1, <1>2, SubmitAdds
  <2>2. fault' = fault
    BY <2>1 DEF Added, AddJob, spoolVars
  <2> QED
    BY <2>1, <2>2, StutterKind
<1>3. CASE \E ret \in {SPOOL_OK, SPOOL_ERR} : JobRender(rec.job, ret)
  BY <1>3, BatchRender
<1>4. CASE \E ret \in {SPOOL_OK, SPOOL_ERR} : JobAppend(rec.job, rec.len, ret)
  BY <1>4, BatchAppend
<1>5. CASE \E ret \in {SPOOL_OK, SPOOL_ERR} : JobCancel(rec.job, ret)
  <2>1. fault' = fault
    BY <1>5, NeverStale DEF JobCancel, NoJob, spoolVars
  <2> QED
    BY <1>5, <2>1, CancelKind
<1>6. CASE JobStatus(rec.flag) \/ UNCHANGED spoolVars
  <2>1. UNCHANGED spoolVars
    BY <1>6 DEF JobStatus, SpoolInv, ActiveLive
  <2>2. fault' = fault
    BY <2>1 DEF spoolVars
  <2> QED
    BY <2>1, <2>2, StutterKind
<1> QED
  BY <1>2, <1>3, <1>4, <1>5, <1>6 DEF Operation

\* So the jobs go on sharing nothing.
LEMMA UnsharedKept ==
  ASSUME SpoolInv, Unshared, BatchAccepted, [BatchNext]_batchVars
  PROVE  Unshared'
<1>1. CASE UNCHANGED spoolVars
  BY <1>1 DEF spoolVars, Unshared, Live
<1>2. ASSUME fault' \in {"none", "consumed", "moved"}, Still PROVE Unshared'
  BY <1>2 DEF Still, Unshared, Live
<1>3. ASSUME fault' \in {"none", "consumed", "moved"}, NEW p \in Ptr, NEW new \in Job,
             Rewritten(p, new)
      PROVE  Unshared'
  <2>1. /\ \A x \in Ptr : /\ job'[x] = NULL <=> job[x] = NULL
                          /\ job[x] # NULL => job'[x].meta = job[x].meta
    <3>1. job'[p] = new /\ new # NULL /\ \A x \in Ptr : x # p => job'[x] = job[x]
      BY <1>3, SpoolCoreAssumption DEF Rewritten, Live, SpoolInv, SpoolTypeOK
    <3> QED
      BY <1>3, <3>1 DEF Rewritten, Live
  <2> QED
    BY <1>3, <2>1 DEF Rewritten, Unshared, Live
<1>4. ASSUME fault' \in {"none", "consumed", "moved"}, NEW p \in Ptr, Retired(p)
      PROVE  Unshared'
  <2>1. PICK n \in Nat : \E q \in [1 .. n -> Ptr] : ListIs(n, q)
    BY DEF SpoolInv, Linked
  <2>2. PICK q \in [1 .. n -> Ptr] : ListIs(n, q)
    BY <2>1
  <2>3. job[p] # NULL /\ taken \in {p, NULL} /\ UnlinkAndFree(p) /\ taken' = NULL
    BY <1>4 DEF Retired, Live
  <2>4. /\ job'[p] = NULL
        /\ \A x \in Ptr : x # p => /\ job'[x] = NULL <=> job[x] = NULL
                                   /\ job[x] # NULL => job'[x].meta = job[x].meta
    BY <2>2, <2>3, UnlinkedIs
  <2>5. metas' = metas \ {job[p].meta} /\ UNCHANGED <<scratch, pumping>>
    BY <1>4 DEF Retired, free_buffers
  <2>6. \A x \in Live : x # p => job[x].meta # job[p].meta \/ job[x].meta = NULL
    BY <1>4 DEF Retired, Unshared
  <2> QED
    BY <1>4, <2>4, <2>5, <2>6 DEF Unshared, Live
<1>5. ASSUME NEW p \in Ptr, NEW id \in Id, NEW j \in Job, NEW b \in Buf,
             fault' \in {"none", "consumed", "moved"}, Added(found, p, id, j, b), MetaFresh(j)
      PROVE  Unshared'
  <2>1. /\ job[p] = NULL /\ job'[p] = j
        /\ \A x \in Ptr : x # p => /\ job'[x] = NULL <=> job[x] = NULL
                                   /\ job[x] # NULL => job'[x].meta = job[x].meta
    BY <1>5, AddedIs
  <2>2. UNCHANGED <<scratch, pumping>> /\ metas \subseteq metas'
    BY <1>5 DEF Added, AddJob, MetaFresh
  <2>3. j.meta # NULL => j.meta \in metas' /\ \A x \in Live : job[x].meta # j.meta
    BY <1>5 DEF MetaFresh, FreshMeta, Live
  <2> QED
    BY <1>5, <2>1, <2>2, <2>3 DEF Unshared, Live
<1> QED
  BY <1>1, <1>2, <1>3, <1>4, <1>5, BatchSteps, BatchOperation

-----------------------------------------------------------------------------
(* Theorems.                                                               *)

\* The threads of the server keep to the lock and free what they allocate, and
\* the pump keeps to the critical section (serve, h_flush).
THEOREM SpooldInvariant == Spec => []SpooldInv
BY InitInv, NextInv, PTL DEF Spec

\* No request of the other transport ever meets a half-drained queue (h_flush).
THEOREM PumpStaysInsideLock == Spec => []PumpInsideLock
<1>1. SpooldInv => PumpInsideLock
  BY DEF SpooldInv
<1> QED
  BY <1>1, SpooldInvariant, PTL

\* A thread is inside a handler exactly when it owns g_lock, here too (serve).
THEOREM SpooldLockDiscipline == Spec => []LockDiscipline
<1>1. SpooldInv => LockDiscipline
  BY DEF SpooldInv, ServeInv
<1> QED
  BY <1>1, SpooldInvariant, PTL

\* And the argument buffer is freed on every way through serve.
THEOREM SpooldNoArgumentStays == Spec => []NoArgumentLeft
<1>1. SpooldInv => NoArgumentLeft
  BY DEF SpooldInv, ServeInv
<1> QED
  BY <1>1, SpooldInvariant, PTL

\* Whatever the two clients ask, in any order, the job store stays consistent: its
\* table, its queue, its cache and its memory (serve, g_ops).
THEOREM SpooldKeepsStore == Spec => []StoreInv
<1>1. SpooldInv /\ StoreInv /\ [Next]_vars => StoreInv'
  BY ServerKinds, KindsInv, KindsNeverConsume DEF StoreInv, Loaded
<1> QED
  BY <1>1, StoreInitInv, SpooldInvariant, PTL DEF Spec

\* The server is one use of the job store: g_lock lets one call or one step of the pump
\* through at a time, and a client's call never comes while the pump is at work (serve,
\* h_flush).
THEOREM SpooldUsesStore == Spec => SpoolSpec
<1>1. Init => SpoolNew
  BY DEF Init
<1>2. SpooldInv /\ StoreInv /\ [Next]_vars => [SpoolNext]_spoolVars
  <2> SUFFICES ASSUME SpooldInv, StoreInv, [Next]_vars, ~UNCHANGED spoolVars
               PROVE  SpoolNext
    OBVIOUS
  <2>1. ~Gone /\ \E t \in Thread : RunHandler(t) \/ RunPump(t)
    BY DEF Next, Startup, Transport, Dispatch, Answer, Finish, vars
  <2>2. fault = "none"
    BY <2>1 DEF Gone
  <2>3. ASSUME NEW t \in Thread, RunHandler(t) PROVE Call
    <3>1. ~pumping /\ Calls(filters)
      BY <2>2, <2>3, HandlerCalls
    <3>2. filters \cup {NULL} \subseteq Filter \cup {NULL}
      BY DEF StoreInv, Loaded
    <3> QED
      BY <2>2, <3>1, <3>2 DEF Calls, Call
  <2>4. ASSUME NEW t \in Thread, RunPump(t) PROVE Pump
    BY <2>2, <2>4 DEF RunPump, Pump
  <2> QED
    BY <2>1, <2>3, <2>4 DEF SpoolNext
<1> QED
  BY <1>1, <1>2, SpooldInvariant, SpooldKeepsStore, PTL DEF Spec, SpoolSpec

\* So under any interleaving of the two clients jobs are rendered in the order they came,
\* and an id names one job from the SUBMIT that returns it to the RENDER or the FLUSH that
\* ends it.
THEOREM SpooldImplementsStore == Spec => ImplementsReadyQueue /\ JobsImplementHandleTable
BY SpooldUsesStore, ListImplementsQueue, StoreImplementsJobTable, PTL

\* Ids, count and jobs agree in the server ("the job table is kept correct").
THEOREM SpooldJobTable == Spec => []JobTableConsistent
<1>1. StoreInv => JobTableConsistent
  BY DEF StoreInv, SpoolInv
<1> QED
  BY <1>1, SpooldKeepsStore, PTL

\* No client gets a filter that frees the document under the store (load_filters,
\* filter_for).
THEOREM NobodyConsumes == Spec => []NeverConsumed
<1>1. StoreInv => NeverConsumed
  BY DEF StoreInv
<1> QED
  BY <1>1, SpooldKeepsStore, PTL

\* A FLUSH that is answered has left nothing queued and every id free (h_flush).
THEOREM FlushLeavesNothing == Spec => []FlushedEmpty
<1>1. SpooldInv /\ StoreInv /\ FlushDone /\ [Next]_vars => FlushDone'
  BY FlushDoneKept DEF StoreInv
<1>2. StoreInv /\ FlushDone => FlushedEmpty
  <2> SUFFICES ASSUME StoreInv, FlushDone PROVE FlushedEmpty
    OBVIOUS
  <2>1. qhead = NULL => Queue = <<>>
    BY LinkedSound DEF StoreInv, SpoolInv
  <2> QED
    BY <2>1 DEF FlushedEmpty, FlushDone, Flushed
<1> QED
  BY <1>1, <1>2, StoreInitInv, SpooldInvariant, SpooldKeepsStore, PTL DEF Spec

\* What a thread can have before it leaves the critical section.
Steps == {<<>>, <<"handle">>, <<"reply">>, <<"pump", "reply">>}

ToDo == \A t \in Thread : todo[t] \in Steps

\* The same lists, told apart and shortened.
LEMMA StepsAre ==
  /\ \A s \in Steps : s \in Seq(Step)
  /\ <<>> \o Tail(<<"reply">>) = <<>>
  /\ <<"reply">> \o Tail(<<"handle">>) = <<"reply">>
  /\ <<"pump", "reply">> \o Tail(<<"handle">>) = <<"pump", "reply">>
  /\ <<>> \o Tail(<<"pump", "reply">>) = <<"reply">>
<1>1. /\ <<>> \in Seq(Step) /\ <<"handle">> \in Seq(Step) /\ <<"reply">> \in Seq(Step)
      /\ <<"pump", "reply">> \in Seq(Step)
  BY DEF Step
<1>2. \A s \in Seq(Step) : <<>> \o s = s /\ s \o <<>> = s
  OBVIOUS
<1>3. /\ Tail(<<"reply">>) = <<>> /\ Tail(<<"handle">>) = <<>>
      /\ Tail(<<"pump", "reply">>) = <<"reply">>
  OBVIOUS
<1> QED
  BY <1>1, <1>2, <1>3 DEF Steps

\* A step inside the critical section, by the thread that owns the lock.
OwnStep(t) == RunHandler(t) \/ RunPump(t) \/ Answer(t)

\* The list of an own step is shorter after it, or it is one of the pump.
LEMMA OwnStepIs ==
  ASSUME SpooldInv, ToDo, NEW t \in Thread, OwnStep(t)
  PROVE  /\ lock = t /\ lock' = t
         /\ \A u \in Thread : u # t => todo'[u] = todo[u]
         /\ \/ todo[t] = <<"handle">> /\ todo'[t] = <<"reply">>
            \/ todo[t] = <<"handle">> /\ todo'[t] = <<"pump", "reply">> /\ JobFlush
            \/ todo[t] = <<"reply">> /\ todo'[t] = <<>>
            \/ todo[t] = <<"pump", "reply">> /\ todo'[t] = <<"reply">> /\ PumpEnds
            \/ todo[t] = <<"pump", "reply">> /\ todo'[t] = todo[t] /\ (JobDequeue \/ JobWork)
<1>1. /\ pc[t] = "locked" /\ todo[t] \in Steps /\ todo[t] # <<>>
      /\ \/ Head(todo[t]) = "handle" /\ RunHandler(t)
         \/ Head(todo[t]) = "pump" /\ RunPump(t)
         \/ Head(todo[t]) = "reply" /\ Answer(t)
  BY DEF OwnStep, RunHandler, RunPump, Answer, Reply, At, ToDo
<1>2. lock = t /\ todo \in [Thread -> Seq(Step)]
  BY <1>1 DEF SpooldInv, ServeInv, LockDiscipline, Inside, ServeTypeOK
<1>3. ASSUME NEW steps, Then(t, steps)
      PROVE  /\ lock' = t /\ todo'[t] = steps \o Tail(todo[t])
             /\ \A u \in Thread : u # t => todo'[u] = todo[u]
  BY <1>2, <1>3 DEF Then
<1>4. CASE RunHandler(t) /\ Head(todo[t]) = "handle"
  <2>1. todo[t] = <<"handle">>
    BY <1>1, <1>4 DEF Steps
  <2>2. Then(t, <<"reply">>) \/ (Then(t, <<"pump", "reply">>) /\ JobFlush)
    BY <1>4 DEF RunHandler, h_submit, h_render, h_append, h_cancel, h_status, h_recycle, h_dup,
                h_flush
  <2>3. CASE Then(t, <<"reply">>)
    BY <1>2, <1>3, <2>1, <2>3, StepsAre
  <2>4. CASE Then(t, <<"pump", "reply">>) /\ JobFlush
    BY <1>2, <1>3, <2>1, <2>4, StepsAre
  <2> QED
    BY <2>2, <2>3, <2>4
<1>5. CASE RunPump(t) /\ Head(todo[t]) = "pump"
  <2>1. todo[t] = <<"pump", "reply">>
    BY <1>1, <1>5 DEF Steps
  <2>2. CASE PumpEnds /\ Then(t, <<>>)
    BY <1>2, <1>3, <2>1, <2>2, StepsAre
  <2>3. CASE (JobDequeue \/ JobWork) /\ UNCHANGED serveVars
    BY <1>2, <2>1, <2>3 DEF serveVars
  <2> QED
    BY <1>5, <2>2, <2>3 DEF RunPump
<1>6. CASE Answer(t) /\ Head(todo[t]) = "reply"
  <2>1. todo[t] = <<"reply">>
    BY <1>1, <1>6 DEF Steps
  <2>2. Then(t, <<>>)
    BY <1>6 DEF Answer, Reply
  <2> QED
    BY <1>2, <1>3, <2>1, <2>2, StepsAre
<1> QED
  BY <1>1, <1>4, <1>5, <1>6

\* So the lists are always of those kinds (serve and its handlers).
LEMMA ToDoInvariant == Spec => []ToDo
<1>1. Init => ToDo
  BY DEF Init, ServeInit, ToDo, Steps
<1>2. SpooldInv /\ ToDo /\ [Next]_vars => ToDo'
  <2> SUFFICES ASSUME SpooldInv, ToDo, [Next]_vars PROVE ToDo'
    OBVIOUS
  <2>1. CASE UNCHANGED todo
    BY <2>1 DEF ToDo
  <2>2. ASSUME NEW t \in Thread, OwnStep(t) PROVE ToDo'
    <3>1. todo'[t] \in Steps
      BY <2>2, OwnStepIs DEF Steps
    <3>2. \A u \in Thread : u # t => todo'[u] = todo[u]
      BY <2>2, OwnStepIs
    <3> QED
      BY <3>1, <3>2 DEF ToDo
  <2>3. ASSUME NEW t \in Thread, Dispatch(t) PROVE ToDo'
    <3>1. \A u \in Thread : todo'[u] \in {todo[u], <<"handle">>}
      BY <2>3 DEF Dispatch, Enter, SpooldInv, ServeInv, ServeTypeOK
    <3> QED
      BY <3>1 DEF ToDo, Steps
  <2> QED
    BY <2>1, <2>2, <2>3 DEF Next, Startup, StartTcp, PipeFails, Drained, Transport, Accept, ReadHeader,
       ReadBody, Dropped, RefuseBig, RefuseOp, Finish, Leave, OwnStep, vars, serveVars
<1> QED
  BY <1>1, <1>2, SpooldInvariant, PTL DEF Spec

\* The steps due for a list: a handler leaves a reply, or a reply and the pump.
Due(steps) ==
  IF steps = <<"handle">> THEN 2 * Len(Queue) + 3
  ELSE IF steps = <<"pump", "reply">> THEN PumpRemaining + 1
  ELSE IF steps = <<"reply">> THEN 1
  ELSE 0

\* The steps the owner of g_lock has before it at most, LeaveCriticalSection included.
HoldRemaining == IF lock = NULL THEN 0 ELSE 1 + Due(todo[lock])

\* The queue has a length, and so has what the pump has before it.
StoreCounted == Len(Queue) \in Nat /\ PumpRemaining \in Nat

LEMMA DueCounted ==
  ASSUME StoreInv, NEW steps
  PROVE  Due(steps) \in Nat
BY QueueCounted DEF Due, StoreInv

\* Each step the owner of the lock takes brings it nearer to giving the lock back, the
\* loop of a FLUSH over any number of jobs included, unless it ends the process; a step of
\* the other thread meanwhile touches neither the store nor what the owner has to do.
\* This is what LockReleased needs besides that a thread inside the critical section runs
\* on (serve and its handlers, JobFlush).
THEOREM OwnerGoesForward ==
  Spec => /\ [](HoldRemaining \in Nat)
          /\ [][lock # NULL => \/ HoldRemaining' < HoldRemaining \/ fault' # "none"
                              \/ UNCHANGED <<lock, todo, spoolVars>>]_vars
<1>1. StoreInv => HoldRemaining \in Nat
  BY DueCounted DEF HoldRemaining
<1>2. StoreInv => StoreCounted
  BY QueueCounted DEF StoreInv, StoreCounted
<1>3. ASSUME SpooldInv, StoreInv, StoreCounted', ToDo, Next, lock # NULL, fault' = "none"
      PROVE  HoldRemaining' < HoldRemaining \/ UNCHANGED <<lock, todo, spoolVars>>
  <2>1. CASE Gone /\ UNCHANGED vars
    BY <2>1 DEF vars, serveVars
  <2>2. CASE Startup
    BY <2>2 DEF Startup, StartTcp, PipeFails, Drained
  <2>3. ASSUME NEW t \in Thread, Transport(t) \/ Dispatch(t)
        PROVE  UNCHANGED <<lock, todo, spoolVars>>
    BY <1>3, <2>3 DEF Transport, Dispatch, Accept, ReadHeader, ReadBody, Dropped,
                      RefuseBig, RefuseOp, Enter, Acquire
  <2>4. ASSUME ~Gone, NEW t \in Thread, OwnStep(t)
        PROVE  HoldRemaining' < HoldRemaining
    <3>1. HoldRemaining = 1 + Due(todo[t]) /\ HoldRemaining' = 1 + Due(todo[t])'
      BY <1>3, <2>4, OwnStepIs DEF HoldRemaining, Due
    <3>2. Due(todo[t]) \in Nat /\ Due(todo[t])' \in Nat
      <4>1. Due(todo[t]) \in Nat
        BY <1>3, DueCounted
      <4>2. 2 * Len(Queue)' + 3 \in Nat /\ PumpRemaining' + 1 \in Nat
        <5>1. Len(Queue)' \in Nat
          BY <1>3 DEF StoreCounted
        <5>2. PumpRemaining' \in Nat
          BY <1>3 DEF StoreCounted
        <5>3. \A n \in Nat : 2 * n + 3 \in Nat /\ n + 1 \in Nat
          OBVIOUS
        <5> QED
          BY <5>1, <5>2, <5>3
      <4>3. Due(todo[t])' \in {2 * Len(Queue)' + 3, PumpRemaining' + 1, 1, 0}
        BY DEF Due
      <4> QED
        BY <4>1, <4>2, <4>3
    <3>3. SUFFICES Due(todo[t])' < Due(todo[t])
      BY <3>1, <3>2
    <3>4. fault = "none" /\ SpoolInv /\ Len(Queue) \in Nat /\ PumpRemaining \in Nat
      BY <1>3, <2>4, QueueCounted DEF Gone, StoreInv
    <3>5. CASE todo[t] = <<"handle">> /\ todo'[t] = <<"reply">>
      BY <3>4, <3>5 DEF Due
    <3>6. CASE todo[t] = <<"handle">> /\ todo'[t] = <<"pump", "reply">> /\ JobFlush
      <4>1. Queue' = Queue /\ pumping' /\ taken' = NULL
        BY <3>4, <3>6, QueueKept DEF JobFlush, SpoolInv, TakenLive
      <4> QED
        BY <3>4, <3>6, <4>1 DEF Due, PumpRemaining
    <3>7. CASE todo[t] = <<"reply">> /\ todo'[t] = <<>>
      BY <3>7 DEF Due
    <3>8. CASE todo[t] = <<"pump", "reply">> /\ todo'[t] = <<"reply">> /\ PumpEnds
      BY <3>4, <3>8, QueueCounted DEF Due, PumpEnds, PumpRemaining
    <3>9. CASE todo[t] = <<"pump", "reply">> /\ todo'[t] = todo[t] /\ (JobDequeue \/ JobWork)
      <4>1. PumpRemaining' < PumpRemaining
        BY <1>3, <3>4, <3>9, PumpForward DEF Pump
      <4>2. PumpRemaining' \in Nat
        BY <1>3 DEF StoreCounted
      <4> QED
        BY <3>4, <3>9, <4>1, <4>2 DEF Due
    <3> QED
      BY <1>3, <2>4, <3>5, <3>6, <3>7, <3>8, <3>9, OwnStepIs
  <2>5. ASSUME NEW t \in Thread, Finish(t)
        PROVE  HoldRemaining' < HoldRemaining
    <3>1. lock' = NULL /\ HoldRemaining' = 0
      BY <2>5 DEF Finish, Leave, Release, HoldRemaining
    <3> QED
      BY <1>3, <3>1, DueCounted DEF HoldRemaining
  <2> QED
    BY <1>3, <2>1, <2>2, <2>3, <2>4, <2>5 DEF Next, OwnStep
<1>4. SpooldInv /\ StoreInv /\ StoreCounted' /\ ToDo /\ [Next]_vars
        => [lock # NULL => \/ HoldRemaining' < HoldRemaining \/ fault' # "none"
                           \/ UNCHANGED <<lock, todo, spoolVars>>]_vars
  BY <1>3
<1> QED
  BY <1>1, <1>2, <1>4, SpooldInvariant, SpooldKeepsStore, ToDoInvariant, PTL DEF Spec

\* Without RECYCLE and DUP a job owns its document and its metadata, for any batch file,
\* and only a consuming filter or a block that moves ends the process (JobSubmit,
\* free_job, JobAppend).
THEOREM BatchJobsOwn == BatchSpec => []JobsOwnWhatTheyHold
<1>1. BatchInit => Unshared
  BY DEF BatchInit, SpoolNew, Unshared, Live
<1>2. SpoolInv /\ BatchAccepted /\ Unshared /\ [BatchNext]_batchVars => Unshared'
  BY UnsharedKept
<1>3. SpoolInv /\ Unshared => JobsOwnWhatTheyHold
  BY DocumentThere DEF Unshared, Live, JobsOwnWhatTheyHold
<1> QED
  BY <1>1, <1>2, <1>3, BatchKeepsStore, BatchAcceptedInvariant, PTL DEF BatchSpec

\* As in sessreplay: the records announced are counted down.
RecordsCounted ==
  /\ left \in 0 .. MaxRecords
  /\ stage = "body" => left > 0

\* What wmain has before it at most: a record is read and carried out.
BatchRemaining ==
  IF stage = "header" THEN 2 * MaxRecords + 2
  ELSE IF stage = "loop" THEN 2 * left + 1
  ELSE IF stage = "body" THEN 2 * left
  ELSE 0

\* Every step of the batch client leaves less before it, so no batch file makes the loop
\* turn more often than its header says: what BatchEnds needs besides that wmain runs on
\* (wmain of spoolc.c).
THEOREM BatchGoesForward ==
  BatchSpec => [](BatchRemaining \in Nat) /\ [][BatchRemaining' < BatchRemaining]_batchVars
<1>1. BatchInit => RecordsCounted
  BY BatchAssumption DEF BatchInit, RecordsCounted
<1>2. RecordsCounted => BatchRemaining \in Nat
  BY BatchAssumption DEF RecordsCounted, BatchRemaining
<1>3. ASSUME RecordsCounted, BatchNext, ~UNCHANGED batchVars
      PROVE  RecordsCounted' /\ BatchRemaining' < BatchRemaining
  <2>1. left \in Nat /\ MaxRecords \in Nat /\ left <= MaxRecords
    BY <1>3, BatchAssumption DEF RecordsCounted
  <2>2. CASE ReadBatchHeader
    BY <2>1, <2>2 DEF ReadBatchHeader, RecordsCounted, BatchRemaining
  <2>3. CASE EndBatch
    BY <1>3, <2>1, <2>3 DEF EndBatch, RecordsCounted, BatchRemaining
  <2>4. CASE ReadRecord
    <3>1. stage = "loop" /\ left > 0 /\ stage' = "body" /\ left' = left
      BY <2>4 DEF ReadRecord
    <3> QED
      BY <2>1, <3>1 DEF RecordsCounted, BatchRemaining
  <2>5. CASE Truncated
    BY <1>3, <2>1, <2>5 DEF Truncated, RecordsCounted, BatchRemaining
  <2>6. CASE CarryOut
    <3>1. stage = "body" /\ left > 0 /\ stage' = "loop" /\ left' = left - 1
      BY <1>3, <2>6 DEF CarryOut, CountRecord, RecordsCounted
    <3> QED
      BY <2>1, <3>1 DEF RecordsCounted, BatchRemaining
  <2> QED
    BY <1>3, <2>2, <2>3, <2>4, <2>5, <2>6 DEF BatchNext, Work
<1>4. RecordsCounted /\ UNCHANGED batchVars => RecordsCounted'
  BY DEF batchVars, RecordsCounted
<1>5. RecordsCounted /\ [BatchNext]_batchVars
        => RecordsCounted' /\ [BatchRemaining' < BatchRemaining]_batchVars
  BY <1>3, <1>4
<1> QED
  BY <1>1, <1>2, <1>5, PTL DEF BatchSpec
=============================================================================
