--------------------------- MODULE RevenantProofs ---------------------------
(***************************************************************************)
(* Proofs about the programs of Revenant, the server and the replay: what  *)
(* is proved of the store holds of the store each of them uses, and what   *)
(* is proved of the two threads holds of the server's, for any requests,   *)
(* any op-log, any plugins, any heap and any interleaving.                 *)
(***************************************************************************)
EXTENDS Sessiond, SessReplay, SessCoreProofs, ServeLoopProofs

USE MachineAssumption, SessCoreAssumption, ServeAssumption

\* The lists of steps a handler leaves behind.
Steps == {<<>>, <<"handle">>, <<"reply">>, <<"defer">>, <<"reply", "defer">>,
          <<"defer", "reply">>}

OwnTyped ==
  /\ \A t \in Thread : todo[t] \in Steps
  /\ cur \in Ptr \cup {NULL}
  /\ plugins \in SUBSET Handler
  /\ used \in [Thread -> Ptr \cup {NULL}]

\* The inductive invariant of the server.
ServerInv == StoreInv /\ ServeInv(Traffic) /\ OwnTyped /\ DeferSameSession

\* A record of requests has fields from the sets it was built from.
LEMMA RequestFields ==
  ASSUME NEW op, NEW types \in SUBSET (Handler \cup {NULL}), NEW handles \in SUBSET WireHandle,
         NEW lens \in SUBSET Nat, NEW flags \in SUBSET BOOLEAN,
         NEW r \in Request(op, types, handles, lens, flags)
  PROVE  /\ r.handle \in WireHandle /\ r.type \in Handler \cup {NULL}
         /\ r.len \in Nat /\ r.flag \in BOOLEAN
BY DEF Request

\* Every request a client can send has a handle, a handler or none, and a length.
LEMMA RequestTyped ==
  ASSUME NEW r \in Traffic
  PROVE  /\ r.handle \in WireHandle /\ r.type \in Handler \cup {NULL}
         /\ r.len \in Nat /\ r.flag \in BOOLEAN
<1>1. r \in Requests
  BY TrafficAssumption
<1>2. 0 \in WireHandle /\ Arg \subseteq Nat /\ MaxArg + 1 \in Nat
  BY DEF WireHandle, SESS_RECENT, Arg
<1>3. /\ {0} \in SUBSET WireHandle /\ WireHandle \in SUBSET WireHandle
      /\ {0} \in SUBSET Nat /\ {1, MaxArg + 1} \in SUBSET Nat /\ Arg \in SUBSET Nat
      /\ {NULL} \in SUBSET (Handler \cup {NULL})
      /\ {FALSE} \in SUBSET BOOLEAN /\ BOOLEAN \in SUBSET BOOLEAN
  BY <1>2
<1>4. \/ r \in Request("open",   Handler \cup {NULL}, {0}, Arg, {FALSE})
      \/ r \in Request("run",    {NULL}, WireHandle, {0}, BOOLEAN)
      \/ r \in Request("set",    {NULL}, WireHandle, Arg, BOOLEAN)
      \/ r \in Request("append", {NULL}, WireHandle, Arg, BOOLEAN)
      \/ r \in Request("close",  {NULL}, WireHandle, {0}, {FALSE})
      \/ r \in Request("stat",   {NULL}, {0}, {0}, BOOLEAN)
      \/ r \in Request("flush",  {NULL}, {0}, Arg, {FALSE})
      \/ r \in Request("bad",    {NULL}, {0}, {1, MaxArg + 1}, {FALSE})
  BY <1>1 DEF Requests
<1> QED
  BY <1>3, <1>4, RequestFields

\* What a thread about to run a handler has in hand.
LEMMA HandlerFacts ==
  ASSUME ServerInv, NEW t \in Thread, NEW step, At(t, step)
  PROVE  /\ req[t].handle \in WireHandle /\ req[t].type \in Handler \cup {NULL}
         /\ req[t].len \in U32 /\ req[t].flag \in BOOLEAN
         /\ lock = t /\ \A u \in Thread : u # t => ~Inside(u)
<1>1. req[t] \in Traffic /\ req[t].len \in Arg
  BY DEF ServerInv, ServeInv, RequestInHand, Serving, At
<1>2. Arg \subseteq U32
  BY DEF Arg, U32
<1> QED
  BY <1>1, <1>2, RequestTyped DEF ServerInv, ServeInv, LockDiscipline, Inside, At

\* Two threads outside the critical section share a fresh store.
LEMMA InitInv == Init => ServerInv
<1> SUFFICES ASSUME Init PROVE ServerInv
  OBVIOUS
<1>1. StoreInv /\ ServeInv(Traffic)
  BY NewInv, ServeInitInv DEF Init
<1>2. OwnTyped
  BY DEF Init, ServeInit, OwnTyped, Steps
<1>3. DeferSameSession
  BY DEF Init, ServeInit, DeferSameSession
<1> QED
  BY <1>1, <1>2, <1>3 DEF ServerInv

-----------------------------------------------------------------------------
(* The handlers.                                                           *)

\* Each handler is one call of the store's API, or an access through the pipe's
\* own pointer.
LEMMA HandlerStoreInv ==
  ASSUME ServerInv, fault = "none", NEW t \in Thread, RunHandler(t)
  PROVE  StoreInv'
<1>1. /\ StoreInv /\ cur \in Ptr \cup {NULL}
      /\ req[t].handle \in WireHandle /\ req[t].type \in Handler \cup {NULL}
      /\ req[t].len \in U32 /\ req[t].flag \in BOOLEAN
  BY HandlerFacts DEF ServerInv, OwnTyped, RunHandler
<1>2. CASE h_open(t)
  BY <1>1, <1>2, OpenInv DEF h_open, plugin_for
<1>3. CASE h_use_run(t)
  <2>1. UNCHANGED storeVars \/ Crash("cur")
        \/ \E ret \in Handler \cup {SESS_ERR} : SessUseRun(req[t].handle, ret)
    BY <1>3, Zenon DEF h_use_run
  <2> QED
    BY <1>1, <2>1, StutterInv, CrashInv, RunInv DEF FaultKind
<1>4. CASE h_use_set(t)
  <2>1. CASE UNCHANGED storeVars \/ Crash("cur")
    BY <1>1, <2>1, StutterInv, CrashInv DEF FaultKind
  <2>2. CASE \E ret \in {SESS_OK, SESS_ERR} : SessUseSet(req[t].handle, req[t].len, ret)
    BY <1>1, <2>2, SetInv
  <2>3. CASE /\ cur # NULL /\ sess[cur] # NULL /\ SetData(cur, req[t].len, "cur")
             /\ UNCHANGED <<slots, count, recent, batch>>
    <3>1. "cur" \in FaultKind /\ cur \in Ptr /\ recent \in Ptr \cup {NULL}
      BY <1>1, <2>3 DEF FaultKind, StoreInv, TypeOK
    <3> QED
      BY <1>1, <2>3, <3>1, SetDataInv, LengthInv
  <2> QED
    BY <1>4, <2>1, <2>2, <2>3 DEF h_use_set
<1>5. CASE h_use_append(t)
  BY <1>1, <1>5, AppendInv DEF h_use_append
<1>6. CASE h_close(t)
  BY <1>1, <1>6, CloseInv DEF h_close
<1>7. CASE h_stat(t)
  BY <1>1, <1>7, StatInv DEF h_stat
<1>8. CASE h_flush(t)
  BY <1>1, <1>8, FlushInv DEF h_flush
<1> QED
  BY <1>2, <1>3, <1>4, <1>5, <1>6, <1>7, <1>8 DEF RunHandler

\* SET gives a session another length, and leaves it where it is.
LEMMA SetKeepsSession ==
  ASSUME StoreInv, NEW s \in Ptr, sess[s] # NULL, NEW len \in U32,
         NEW kind \in FaultKind, SetData(s, len, kind)
  PROVE  sess'[s] # NULL
<1>1. PICK n \in U32 : sess' = [sess EXCEPT ![s].len = n]
  BY SetDataInv
<1> DEFINE new == [sess[s] EXCEPT !.len = n]
<1>2. sess[s] \in Session /\ sess \in [Ptr -> Session \cup {NULL}]
  BY DEF StoreInv, TypeOK
<1>3. new \in Session
  BY <1>2 DEF Session
<1>4. sess' = [sess EXCEPT ![s] = new]
  BY <1>1
<1> HIDE DEF new
<1> QED
  BY <1>2, <1>3, <1>4

\* A session that was found and used is found again by the same handle, and is
\* still there, unless the use ended the process.
LEMMA FoundAgain ==
  ASSUME StoreInv, NEW id \in WireHandle, NEW len \in U32, NEW ret, ret # SESS_ERR,
         SessUseRun(id, ret) \/ SessUseSet(id, len, ret)
  PROVE  \/ fault' # "none"
         \/ /\ SessGet(id)' = SessGet(id)
            /\ SessGet(id) # NULL /\ sess'[SessGet(id)] # NULL
<1>1. CASE StaleSession(id)
  BY <1>1 DEF StaleSession, Crash, Via
<1>2. CASE LiveSession(id)
  <2>1. SessGet(id) \in Ptr /\ sess[SessGet(id)] # NULL /\ SessGet(id) # NULL
    BY <1>2, LiveFacts DEF LiveSession
  <2>2. ~NoSession(id, ret) /\ ~StaleSession(id)
    BY <1>2 DEF LiveSession, NoSession, StaleSession
  <2>3. slots' = slots
    BY <2>2 DEF SessUseRun, SessUseSet
  <2>4. SessGet(id)' = SessGet(id)
    BY <1>2, <2>3 DEF LiveSession, Touch, SessGet, Slot
  <2>5. Via(id) \in FaultKind
    BY DEF Via, FaultKind
  <2>6. sess' = sess \/ SetData(SessGet(id), len, Via(id))
    BY <2>2 DEF SessUseRun, SessUseSet
  <2>7. sess'[SessGet(id)] # NULL
    BY <2>1, <2>5, <2>6, SetKeepsSession
  <2> QED
    BY <2>1, <2>4, <2>7
<1> QED
  BY <1>1, <1>2 DEF SessUseRun, SessUseSet, NoSession

\* A handler sends its reply, defers, or does both, after what it was called for.
LEMMA HandlerThen ==
  ASSUME ServerInv, NEW t \in Thread, RunHandler(t)
  PROVE  \E steps \in {<<"reply">>, <<"reply", "defer">>, <<"defer", "reply">>} :
           Then(t, steps)
<1>1. RunSteps(t) \in {<<"reply">>, <<"reply", "defer">>}
  BY DEF RunSteps
<1>2. SetSteps(t) \in {<<"reply">>, <<"defer", "reply">>}
  BY DEF SetSteps
<1>3. CASE h_use_run(t)
  BY <1>1, <1>3 DEF h_use_run
<1>4. CASE h_use_set(t)
  BY <1>2, <1>4 DEF h_use_set
<1>5. CASE h_open(t) \/ h_use_append(t) \/ h_close(t) \/ h_stat(t) \/ h_flush(t)
  BY <1>5 DEF h_open, h_use_append, h_close, h_stat, h_flush
<1> QED
  BY <1>3, <1>4, <1>5 DEF RunHandler

\* The pointer the pipe connection keeps, and the session a request was carried
\* out on, are among those the store knows.
LEMMA HandlerOwn ==
  ASSUME ServerInv, NEW t \in Thread, RunHandler(t), StoreInv'
  PROVE  /\ cur' \in Ptr \cup {NULL}
         /\ plugins' \in SUBSET Handler
         /\ used' \in [Thread -> Ptr \cup {NULL}]
         /\ \A u \in Thread : u # t => used'[u] = used[u]
<1>1. /\ cur \in Ptr \cup {NULL} /\ used \in [Thread -> Ptr \cup {NULL}]
      /\ plugins' = plugins /\ plugins \in SUBSET Handler
  BY DEF ServerInv, OwnTyped, RunHandler
<1>2. req[t].handle \in WireHandle
  BY HandlerFacts DEF RunHandler
<1>3. SessGet(req[t].handle) \in Ptr \cup {NULL}
  BY <1>2 DEF ServerInv, StoreInv, TypeOK, SessGet, Slot
<1>4. used' = used \/ \E s \in Ptr \cup {NULL} : used' = [used EXCEPT ![t] = s]
  <2>1. used' = used \/ Using(t, cur) \/ Using(t, SessGet(req[t].handle))
    BY DEF RunHandler, h_open, h_use_run, h_use_set, h_use_append, h_close, h_stat, h_flush
  <2> QED
    BY <1>1, <1>3, <2>1 DEF Using
<1>5. cur' \in Ptr \cup {NULL}
  <2>1. CASE h_open(t)
    <3>1. \A h \in Handle : slots'[h] \in Ptr \cup {NULL}
      BY DEF StoreInv, TypeOK
    <3> QED
      BY <1>1, <2>1, <3>1 DEF h_open
  <2>2. CASE cur' = cur
    BY <1>1, <2>2
  <2> QED
    BY <2>1, <2>2 DEF RunHandler, h_use_run, h_use_set, h_use_append, h_close, h_stat, h_flush
<1> QED
  BY <1>1, <1>4, <1>5

-----------------------------------------------------------------------------
(* The steps of the server.                                                *)

\* What DeferSameSession says of one thread.
Pending(t) ==
  Inside(t) /\ (\E i \in 1 .. Len(todo[t]) : todo[t][i] = "defer") /\ ~ViaCur(t)

Kept(t) == fault # "none" \/ (/\ SessGet(req[t].handle) = used[t]
                              /\ used[t] # NULL /\ sess[used[t]] # NULL)

\* DeferSameSession, in those terms.
LEMMA PendingKept == ServerInv => \A t \in Thread : Pending(t) => Kept(t)
BY DEF ServerInv, DeferSameSession, Pending, Kept

\* A handler that leaves a deferral behind has carried the request out on the
\* session its handle still names.
LEMMA HandlerKept ==
  ASSUME ServerInv, NEW t \in Thread, RunHandler(t), Pending(t)'
  PROVE  Kept(t)'
<1>1. /\ StoreInv /\ req[t].handle \in WireHandle /\ req[t].len \in U32
      /\ UNCHANGED <<pc, req>> /\ used \in [Thread -> Ptr \cup {NULL}]
  BY HandlerFacts, HandlerThen DEF ServerInv, OwnTyped, RunHandler, Then
<1>2. ~ViaCur(t)
  BY <1>1 DEF Pending, ViaCur
<1>3. todo[t] = <<"handle">>
  BY DEF ServerInv, OwnTyped, Steps, RunHandler, At
<1>4. ~Then(t, <<"reply">>)
  <2>1. SUFFICES ASSUME Then(t, <<"reply">>) PROVE FALSE
    OBVIOUS
  <2>2. todo'[t] = <<"reply">>
    BY <1>3, <2>1 DEF Then, ServerInv, ServeInv, ServeTypeOK
  <2> QED
    BY <2>2 DEF Pending
<1>5. \E ret : /\ ret # SESS_ERR
               /\ SessUseRun(req[t].handle, ret) \/ SessUseSet(req[t].handle, req[t].len, ret)
               /\ Using(t, SessGet(req[t].handle))
  BY <1>2, <1>4 DEF RunHandler, h_open, h_use_run, h_use_set, h_use_append, h_close, h_stat,
                    h_flush
<1>6. \/ fault' # "none"
      \/ /\ SessGet(req[t].handle)' = SessGet(req[t].handle)
         /\ SessGet(req[t].handle) # NULL /\ sess'[SessGet(req[t].handle)] # NULL
  BY <1>1, <1>5, FoundAgain
<1>7. used'[t] = SessGet(req[t].handle)
  BY <1>1, <1>5 DEF Using
<1> QED
  BY <1>1, <1>6, <1>7 DEF Kept

\* The other thread is outside the critical section meanwhile, and stays there.
LEMMA OtherOutside ==
  ASSUME ServerInv, NEW t \in Thread, NEW step, At(t, step), pc' = pc,
         NEW u \in Thread, u # t
  PROVE  ~Pending(u)'
<1>1. ~Inside(u)
  BY HandlerFacts
<1> QED
  BY <1>1 DEF Pending, Inside

\* A handler preserves the invariant, as far as its first reply or SessDefer.
LEMMA RunHandlerInv ==
  ASSUME ServerInv, fault = "none", NEW t \in Thread, RunHandler(t)
  PROVE  ServerInv'
<1>1. StoreInv'
  BY HandlerStoreInv
<1>2. PICK steps \in {<<"reply">>, <<"reply", "defer">>, <<"defer", "reply">>} : Then(t, steps)
  BY HandlerThen
<1>3. steps \in Seq(Step)
  <2>1. "reply" \in Step /\ "defer" \in Step
    BY DEF Step
  <2>2. <<"reply">> \in Seq(Step) /\ <<"reply", "defer">> \in Seq(Step)
        /\ <<"defer", "reply">> \in Seq(Step)
    BY <2>1
  <2> QED
    BY <1>2, <2>2
<1>4. ServeInv(Traffic)' /\ todo' = [todo EXCEPT ![t] = steps \o Tail(todo[t])] /\ pc' = pc
  BY <1>2, <1>3, ThenInv DEF ServerInv, RunHandler
<1>5. OwnTyped'
  <2>1. todo[t] = <<"handle">>
    BY DEF ServerInv, OwnTyped, Steps, RunHandler, At
  <2>2. steps \o Tail(todo[t]) = steps
    BY <1>3, <2>1
  <2>3. \A u \in Thread : todo'[u] \in Steps
    BY <1>4, <2>2 DEF ServerInv, OwnTyped, Steps, ServeInv, ServeTypeOK
  <2> QED
    BY <1>1, <2>3, HandlerOwn DEF OwnTyped
<1>6. \A u \in Thread : Pending(u)' => Kept(u)'
  BY <1>4, HandlerKept, OtherOutside DEF RunHandler
<1>7. DeferSameSession'
  BY <1>6 DEF DeferSameSession, Pending, Kept
<1> QED
  BY <1>1, <1>4, <1>5, <1>7 DEF ServerInv

\* What is left to do once the first step is done.
LEMMA Tails ==
  ASSUME NEW a \in Step, NEW b \in Step
  PROVE  <<>> \o Tail(<<a>>) = <<>> /\ <<>> \o Tail(<<a, b>>) = <<b>>
<1>1. Tail(<<a>>) = <<>> /\ Tail(<<a, b>>) = <<b>>
  OBVIOUS
<1>2. <<>> \in Seq(Step) /\ <<b>> \in Seq(Step)
  OBVIOUS
<1>3. \A s \in Seq(Step) : <<>> \o s = s
  OBVIOUS
<1> QED
  BY <1>1, <1>2, <1>3

\* The deferral itself leaves none behind.
LEMMA DeferStepInv ==
  ASSUME ServerInv, fault = "none", NEW t \in Thread, Defer(t)
  PROVE  ServerInv'
<1>1. StoreInv'
  BY HandlerFacts, DeferInv DEF ServerInv, Defer
<1>2. <<>> \in Seq(Step)
  OBVIOUS
<1>3. /\ ServeInv(Traffic)' /\ todo' = [todo EXCEPT ![t] = <<>> \o Tail(todo[t])]
      /\ pc' = pc
  BY <1>2, ThenInv DEF ServerInv, Defer
<1>4. todo'[t] \in {<<>>, <<"reply">>} /\ \A u \in Thread : u # t => todo'[u] = todo[u]
  <2>1. todo[t] \in {<<"defer">>, <<"defer", "reply">>}
    BY DEF ServerInv, OwnTyped, Steps, Defer, At
  <2>2. <<>> \o Tail(todo[t]) \in {<<>>, <<"reply">>}
    BY <2>1, Tails DEF Step
  <2> QED
    BY <1>3, <2>2 DEF ServerInv, ServeInv, ServeTypeOK
<1>5. OwnTyped'
  BY <1>4 DEF ServerInv, OwnTyped, Steps, Defer, ownVars
<1>6. ~Pending(t)'
  BY <1>4 DEF Pending
<1>7. DeferSameSession'
  BY <1>3, <1>6, OtherOutside DEF DeferSameSession, Pending, Kept, Defer
<1> QED
  BY <1>1, <1>3, <1>5, <1>7 DEF ServerInv

\* Answering leaves store and threads alone, but for the list of steps.
LEMMA AnswerInv ==
  ASSUME ServerInv, NEW t \in Thread, Answer(t)
  PROVE  ServerInv'
<1>1. StoreInv'
  BY StutterInv DEF ServerInv, Answer
<1>2. <<>> \in Seq(Step)
  OBVIOUS
<1>3. /\ ServeInv(Traffic)' /\ todo' = [todo EXCEPT ![t] = <<>> \o Tail(todo[t])]
      /\ UNCHANGED <<pc, req>>
  BY <1>2, ThenInv DEF ServerInv, Answer, Reply
<1>4. /\ todo'[t] \in {<<>>, <<"defer">>}
      /\ todo'[t] = <<"defer">> => todo[t] = <<"reply", "defer">>
      /\ \A u \in Thread : u # t => todo'[u] = todo[u]
  <2>1. todo[t] \in {<<"reply">>, <<"reply", "defer">>}
    BY DEF ServerInv, OwnTyped, Steps, Answer, Reply, At
  <2>2. /\ <<>> \o Tail(todo[t]) \in {<<>>, <<"defer">>}
        /\ <<>> \o Tail(todo[t]) = <<"defer">> => todo[t] = <<"reply", "defer">>
    <3>1. /\ <<>> \o Tail(<<"reply">>) = <<>>
          /\ <<>> \o Tail(<<"reply", "defer">>) = <<"defer">>
      BY Tails DEF Step
    <3>2. <<>> # <<"defer">>
      OBVIOUS
    <3> QED
      BY <2>1, <3>1, <3>2
  <2> QED
    BY <1>3, <2>2 DEF ServerInv, ServeInv, ServeTypeOK
<1>5. OwnTyped'
  BY <1>4 DEF ServerInv, OwnTyped, Steps, Answer, ownVars
<1>6. \A u \in Thread : Pending(u)' => Pending(u)
  BY <1>3, <1>4 DEF Pending, Inside, ViaCur
<1>7. \A u \in Thread : Kept(u) => Kept(u)'
  BY <1>3 DEF Kept, SessGet, Slot, Answer, storeVars, ownVars
<1>8. DeferSameSession'
  BY <1>6, <1>7, PendingKept DEF DeferSameSession, Pending, Kept
<1> QED
  BY <1>1, <1>3, <1>5, <1>8 DEF ServerInv

\* A step outside the handlers that brings no thread nearer to a deferral, and
\* leaves alone what the threads with one have in hand.
LEMMA OutsideInv ==
  ASSUME ServerInv, UNCHANGED storeVars, ServeInv(Traffic)', OwnTyped',
         \A t \in Thread : Pending(t)' => Pending(t) /\ req'[t] = req[t] /\ used'[t] = used[t]
  PROVE  ServerInv'
<1>1. StoreInv'
  BY StutterInv DEF ServerInv
<1>2. \A t \in Thread : Pending(t)' => Kept(t)'
  BY PendingKept DEF Kept, SessGet, Slot, storeVars
<1>3. DeferSameSession'
  BY <1>2 DEF DeferSameSession, Pending, Kept
<1> QED
  BY <1>1, <1>3 DEF ServerInv

\* The steps of serve around the handlers.
LEMMA AroundInv ==
  ASSUME ServerInv, NEW t \in Thread, Connect(t) \/ Transport(t) \/ Dispatch(t) \/ Finish(t)
  PROVE  ServerInv'
<1>0. ServeInv(Traffic) /\ OwnTyped
  BY DEF ServerInv
<1>1. CASE Connect(t) \/ Transport(t)
  <2>1. ServeInv(Traffic)'
    BY <1>0, <1>1, AcceptInv, ReadHeaderInv, ReadBodyInv, TurnedAwayInv, RequestTyped
       DEF Connect, Transport
  <2>2. /\ todo' = todo /\ used' = used /\ plugins' = plugins
        /\ cur' \in {cur, NULL} /\ UNCHANGED storeVars
    BY <1>1 DEF Connect, Transport, Accept, ReadHeader, ReadBody, Dropped, RefuseBig, RefuseOp,
                ownVars
  <2>3. \A u \in Thread : Inside(u)' => Inside(u) /\ req'[u] = req[u]
    <3>1. \E where : pc' = [pc EXCEPT ![t] = where] /\ where # "locked"
      BY <1>1 DEF Connect, Transport, Accept, ReadHeader, ReadBody, Dropped, RefuseBig, RefuseOp,
                  Goto, Hangup, Received
    <3>2. \A u \in Thread : u # t => req'[u] = req[u]
      BY <1>0, <1>1 DEF Connect, Transport, Accept, ReadHeader, ReadBody, Dropped, RefuseBig,
                  RefuseOp, ServeInv, RequestInHand
    <3> QED
      BY <1>0, <3>1, <3>2 DEF Inside, ServeInv, ServeTypeOK
  <2>4. OwnTyped'
    BY <1>0, <2>2 DEF OwnTyped
  <2>5. \A u \in Thread : Pending(u)' => Pending(u) /\ req'[u] = req[u] /\ used'[u] = used[u]
    BY <2>2, <2>3 DEF Pending, ViaCur
  <2> QED
    BY <2>1, <2>2, <2>4, <2>5, OutsideInv
<1>2. CASE Dispatch(t)
  <2>1. /\ ServeInv(Traffic)' /\ todo' = [todo EXCEPT ![t] = <<"handle">>]
        /\ pc' = [pc EXCEPT ![t] = "locked"] /\ req' = req
        /\ UNCHANGED <<storeVars, ownVars>>
    BY <1>0, <1>2, EnterInv DEF Dispatch, Enter, Goto
  <2>2. \A u \in Thread : u # t => todo'[u] = todo[u] /\ pc'[u] = pc[u]
    BY <2>1
  <2>3. todo'[t] = <<"handle">>
    BY <1>0, <2>1 DEF ServeInv, ServeTypeOK
  <2>4. OwnTyped'
    BY <1>0, <2>1, <2>2, <2>3 DEF OwnTyped, Steps, ownVars
  <2>5. \A u \in Thread : Pending(u)' => Pending(u)
    BY <2>1, <2>2, <2>3 DEF Pending, Inside, ViaCur
  <2> QED
    BY <2>1, <2>4, <2>5, OutsideInv DEF ownVars
<1>3. CASE Finish(t)
  <2>1. /\ ServeInv(Traffic)' /\ todo' = todo /\ pc' = [pc EXCEPT ![t] = "read"]
        /\ req' = [req EXCEPT ![t] = NULL] /\ used' = [used EXCEPT ![t] = NULL]
        /\ UNCHANGED <<storeVars, cur, plugins>>
    BY <1>0, <1>3, LeaveInv DEF Finish, Leave, Using
  <2>2. OwnTyped'
    BY <1>0, <2>1 DEF OwnTyped
  <2>3. \A u \in Thread : u # t => pc'[u] = pc[u] /\ req'[u] = req[u] /\ used'[u] = used[u]
    BY <1>0, <2>1 DEF OwnTyped, ServeInv, RequestInHand, ServeTypeOK
  <2>4. ~Inside(t)'
    BY <1>0, <2>1 DEF Inside, ServeInv, ServeTypeOK
  <2>5. \A u \in Thread : Pending(u)' => Pending(u) /\ req'[u] = req[u] /\ used'[u] = used[u]
    BY <2>1, <2>3, <2>4 DEF Pending, Inside, ViaCur
  <2> QED
    BY <2>1, <2>2, <2>5, OutsideInv
<1> QED
  BY <1>1, <1>2, <1>3

\* Setting the transports up, giving the pipe up, and flushing it after a client.
LEMMA StartInv ==
  ASSUME ServerInv, Startup
  PROVE  ServerInv'
<1>1. ServeInv(Traffic)' /\ UNCHANGED <<storeVars, ownVars, req, todo>>
  BY StartupInv DEF ServerInv, Startup, StartTcp, PipeFails, Drained
<1>2. \A u \in Thread : Inside(u)' => Inside(u)
  BY DEF Startup, StartTcp, PipeFails, Drained, Goto, Inside, Thread, ServerInv, ServeInv,
         ServeTypeOK
<1>3. OwnTyped'
  BY <1>1 DEF ServerInv, OwnTyped, ownVars
<1>4. \A u \in Thread : Pending(u)' => Pending(u)
  BY <1>1, <1>2 DEF Pending, ViaCur
<1> QED
  BY <1>1, <1>3, <1>4, OutsideInv DEF ownVars

\* Every step of the server preserves the invariant.
LEMMA NextInv ==
  ASSUME ServerInv, [Next]_vars
  PROVE  ServerInv'
<1>1. CASE UNCHANGED vars
  <2>1. ServeInv(Traffic)' /\ OwnTyped'
    BY <1>1, ServeStutterInv DEF ServerInv, OwnTyped, vars, serveVars, ownVars
  <2>2. \A u \in Thread : Pending(u)' => Pending(u)
    BY <1>1 DEF Pending, Inside, ViaCur, vars, serveVars
  <2> QED
    BY <1>1, <2>1, <2>2, OutsideInv DEF vars, serveVars, ownVars
<1>2. CASE ~Gone /\ Startup
  BY <1>2, StartInv
<1>3. ASSUME ~Gone, NEW t \in Thread,
             \/ Connect(t) \/ Transport(t) \/ Dispatch(t)
             \/ RunHandler(t) \/ Defer(t) \/ Answer(t) \/ Finish(t)
      PROVE  ServerInv'
  BY <1>3, AroundInv, RunHandlerInv, DeferStepInv, AnswerInv DEF Gone
<1> QED
  BY <1>1, <1>2, <1>3 DEF Next

\* What a handler does to the store is one step of the table of numbered objects, or
\* none, the write through the pipe's own pointer included.
LEMMA HandlerImplements ==
  ASSUME ServerInv, fault = "none", NEW t \in Thread, RunHandler(t)
  PROVE  Table!Next \/ UNCHANGED Contents
<1>1. /\ StoreInv /\ cur \in Ptr \cup {NULL}
      /\ req[t].handle \in WireHandle /\ req[t].type \in Handler \cup {NULL}
      /\ req[t].len \in Arg /\ req[t].len \in U32 /\ req[t].flag \in BOOLEAN
  <2>1. req[t].len \in Arg
    BY DEF RunHandler, ServerInv, ServeInv, RequestInHand, Serving, At
  <2> QED
    BY <2>1, HandlerFacts DEF ServerInv, OwnTyped, RunHandler
<1>2. CASE h_open(t)
  BY <1>1, <1>2, OpenCreates DEF h_open, plugin_for
<1>3. CASE UNCHANGED storeVars \/ Crash("cur")
  BY <1>3, SameContents DEF storeVars, Crash
<1>4. CASE /\ cur # NULL /\ sess[cur] # NULL /\ SetData(cur, req[t].len, "cur")
           /\ UNCHANGED <<slots, count, recent, batch>>
  <2>1. "cur" \in FaultKind /\ cur \in Ptr
    BY <1>1, <1>4 DEF FaultKind
  <2> QED
    BY <1>1, <1>4, <2>1, WriteUpdates
<1>5. CASE \/ \E ret \in Handler \cup {SESS_ERR} : SessUseRun(req[t].handle, ret)
           \/ \E ret \in {SESS_OK, SESS_ERR} :
                \/ SessUseSet(req[t].handle, req[t].len, ret)
                \/ SessUseAppend(req[t].handle, req[t].len, ret)
                \/ SessClose(req[t].handle, ret)
           \/ \E verbose \in BOOLEAN : SessStat(verbose)
           \/ SessFlush(req[t].len)
  <2>1. Call
    BY <1>1, <1>5 DEF Call
  <2> QED
    BY <1>1, <2>1, CallImplements
<1>6. CASE h_use_run(t)
  <2>1. \/ UNCHANGED storeVars \/ Crash("cur")
        \/ \E ret \in Handler \cup {SESS_ERR} : SessUseRun(req[t].handle, ret)
    BY <1>6, Zenon DEF h_use_run
  <2> QED
    BY <2>1, <1>3, <1>5
<1>7. CASE h_use_set(t)
  BY <1>3, <1>4, <1>5, <1>7 DEF h_use_set
<1>8. CASE h_use_append(t) \/ h_close(t) \/ h_flush(t)
  BY <1>5, <1>8 DEF h_use_append, h_close, h_flush
<1>9. CASE h_stat(t)
  <2>1. (req[t].flag /\ t # "tcp") \in BOOLEAN
    OBVIOUS
  <2> QED
    BY <1>5, <1>9, <2>1 DEF h_stat
<1> QED
  BY <1>2, <1>6, <1>7, <1>8, <1>9 DEF RunHandler

-----------------------------------------------------------------------------
(* Theorems.                                                               *)

\* After any sequence of requests on both transports, interleaved in any way and
\* cut off anywhere, the store, the threads and the deferrals are as ServerInv says.
THEOREM ServerInvariant == Spec => []ServerInv
BY InitInv, NextInv, PTL DEF Spec

\* At most one thread is inside a handler, the owner of g_lock (serve).
THEOREM LockStaysDisciplined == Spec => []LockDiscipline
<1>1. ServerInv => LockDiscipline
  BY DEF ServerInv, ServeInv
<1> QED
  BY <1>1, ServerInvariant, PTL

\* The argument buffer is freed on every way through serve.
THEOREM NoArgumentStays == Spec => []NoArgumentLeft
<1>1. ServerInv => NoArgumentLeft
  BY DEF ServerInv, ServeInv
<1> QED
  BY <1>1, ServerInvariant, PTL

\* A request and its deferral are carried out on one session (h_use_run,
\* h_use_set), whatever the other transport asks for meanwhile.
THEOREM DeferralsKeepTheirSession == Spec => []DeferSameSession
<1>1. ServerInv => DeferSameSession
  BY DEF ServerInv
<1> QED
  BY <1>1, ServerInvariant, PTL

\* The store two threads share, one of them with a pointer of its own into it, keeps
\* table, buffers and batch as a store with one caller does (g_lock, h_open ... h_flush).
THEOREM ServerKeepsStore == Spec => [](TableConsistent /\ BuffersOwned /\ BatchInBounds)
<1>1. ServerInv => TableConsistent /\ BuffersOwned /\ BatchInBounds
  BY DEF ServerInv, StoreInv
<1> QED
  BY <1>1, ServerInvariant, PTL

\* The server implements the table of numbered objects for its two clients: a number
\* names one session from its OPEN to its CLOSE, whichever transport asks and whatever
\* the pipe's pointer and g_recent do meanwhile (serve, h_open ... h_close).
THEOREM ServerImplementsTable == Spec => ImplementsHandleTable
<1>1. Init => Table!Init
  BY DEF Init, SessNew, Table!Init, Contents
<1>2. ServerInv /\ [Next]_vars => [Table!Next]_Contents
  <2> SUFFICES ASSUME ServerInv, [Next]_vars, ~UNCHANGED <<slots, sess>>
               PROVE  Table!Next \/ UNCHANGED Contents
    BY SameContents
  <2>1. ~Gone /\ \E t \in Thread : RunHandler(t) \/ Defer(t)
    BY DEF Next, Startup, Connect, Transport, Dispatch, Answer, Finish, vars, storeVars
  <2>2. ASSUME NEW t \in Thread, Defer(t) PROVE UNCHANGED <<slots, sess>>
    BY <2>2 DEF Defer, SessDefer, LiveSession, StaleSession, Crash
  <2> QED
    BY <2>1, <2>2, HandlerImplements DEF Gone
<1> QED
  BY <1>1, <1>2, ServerInvariant, PTL DEF Spec, ImplementsHandleTable, Table!Spec

\* The steps due for a list; a handler leaves two at most.
Due(steps) == IF steps = <<"handle">> THEN 3 ELSE Len(steps)

\* The steps the owner of g_lock has before it at most, LeaveCriticalSection included.
HoldRemaining == IF lock = NULL THEN 0 ELSE 1 + Due(todo[lock])

LEMMA DueIs ==
  /\ \A s \in Steps : Due(s) \in Nat
  /\ Due(<<>>) = 0 /\ Due(<<"handle">>) = 3 /\ Due(<<"reply">>) = 1 /\ Due(<<"defer">>) = 1
  /\ Due(<<"reply", "defer">>) = 2 /\ Due(<<"defer", "reply">>) = 2
<1>1. /\ <<>> # <<"handle">> /\ <<"reply">> # <<"handle">> /\ <<"defer">> # <<"handle">>
      /\ <<"reply", "defer">> # <<"handle">> /\ <<"defer", "reply">> # <<"handle">>
  OBVIOUS
<1>2. /\ Due(<<>>) = 0 /\ Due(<<"handle">>) = 3 /\ Due(<<"reply">>) = 1 /\ Due(<<"defer">>) = 1
      /\ Due(<<"reply", "defer">>) = 2 /\ Due(<<"defer", "reply">>) = 2
  BY <1>1 DEF Due
<1> QED
  BY <1>2 DEF Steps

\* Whoever owns the lock is at most four steps from giving it back, each step it takes
\* brings it nearer, and a step of the other thread meanwhile touches neither the store
\* nor what the owner has to do: what LockReleased needs besides that a thread inside
\* the critical section runs on (serve and its handlers).
THEOREM OwnerGoesForward ==
  Spec => /\ [](HoldRemaining \in 0 .. 4)
          /\ [][lock # NULL => HoldRemaining' < HoldRemaining \/ UNCHANGED <<lock, todo, storeVars>>]_vars
<1>1. ServerInv => HoldRemaining \in 0 .. 4
  <2> SUFFICES ASSUME ServerInv, lock # NULL PROVE HoldRemaining \in 0 .. 4
    BY DEF HoldRemaining
  <2>1. todo[lock] \in Steps
    BY DEF ServerInv, ServeInv, ServeTypeOK, OwnTyped
  <2> QED
    BY <2>1, DueIs DEF HoldRemaining, Steps
<1>2. ASSUME ServerInv, Next, lock # NULL
      PROVE  HoldRemaining' < HoldRemaining \/ UNCHANGED <<lock, todo, storeVars>>
  <2>1. CASE Gone /\ UNCHANGED vars
    BY <2>1 DEF vars, serveVars
  <2>2. CASE Startup
    BY <2>2 DEF Startup, StartTcp, PipeFails, Drained
  <2>3. ASSUME NEW t \in Thread, Connect(t) \/ Transport(t) \/ Dispatch(t)
        PROVE  UNCHANGED <<lock, todo, storeVars>>
    BY <1>2, <2>3 DEF Connect, Transport, Dispatch, Accept, ReadHeader, ReadBody, Dropped,
                      RefuseBig, RefuseOp, Enter, Acquire
  <2>4. ASSUME NEW t \in Thread, RunHandler(t) \/ Defer(t) \/ Answer(t)
        PROVE  HoldRemaining' < HoldRemaining
    <3>1. PICK step \in {"handle", "defer", "reply"} : At(t, step)
      BY <2>4 DEF RunHandler, Defer, Answer, Reply
    <3>2. lock = t /\ todo[t] \in Steps /\ todo \in [Thread -> Seq(Step)]
      BY <1>2, <3>1 DEF ServerInv, ServeInv, LockDiscipline, Inside, At, OwnTyped, ServeTypeOK
    <3>. lock' = lock
      BY <2>4, HandlerThen, <1>2 DEF Defer, Answer, Reply, Then
    <3>6. HoldRemaining = 1 + Due(todo[t]) /\ HoldRemaining' = 1 + Due(todo'[t])
      BY <3>2 DEF HoldRemaining, Due
    <3>7. SUFFICES Due(todo'[t]) < Due(todo[t]) /\ Due(todo[t]) \in Nat /\ Due(todo'[t]) \in Nat
      BY <3>6
    <3>3. CASE RunHandler(t)
      <4>1. PICK steps \in {<<"reply">>, <<"reply", "defer">>, <<"defer", "reply">>} : Then(t, steps)
        BY <1>2, <3>3, HandlerThen
      <4>2. todo[t] = <<"handle">>
        BY <3>2, <3>3 DEF Steps, RunHandler, At
      <4>3. steps \o Tail(todo[t]) = steps
        BY <4>2, Tails DEF Step
      <4>4. todo'[t] = steps /\ lock' = lock
        BY <3>2, <4>1, <4>3 DEF Then
      <4> QED
        BY <4>2, <4>4, DueIs
    <3>4. CASE Defer(t)
      <4>1. todo[t] \in {<<"defer">>, <<"defer", "reply">>}
        BY <3>2, <3>4 DEF Steps, Defer, At
      <4>2. lock' = lock /\ todo'[t] = <<>> \o Tail(todo[t])
        BY <3>2, <3>4 DEF Defer, Then
      <4>3. <<>> \o Tail(<<"defer">>) = <<>> /\ <<>> \o Tail(<<"defer", "reply">>) = <<"reply">>
        BY Tails DEF Step
      <4>4. \/ todo[t] = <<"defer">> /\ todo'[t] = <<>>
            \/ todo[t] = <<"defer", "reply">> /\ todo'[t] = <<"reply">>
        BY <4>1, <4>2, <4>3, Zenon
      <4>5. \/ Due(todo[t]) = 1 /\ Due(todo'[t]) = 0
            \/ Due(todo[t]) = 2 /\ Due(todo'[t]) = 1
        BY <4>4, DueIs, Zenon
      <4> QED
        BY <4>5
    <3>5. CASE Answer(t)
      <4>1. todo[t] \in {<<"reply">>, <<"reply", "defer">>}
        BY <3>2, <3>5 DEF Steps, Answer, Reply, At
      <4>2. lock' = lock /\ todo'[t] = <<>> \o Tail(todo[t])
        BY <3>2, <3>5 DEF Answer, Reply, Then
      <4>3. <<>> \o Tail(<<"reply">>) = <<>> /\ <<>> \o Tail(<<"reply", "defer">>) = <<"defer">>
        BY Tails DEF Step
      <4>4. \/ todo[t] = <<"reply">> /\ todo'[t] = <<>>
            \/ todo[t] = <<"reply", "defer">> /\ todo'[t] = <<"defer">>
        BY <4>1, <4>2, <4>3, Zenon
      <4>5. \/ Due(todo[t]) = 1 /\ Due(todo'[t]) = 0
            \/ Due(todo[t]) = 2 /\ Due(todo'[t]) = 1
        BY <4>4, DueIs, Zenon
      <4> QED
        BY <4>5
    <3> QED
      BY <2>4, <3>3, <3>4, <3>5
  <2>5. ASSUME NEW t \in Thread, Finish(t)
        PROVE  HoldRemaining' < HoldRemaining
    <3>1. lock' = NULL /\ HoldRemaining' = 0
      BY <2>5 DEF Finish, Leave, Release, HoldRemaining
    <3>2. todo[lock] \in Steps
      BY <1>2 DEF ServerInv, ServeInv, ServeTypeOK, OwnTyped
    <3> QED
      BY <1>2, <3>1, <3>2, DueIs DEF HoldRemaining
  <2> QED
    BY <1>2, <2>1, <2>2, <2>3, <2>4, <2>5 DEF Next
<1>3. ServerInv /\ [Next]_vars
        => [lock # NULL => HoldRemaining' < HoldRemaining \/ UNCHANGED <<lock, todo, storeVars>>]_vars
  BY <1>2
<1> QED
  BY <1>1, <1>3, ServerInvariant, PTL DEF Spec

-----------------------------------------------------------------------------
(* The replay: it uses the store only through its operations, so what is   *)
(* proved of the store holds of every replay of every op-log.              *)

Typed == [op: OpName, type: Handler \cup {NULL}, handle: WireHandle,
          len: 0 .. MaxArg + 1, flag: BOOLEAN]

\* While a record is carried out, it is one whose length was accepted.
RecordAccepted ==
  stage \in {"body", "defer"} => rec \in Typed /\ rec.len \in Arg

LEMMA RecordAcceptedInvariant == ReplaySpec => []RecordAccepted
<1>1. ReplayInit => RecordAccepted
  BY DEF ReplayInit, RecordAccepted
<1>2. RecordAccepted /\ [ReplayNext]_replayVars => RecordAccepted'
  <2> SUFFICES ASSUME RecordAccepted, [ReplayNext]_replayVars PROVE RecordAccepted'
    OBVIOUS
  <2>1. CASE ReadRecord
    <3>1. PICK r \in Records : r.len <= MaxArg /\ rec' = r
      BY <2>1 DEF ReadRecord
    <3>2. r \in Typed
      BY ReplayAssumption DEF Typed
    <3> QED
      BY <3>1, <3>2 DEF RecordAccepted, Typed, Arg
  <2>2. CASE ReadLogHeader \/ EndReplay \/ Truncated
    BY <2>2 DEF ReadLogHeader, EndReplay, Truncated, RecordAccepted
  <2>3. CASE CarryOut \/ DeferRecord
    BY <2>3 DEF CarryOut, DeferRecord, RecordAccepted
  <2>4. CASE UNCHANGED replayVars
    BY <2>4 DEF replayVars, wmainVars, RecordAccepted
  <2> QED
    BY <2>1, <2>2, <2>3, <2>4 DEF ReplayNext, Work
<1> QED
  BY <1>1, <1>2, PTL DEF ReplaySpec

\* A replay of any op-log is one use of the session store: each record is one
\* call of its API or two, and nothing else touches it (wmain of sessreplay.c).
THEOREM ReplayUsesStore == ReplaySpec => StoreSpec
<1>1. ReplayInit => SessNew
  BY DEF ReplayInit
<1>2. RecordAccepted /\ [ReplayNext]_replayVars => [StoreNext]_storeVars
  <2> SUFFICES ASSUME RecordAccepted, [ReplayNext]_replayVars, ~UNCHANGED storeVars
               PROVE  Call
    BY DEF StoreNext
  <2>1. ~Done /\ (CarryOut \/ DeferRecord)
    BY DEF ReplayNext, Work, ReadLogHeader, EndReplay, ReadRecord, Truncated, replayVars
  <2>2. fault = "none"
    BY <2>1 DEF Done
  <2>3. rec \in Typed /\ rec.len \in Arg
    BY <2>1 DEF CarryOut, DeferRecord, RecordAccepted
  <2>4. rec.handle \in WireHandle /\ rec.flag \in BOOLEAN /\ rec.type \in Handler \cup {NULL}
    BY <2>3 DEF Typed
  <2>5. CASE DeferRecord
    BY <2>2, <2>4, <2>5 DEF DeferRecord, Call
  <2>6. CASE CarryOut
    <3>1. Operation
      BY <2>6 DEF CarryOut
    <3>2. CASE rec.op = "open" /\ \E ret \in Handle \cup {SESS_ERR} :
                 SessOpen(handler_for(rec.type), rec.len, {}, ret)
      <4>1. handler_for(rec.type) \in Handler \cup {NULL}
        BY <2>4 DEF handler_for
      <4> QED
        BY <2>2, <2>3, <3>2, <4>1 DEF Call
    <3>3. CASE \E ret \in Handler \cup {SESS_ERR} : SessUseRun(rec.handle, ret)
      BY <2>2, <2>4, <3>3 DEF Call
    <3>4. CASE \E ret \in {SESS_OK, SESS_ERR} : SessUseSet(rec.handle, rec.len, ret)
      BY <2>2, <2>3, <2>4, <3>4 DEF Call
    <3>5. CASE \E ret \in {SESS_OK, SESS_ERR} : SessUseAppend(rec.handle, rec.len, ret)
      BY <2>2, <2>3, <2>4, <3>5 DEF Call
    <3>6. CASE \E ret \in {SESS_OK, SESS_ERR} : SessClose(rec.handle, ret)
      BY <2>2, <2>4, <3>6 DEF Call
    <3>7. CASE SessStat(rec.flag)
      BY <2>2, <2>4, <3>7 DEF Call
    <3>8. CASE SessFlush(rec.len)
      BY <2>2, <2>3, <3>8 DEF Call
    <3> QED
      BY <3>1, <3>2, <3>3, <3>4, <3>5, <3>6, <3>7, <3>8 DEF Operation
  <2> QED
    BY <2>1, <2>5, <2>6
<1> QED
  BY <1>1, <1>2, RecordAcceptedInvariant, PTL DEF ReplaySpec, StoreSpec

\* So a replay keeps the handle table, the sessions, their buffers and the batch
\* consistent, and only what FaultsHaveCause lists ends it early, for every op-log.
THEOREM ReplayKeepsStore ==
  ReplaySpec => [](TableConsistent /\ BuffersOwned /\ BatchInBounds) /\ FaultsHaveCause
<1>1. StoreInv => TableConsistent /\ BuffersOwned /\ BatchInBounds
  BY DEF StoreInv
<1> QED
  BY <1>1, ReplayUsesStore, StoreInvariant, FaultsAreCaused, PTL

\* And a replay of any op-log is a use of that table, too (wmain of sessreplay.c).
THEOREM ReplayImplementsTable == ReplaySpec => ImplementsHandleTable
BY ReplayUsesStore, StoreImplementsTable, PTL

\* Every record is dropped with its argument, wherever the op-log ends (free(arg) in
\* wmain).
THEOREM RecordsStayInHand == ReplaySpec => []RecordInHand
<1>1. ReplayInit => RecordInHand
  BY DEF ReplayInit, RecordInHand
<1>2. RecordInHand /\ [ReplayNext]_replayVars => RecordInHand'
  <2> SUFFICES ASSUME RecordInHand, [ReplayNext]_replayVars PROVE RecordInHand'
    OBVIOUS
  <2>1. CASE ReadRecord
    <3>1. PICK r \in Records : r.len <= MaxArg /\ rec' = r /\ buffer' = (r.len > 0)
      BY <2>1, Zenon DEF ReadRecord
    <3>2. stage' = "body" /\ left' = left /\ left > 0
      BY <2>1 DEF ReadRecord
    <3>3. r # NULL
      BY ReplayAssumption
    <3>4. buffer' <=> rec'.len > 0
      BY <3>1, Zenon
    <3> QED
      BY <3>1, <3>2, <3>3, <3>4 DEF RecordInHand
  <2>2. CASE ReadLogHeader \/ EndReplay
    BY <2>2 DEF ReadLogHeader, EndReplay, RecordInHand
  <2>3. CASE Truncated
    BY <2>3 DEF Truncated, FreeRecord, RecordInHand
  <2>4. CASE CarryOut
    <3>1. CASE UNCHANGED <<left, rec, buffer>> /\ stage' = "defer"
      BY <2>4, <3>1 DEF CarryOut, RecordInHand
    <3>2. CASE FreeRecord /\ stage' = "loop"
      BY <3>2 DEF FreeRecord, RecordInHand
    <3> QED
      BY <2>4, <3>1, <3>2 DEF CarryOut
  <2>5. CASE DeferRecord
    BY <2>5 DEF DeferRecord, FreeRecord, RecordInHand
  <2>6. CASE UNCHANGED replayVars
    BY <2>6 DEF replayVars, wmainVars, RecordInHand
  <2> QED
    BY <2>1, <2>2, <2>3, <2>4, <2>5, <2>6 DEF ReplayNext, Work
<1> QED
  BY <1>1, <1>2, PTL DEF ReplaySpec

\* Records are counted down from what the header announced, and one is due while it is
\* carried out.
RecordsCounted ==
  /\ left \in 0 .. MaxRecords
  /\ stage \in {"body", "defer"} => left > 0

\* What wmain has before it at most: a record is read, carried out and deferred.
ReplayRemaining ==
  IF stage = "header" THEN 3 * MaxRecords + 2
  ELSE IF stage = "loop" THEN 3 * left + 1
  ELSE IF stage = "body" THEN 3 * left
  ELSE IF stage = "defer" THEN 3 * left - 1
  ELSE 0

\* Every step of the program leaves less before it, those that end in a fault included:
\* no op-log makes the loop turn for ever, or more often than its header says.  This is
\* what ReplayEnds needs besides that wmain runs on (wmain of sessreplay.c).
THEOREM ReplayGoesForward ==
  ReplaySpec => [](ReplayRemaining \in Nat) /\ [][ReplayRemaining' < ReplayRemaining]_replayVars
<1>1. ReplayInit => RecordsCounted
  BY ReplayAssumption DEF ReplayInit, RecordsCounted
<1>2. RecordsCounted => ReplayRemaining \in Nat
  BY ReplayAssumption DEF RecordsCounted, ReplayRemaining
<1>3. ASSUME RecordsCounted, ReplayNext, ~UNCHANGED replayVars
      PROVE  RecordsCounted' /\ ReplayRemaining' < ReplayRemaining
  <2>1. left \in Nat /\ MaxRecords \in Nat /\ left <= MaxRecords
    BY <1>3, ReplayAssumption DEF RecordsCounted
  <2>2. CASE ReadLogHeader
    BY <2>1, <2>2 DEF ReadLogHeader, RecordsCounted, ReplayRemaining
  <2>3. CASE EndReplay
    BY <1>3, <2>1, <2>3 DEF EndReplay, RecordsCounted, ReplayRemaining
  <2>4. CASE ReadRecord
    <3>1. stage = "loop" /\ left > 0 /\ stage' = "body" /\ left' = left
      BY <2>4 DEF ReadRecord
    <3> QED
      BY <2>1, <3>1 DEF RecordsCounted, ReplayRemaining
  <2>5. CASE Truncated
    BY <1>3, <2>1, <2>5 DEF Truncated, RecordsCounted, ReplayRemaining
  <2>6. CASE CarryOut
    <3>1. /\ stage = "body" /\ left > 0
          /\ \/ stage' = "defer" /\ left' = left
             \/ stage' = "loop" /\ left' = left - 1
      BY <1>3, <2>6 DEF CarryOut, CountRecord, RecordsCounted
    <3> QED
      BY <2>1, <3>1 DEF RecordsCounted, ReplayRemaining
  <2>7. CASE DeferRecord
    <3>1. stage = "defer" /\ left > 0 /\ stage' = "loop" /\ left' = left - 1
      BY <1>3, <2>7 DEF DeferRecord, CountRecord, RecordsCounted
    <3> QED
      BY <2>1, <3>1 DEF RecordsCounted, ReplayRemaining
  <2> QED
    BY <1>3, <2>2, <2>3, <2>4, <2>5, <2>6, <2>7 DEF ReplayNext, Work
<1>4. RecordsCounted /\ UNCHANGED replayVars => RecordsCounted'
  BY DEF replayVars, wmainVars, RecordsCounted
<1>5. RecordsCounted /\ [ReplayNext]_replayVars => RecordsCounted' /\ [ReplayRemaining' < ReplayRemaining]_replayVars
  BY <1>3, <1>4
<1> QED
  BY <1>1, <1>2, <1>5, PTL DEF ReplaySpec
=============================================================================
