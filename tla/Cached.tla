------------------------------- MODULE Cached -------------------------------
(***************************************************************************)
(* cached.exe: the cache served to one pipe client and one TCP client at a *)
(* time.  GET and STATS walk from entry to entry while they write replies  *)
(* that may block; nothing but g_lock keeps the entries where they are.    *)
(***************************************************************************)
EXTENDS Cache, ServeOnce

CONSTANTS Codec,     \* the codecs that are installed
          Traffic    \* the requests the clients send, some of Requests below

VARIABLES
  val,     \* whether each thread holds a value buffer; arg is its key buffer
  cursor,  \* the entry each thread's handler points at
  lines,   \* history: of the STATS lines each thread announced, how many are due,
           \* and how many of those it passed over, as there was no memory for them
  codecs   \* g_codecs: the codecs that were found at startup

ownVars == <<val, cursor, lines, codecs>>
vars == <<cacheVars, serveVars, ownVars>>

\* A field an operation does not read has one value; NULL stands for the codec
\* numbers that no codec is loaded for.
Request(op, names, lens, flags, cids) ==
  [op: {op}, name: names, len: lens, flag: flags, codec: cids]

Requests ==
  UNION {Request("set",   Name, 0 .. MaxArg + 1, {FALSE}, {NULL}),
         Request("set",   Name, 0 .. MaxArg + 1, {TRUE}, Codec \cup {NULL}),
         Request("get",   Name, {0}, {FALSE}, {NULL}),
         Request("del",   Name, {0}, {FALSE}, {NULL}),
         Request("stats", Name, {0}, BOOLEAN, {NULL}),
         Request("bad",   Name, {0}, {FALSE}, {NULL})}

ASSUME CachedAssumption == Codec \subseteq {"raw", "hex"} /\ Traffic \subseteq Requests

-----------------------------------------------------------------------------
(* Reading a request.                                                      *)

FreeVal(t) == val' = [val EXCEPT ![t] = FALSE]

\* The op is looked at first, then the length of the value; then the key buffer is
\* allocated, if there is memory.
ReadRequest(t, r) ==
  /\ pc[t] = "read"
  /\ \/ /\ Goto(t, IF r.op = "bad" THEN "badop" ELSE IF r.len > MaxArg THEN "big" ELSE "body")
        /\ req' = [req EXCEPT ![t] = r]
        /\ arg' = [arg EXCEPT ![t] = r.op # "bad" /\ r.len <= MaxArg]
     \/ /\ Hangup(t)
        /\ UNCHANGED <<req, arg>>
  /\ UNCHANGED <<lock, todo, val>>

\* The key is complete; it is copied and the value buffer is allocated if there is
\* a value to come.
ReadKey(t) ==
  /\ pc[t] = "body"
  /\ Goto(t, IF req[t].len > 0 THEN "value" ELSE "enter")
  /\ val' = [val EXCEPT ![t] = req[t].len > 0]
  /\ UNCHANGED <<req, arg, lock, todo>>

ReadValue(t) ==
  /\ pc[t] = "value"
  /\ Goto(t, "enter")
  /\ UNCHANGED <<req, arg, lock, todo, val>>

\* Variant: a connection that drops within the value leaves it behind.
DropRequest_(t) ==
  /\ pc[t] \in {"read", "body", "value"}
  /\ EndRequest(t)
  /\ UNCHANGED <<lock, val>>

\* The client is gone, or there is no memory for the key or the value.
DropRequest(t) ==
  /\ pc[t] \in {"read", "body", "value"}
  /\ EndRequest(t)
  /\ FreeVal(t)
  /\ UNCHANGED lock

Refuse(t) == (RefuseBig(t) \/ RefuseOnce(t)) /\ UNCHANGED val

-----------------------------------------------------------------------------
(* The handlers, up to the first reply.                                    *)

codec_for(id) == IF id \in codecs THEN id ELSE NULL

\* The lengths a codec can make of a value; without one the value is copied.
CodecApply(codec, len) == IF codec = "hex" THEN 0 .. len \div 2 ELSE {len}

\* On the fast path there may be no memory for the codec's output.
handle_set(t) ==
  /\ IF t = "tcp" /\ req[t].flag
     THEN \/ UNCHANGED cacheVars
          \/ \E len \in CodecApply(codec_for(req[t].codec), req[t].len) :
               CacheStoreFast(req[t].name, len)
     ELSE CacheSet(req[t].name, req[t].len)
  /\ Then(t, <<"reply">>)
  /\ UNCHANGED <<cursor, lines>>

handle_get(t) ==
  \E p \in Ptr \cup {NULL} :
    /\ IF t = "tcp" THEN CacheGetRaw(req[t].name, p) ELSE CacheGet(req[t].name, p)
    /\ Then(t, IF p = NULL THEN <<"reply">> ELSE <<"reply", "value">>)
    /\ cursor' = [cursor EXCEPT ![t] = p]
    /\ UNCHANGED lines

handle_del(t) ==
  /\ IF t = "tcp" THEN UNCHANGED cacheVars ELSE CacheDel(req[t].name)
  /\ Then(t, <<"reply">>)
  /\ UNCHANGED <<cursor, lines>>

Before(x, y) == x[1] < y[1] \/ (x[1] = y[1] /\ x[2] < y[2])

\* The entry in the first of these places.
FirstOf(places) ==
  IF places = {} THEN NULL
  ELSE PtrAt(CHOOSE x \in places : \A y \in places : x = y \/ Before(x, y))

NoLines == [due |-> 0, unsent |-> 0]

\* "ENTRIES %u" first, then the walk from the first bucket on.
handle_stats(t) ==
  /\ Then(t, <<"reply", "walk">>)
  /\ cursor' = [cursor EXCEPT ![t] = FirstOf(Place)]
  /\ lines' = [lines EXCEPT ![t] = [due |-> count, unsent |-> 0]]
  /\ UNCHANGED cacheVars

\* g_handlers[req.op]
RunHandler(t) ==
  /\ At(t, "handle")
  /\ \/ req[t].op = "set"   /\ handle_set(t)
     \/ req[t].op = "get"   /\ handle_get(t)
     \/ req[t].op = "del"   /\ handle_del(t)
     \/ req[t].op = "stats" /\ handle_stats(t)
  /\ UNCHANGED <<val, codecs>>

\* GET, after its first reply: the value is sent from the entry.
SendValue(t) ==
  /\ At(t, "value")
  /\ IF entry[cursor[t]] = NULL THEN Crash("entry") ELSE UNCHANGED cacheVars
  /\ cursor' = [cursor EXCEPT ![t] = NULL]
  /\ Then(t, <<>>)
  /\ UNCHANGED <<val, lines, codecs>>

Beyond(p) == {y \in Place : \E x \in Place : PtrAt(x) = p /\ Before(x, y)}

\* The line of an entry is sent, or, without memory to print it to, it is not; then
\* on to the next entry.
NextEntry(t) ==
  /\ entry[cursor[t]] # NULL
  /\ cursor' = [cursor EXCEPT ![t] = FirstOf(Beyond(cursor[t]))]
  /\ \/ LineFits(entry[cursor[t]]) /\ lines' = [lines EXCEPT ![t].due = @ - 1]
     \/ lines' = [lines EXCEPT ![t].unsent = @ + 1]
  /\ UNCHANGED cacheVars

\* Line and preview are printed into blocks of a fixed size.
Overruns(t) ==
  \/ ~LineFits(entry[cursor[t]])
  \/ t = "pipe" /\ req[t].flag /\ ~PreviewFits(entry[cursor[t]])

WalkCrashes(t) ==
  /\ IF entry[cursor[t]] = NULL THEN Crash("entry") ELSE Overruns(t) /\ Crash("line")
  /\ cursor' = [cursor EXCEPT ![t] = NULL]
  /\ lines' = [lines EXCEPT ![t] = NoLines]

\* STATS: a line for an entry, on the pipe with the preview asked for, or the end.
Walk(t) ==
  /\ At(t, "walk")
  /\ \/ /\ cursor[t] = NULL
        /\ Then(t, <<>>)
        /\ lines' = [lines EXCEPT ![t] = NoLines]
        /\ UNCHANGED <<cacheVars, cursor>>
     \/ /\ cursor[t] # NULL
        /\ NextEntry(t) \/ WalkCrashes(t)
        /\ UNCHANGED serveVars
  /\ UNCHANGED <<val, codecs>>

-----------------------------------------------------------------------------
Init ==
  /\ CacheNew
  /\ ServeInit
  /\ val = [t \in Thread |-> FALSE]
  /\ cursor = [t \in Thread |-> NULL]
  /\ lines = [t \in Thread |-> NoLines]
  /\ codecs \in SUBSET Codec

\* The steps of serve around the handlers, which leave the cache alone.
Transport(t) ==
  /\ \/ Accept(t) /\ UNCHANGED val
     \/ \E r \in Traffic : ReadRequest(t, r)
     \/ ReadKey(t)
     \/ ReadValue(t)
     \/ DropRequest(t)
     \/ Refuse(t)
  /\ UNCHANGED <<cacheVars, cursor, lines, codecs>>

Startup ==
  /\ StartTcp \/ PipeFails \/ Drained
  /\ UNCHANGED <<cacheVars, ownVars>>

Dispatch(t) == Enter(t) /\ UNCHANGED <<cacheVars, ownVars>>

Answer(t) == Reply(t) /\ UNCHANGED <<cacheVars, ownVars>>

Finish(t) == LeaveOnce(t) /\ FreeVal(t) /\ UNCHANGED <<cacheVars, cursor, lines, codecs>>

Gone == fault # "none" \/ Exited

Inner(t) == RunHandler(t) \/ SendValue(t) \/ Walk(t) \/ Answer(t) \/ Finish(t)

Next ==
  \/ /\ ~Gone
     /\ Startup \/ \E t \in Thread : Transport(t) \/ Dispatch(t) \/ Inner(t)
  \/ Gone /\ UNCHANGED vars

Spec == Init /\ [][Next]_vars

\* As in Sessiond: a thread inside the critical section runs on, a reply ends, a
\* lock that stays free is taken, and nothing is assumed of what clients send.
FairSpec == Spec /\ \A t \in Thread : WF_vars(~Gone /\ Inner(t)) /\ WF_vars(~Gone /\ Dispatch(t))

-----------------------------------------------------------------------------
(* Properties.                                                             *)

\* What an answer is being read from stays as it is until it is written, however
\* long the client takes: the entry GET found is there when its value is sent, and
\* STATS meets each entry its header counted exactly once.  Of the lines announced,
\* those of the entries ahead and those there was no memory for are missing so far,
\* and no others (handle_get, handle_stats under g_lock).
AnswersExact ==
  fault = "none" =>
    \A t \in Thread :
      /\ cursor[t] # NULL => Inside(t) /\ entry[cursor[t]] # NULL
      /\ Inside(t) /\ (\E i \in 1 .. Len(todo[t]) : todo[t][i] = "walk") =>
           lines[t].due = lines[t].unsent
             + IF cursor[t] = NULL THEN 0 ELSE Cardinality(Beyond(cursor[t])) + 1

\* The key and the value of a request are freed on every way out of serve, and a
\* thread that runs a handler has them both, the value only if there is one.
RequestFreed ==
  \A t \in Thread :
    /\ arg[t] <=> pc[t] \in {"body", "value", "enter", "locked"}
    /\ val[t] <=> pc[t] \in {"value", "enter", "locked"} /\ req[t].len > 0

\* The critical section is always left again, the walk of STATS included.
LockReleased == \A t \in Thread : lock = t ~> (lock # t \/ Gone)
=============================================================================
