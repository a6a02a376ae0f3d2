------------------------------ MODULE Cfgsvcd ------------------------------
(***************************************************************************)
(* cfgsvcd.exe: the configuration store served to one pipe client and one  *)
(* TCP client at a time.  A push is parsed, its templates are expanded and *)
(* its entries merged into the store, all inside the critical section.     *)
(***************************************************************************)
EXTENDS CfgCore, ServeOnce

CONSTANTS ScratchSize,   \* 64, the buffer the first blob of a TCP push is copied to
          Traffic        \* the requests the clients send

VARIABLE base   \* history: the length of the store when the request in hand began, else 0

svcVars == <<cfgVars, serveVars, base>>

\* The payload is a name or a bundle; big payloads are refused.
Request(op, names, bundles, bigs) == [op: {op}, name: names, bundle: bundles, big: bigs]

Requests ==
  UNION {Request("get",  Name, {NULL}, BOOLEAN),
         Request("push", {NULL}, Bundle, BOOLEAN),
         Request("bad",  Name, {NULL}, BOOLEAN)}

ASSUME SvcAssumption ==
  /\ ScratchSize \in Nat
  /\ Traffic \subseteq Requests
  /\ NULL \notin Requests

SvcInit == CfgInit /\ ServeInit /\ base = 0

-----------------------------------------------------------------------------
(* Reading a request.                                                      *)

\* The payload's block is allocated whatever its length.
ReadRequest(t, r) ==
  /\ pc[t] = "read"
  /\ Goto(t, IF r.big THEN "big" ELSE "body")
  /\ req' = [req EXCEPT ![t] = r]
  /\ arg' = [arg EXCEPT ![t] = ~r.big]
  /\ UNCHANGED <<lock, todo>>

\* Only now the op is looked at; TCP is for pushes.
ReadPayload(t) ==
  /\ pc[t] = "body"
  /\ Goto(t, IF req[t].op = "bad" \/ (t = "tcp" /\ req[t].op = "get") THEN "badop" ELSE "enter")
  /\ UNCHANGED <<req, arg, lock, todo>>

\* The client is gone, or there is no memory for the payload.
DropRequest(t) ==
  /\ pc[t] \in {"read", "body"}
  /\ EndRequest(t)
  /\ UNCHANGED lock

-----------------------------------------------------------------------------
(* The handlers.                                                           *)

\* CfgLookup and, for a template, its expansion, in the store.  NULL is looked up as
\* any name that no entry has.
Answered(n) ==
  IF Stops(store, n) = {} THEN UNCHANGED cfgVars
  ELSE IF Breaks(store, n) THEN Crash("name")
  ELSE IF Entered(store, n).type = "template" THEN CfgExpandTemplate(store, Entered(store, n))
  ELSE UNCHANGED cfgVars

handle_get(t) ==
  /\ IF Overlong(req[t].name, CopyLimit) THEN Crash("norm")
     ELSE \E n \in Normal(req[t].name, CopyLimit) : Answered(n)
  /\ Then(t, <<"reply">>)

\* peek_first_blob walks the bundle itself, whatever its header says.
FirstBlob(b) ==
  {i \in 1 .. Lesser(b.count, Len(b.items)) :
     b.items[i].type = "blob" /\ \A j \in 1 .. i - 1 : b.items[j].type # "blob"}

SmashesScratch(b) == \E i \in FirstBlob(b) : Length(b.items[i].text) > ScratchSize

handle_push(t) ==
  \/ /\ t = "tcp" /\ SmashesScratch(req[t].bundle)
     /\ Crash("scratch")
     /\ Then(t, <<"reply">>)
  \/ /\ ~(t = "tcp" /\ SmashesScratch(req[t].bundle))
     /\ \/ ParseHeader(req[t].bundle) /\ Then(t, <<"parse">>)
        \/ NotParsed /\ Then(t, <<"reply">>)

\* g_handlers[req.op]
RunHandler(t) ==
  /\ At(t, "handle")
  /\ \/ req[t].op = "get"  /\ handle_get(t)
     \/ req[t].op = "push" /\ handle_push(t)
  /\ base' = Len(store)

\* CfgParseBlob: an entry, or its end.
Parse(t) ==
  /\ At(t, "parse")
  /\ \/ ParseEntry /\ IF prof' = NULL THEN Then(t, <<"reply">>) ELSE UNCHANGED serveVars
     \/ Parsed /\ Then(t, <<"materialize">>) /\ UNCHANGED cfgVars
  /\ UNCHANGED base

\* materialize_templates: every template is expanded in its own bundle.
Materialize(t) ==
  /\ At(t, "materialize")
  /\ LET faults == {ExpandFault(prof, prof[i]) : i \in {j \in 1 .. Len(prof) : prof[j].type = "template"}}
     IN IF faults \subseteq {"none"}
        THEN rest' = prof /\ UNCHANGED <<store, prof, due, fault>>
        ELSE \E f \in faults \ {"none"} : Crash(f)
  /\ Then(t, <<"merge">>)
  /\ UNCHANGED base

\* CfgMerge, whose status is not looked at, and CfgFree.
Merge(t) ==
  /\ At(t, "merge")
  /\ \/ MergeEntry /\ UNCHANGED serveVars
     \/ rest = <<>> /\ CfgFree /\ Then(t, <<"reply">>) /\ UNCHANGED <<store, fault>>
  /\ UNCHANGED base

-----------------------------------------------------------------------------
\* The steps of serve around the handlers, which leave the store alone.
Transport(t) ==
  /\ \/ Accept(t)
     \/ \E r \in Traffic : ReadRequest(t, r)
     \/ ReadPayload(t)
     \/ DropRequest(t)
     \/ RefuseBig(t)
     \/ RefuseOnce(t)
  /\ UNCHANGED <<cfgVars, base>>

Startup == (StartTcp \/ PipeFails \/ Drained) /\ UNCHANGED <<cfgVars, base>>

Dispatch(t) == Enter(t) /\ UNCHANGED <<cfgVars, base>>

Answer(t) == Reply(t) /\ UNCHANGED <<cfgVars, base>>

Finish(t) == LeaveOnce(t) /\ base' = 0 /\ UNCHANGED cfgVars

Inner(t) == RunHandler(t) \/ Parse(t) \/ Materialize(t) \/ Merge(t) \/ Answer(t) \/ Finish(t)

SvcGone == fault # "none" \/ Exited

SvcNext ==
  /\ ~SvcGone
  /\ Startup \/ \E t \in Thread : Transport(t) \/ Dispatch(t) \/ Inner(t)
=============================================================================
