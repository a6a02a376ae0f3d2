------------------------------ MODULE Cascade ------------------------------
(***************************************************************************)
(* The programs around cfgcore: a behaviour is a run of one of them, the   *)
(* service or one of the tools.  They have nothing in common but the code  *)
(* of the core and the format of bundles.                                  *)
(***************************************************************************)
EXTENDS Cfgsvcd, CfgTools

VARIABLE program

vars == <<svcVars, toolVars, program>>

Init ==
  /\ SvcInit
  /\ \/ program = "cfgsvcd"   /\ ToolInit("exit")
     \/ program = "cfgapply"  /\ ToolInit("open")
     \/ program = "regimport" /\ ToolInit("load")

Service == program = "cfgsvcd" /\ SvcNext /\ UNCHANGED <<toolVars, program>>

Tool == program # "cfgsvcd" /\ ToolNext /\ UNCHANGED <<serveVars, base, program>>

\* A tool whose key was deleted asks for its values for ever.
Rest ==
  /\ IF program = "cfgsvcd" THEN SvcGone ELSE ToolDone \/ stage = "deleted"
  /\ UNCHANGED vars

Next == Service \/ Tool \/ Rest

Spec == Init /\ [][Next]_vars

\* A thread inside the critical section runs on and a reply ends; a tool runs on.
\* Nothing is assumed of what clients send.
Fairness ==
  /\ WF_vars((\E t \in Thread : Inner(t)) /\ Service)
  /\ WF_vars(ToolWork /\ Tool)

FairSpec == Spec /\ Fairness

-----------------------------------------------------------------------------
(* Properties.                                                             *)

Bound(p, n) ==
  LET places == {i \in 1 .. Len(p) : p[i].name = n}
  IN IF places = {} THEN NULL
     ELSE [type |-> p[First(places)].type, text |-> p[First(places)].text]

B == INSTANCE Bindings
     WITH Unbound <- NULL,
          bound <- [n \in Name |-> Bound(store, n)]

\* The first push of a name decides: whatever is pushed later under it, complete or
\* in part, on either transport, a lookup of just this name finds the same value
\* (append_entry, find_entry, CfgMerge).
ImplementsBindings == B!Spec

\* The entries the request in hand has added to the store.
Added == SubSeq(store, base + 1, Len(store))

Pushing(t) == Inside(t) /\ ~At(t, "handle") /\ req[t].op = "push"

\* A push adds a beginning of its bundle in order, each entry a copy, and adds it only
\* when all of the bundle was parsed; a GET adds nothing.  What follows a bundle's
\* announced entries, and what is cut off, is never seen (CfgParseBlob, CfgMerge).
PushedPrefix ==
  fault = "none" =>
    \A t \in Thread : Inside(t) /\ ~At(t, "handle") /\ Added # <<>> =>
      LET b == req[t].bundle
      IN /\ Pushing(t)
         /\ b.ok /\ Len(Added) <= b.count /\ b.count <= Len(b.items)
         /\ \A i \in 1 .. b.count : WithinLimits(b.items[i])
         /\ \A i \in 1 .. Len(Added) : Added[i] \in Copies(Kept(b.items[i]))

\* A payload is freed on every way out of serve and the profile of a push before its
\* answer, parsed or not; a tool that exits has freed its profile, closed its file or
\* key and unloaded its library, wherever it failed (serve, handle_push, CfgOpenFile,
\* ProviderLoad, wmain).
NothingLeft ==
  fault = "none" =>
    /\ \A t \in Thread : arg[t] <=> pc[t] \in {"body", "badop", "enter", "locked"}
    /\ program = "cfgsvcd" /\ prof # NULL =>
         \E t \in Thread : lock = t /\ (At(t, "parse") \/ At(t, "materialize") \/ At(t, "merge"))
    /\ stage = "exit" /\ program # "cfgsvcd" => prof = NULL /\ held = {}

\* The template at place i of the store has all its references bound.
Settled(i) ==
  /\ store[i].type = "template" /\ store[i].text # NULL
  /\ \A j \in 1 .. Len(store[i].text) :
       store[i].text[j].ref # NULL => Found(store, store[i].text[j].ref)

\* Once all the names a stored template refers to are bound, its answer is settled:
\* no push of these names, or of anything, changes it (CfgExpandTemplate, find_entry).
SettledExpansions ==
  [][\A i \in 1 .. Len(store) :
       Settled(i) => /\ store'[i] = store[i]
                     /\ Written(store', store[i].text) = Written(store, store[i].text)]_store

Working ==
  IF program = "cfgsvcd" THEN lock # NULL /\ ~SvcGone ELSE ~ToolDone /\ stage # "deleted"

\* The critical section is always left again, however many entries a push has; a tool
\* comes to its end, unless the registry key it reads is deleted under it.
ProgramsEnd == []<>~Working
=============================================================================
