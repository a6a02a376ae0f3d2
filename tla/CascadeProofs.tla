--------------------------- MODULE CascadeProofs ---------------------------
(***************************************************************************)
(* Proofs about the programs around cfgcore, for any names, any bundles,   *)
(* any sizes of the buffers and any interleaving of the two transports.    *)
(***************************************************************************)
EXTENDS Cascade, SequenceTheorems, WellFoundedInduction, TLAPS

-----------------------------------------------------------------------------
(* Profiles grow at the end only.                                          *)

\* A walk that stops somewhere stops first somewhere (find_entry).
LEMMA FirstIs ==
  ASSUME NEW places \in SUBSET Nat, places # {}
  PROVE  First(places) \in places /\ \A j \in places : First(places) <= j
<1>1. PICK i \in places : \A j \in places : ~(<<j, i>> \in OpToRel(<, Nat))
  BY NatLessThanWellFounded, WFMin, Zenon
<1>2. \A j \in places : ~(j < i)
  BY <1>1, Zenon DEF OpToRel
<1>3. \A j \in places : i <= j
  BY <1>2
<1> QED
  BY <1>3 DEF First

\* What comes behind the first place changes nothing about it.
LEMMA FirstStays ==
  ASSUME NEW places \in SUBSET Nat, places # {}, NEW more \in SUBSET Nat,
         places \subseteq more, \A j \in more \ places : First(places) <= j
  PROVE  First(more) = First(places)
<1>1. First(places) \in places /\ \A j \in more : First(places) <= j
  BY FirstIs
<1>2. First(more) \in more /\ \A j \in more : First(more) <= j
  BY FirstIs
<1>3. First(more) \in Nat /\ First(places) \in Nat /\ First(places) \in more
  BY <1>1, <1>2
<1> QED
  BY <1>1, <1>2, <1>3

\* The places of a profile whose entries have one of these names.
PlacesOf(p, N) == {i \in 1 .. Len(p) : p[i].name \in N}

\* The place where the walk for a name ends is one of the profile's (find_entry).
LEMMA FirstPlace ==
  ASSUME NEW p \in Seq(Entry), NEW N, PlacesOf(p, N) # {}
  PROVE  /\ First(PlacesOf(p, N)) \in 1 .. Len(p)
         /\ p[First(PlacesOf(p, N))].name \in N
         /\ p[First(PlacesOf(p, N))] \in Entry
<1>1. PlacesOf(p, N) \in SUBSET Nat
  BY DEF PlacesOf
<1>2. First(PlacesOf(p, N)) \in PlacesOf(p, N)
  BY <1>1, FirstIs
<1> QED
  BY <1>2 DEF PlacesOf

\* How append_entry leaves the store, and every step that does not append.
Grows(p, q) == Len(p) <= Len(q) /\ \A i \in 1 .. Len(p) : q[i] = p[i]

\* In a profile that grew the walk for a name ends where it ended, at the same entry.
LEMMA GrownFirst ==
  ASSUME NEW p \in Seq(Entry), NEW q \in Seq(Entry), Grows(p, q), NEW N, PlacesOf(p, N) # {}
  PROVE  /\ PlacesOf(q, N) # {}
         /\ First(PlacesOf(q, N)) = First(PlacesOf(p, N))
         /\ q[First(PlacesOf(q, N))] = p[First(PlacesOf(p, N))]
<1> DEFINE P == PlacesOf(p, N)
           Q == PlacesOf(q, N)
<1>1. Len(p) \in Nat /\ Len(q) \in Nat
  OBVIOUS
<1>2. P \in SUBSET Nat /\ Q \in SUBSET Nat
  BY DEF PlacesOf
<1>3. P \subseteq Q /\ \A j \in Q \ P : Len(p) < j
  BY <1>1 DEF Grows, PlacesOf
<1>4. First(P) \in 1 .. Len(p)
  BY FirstPlace
<1> HIDE DEF P, Q
<1>5. \A j \in Q \ P : First(P) <= j
  <2> SUFFICES ASSUME NEW j \in Q \ P PROVE First(P) <= j
    OBVIOUS
  <2>1. j \in Nat /\ Len(p) < j
    BY <1>2, <1>3
  <2> QED
    BY <1>1, <1>4, <2>1
<1>6. First(Q) = First(P)
  BY <1>2, <1>3, <1>5, FirstStays DEF P
<1> QED
  BY <1>3, <1>4, <1>6 DEF P, Q, Grows

-----------------------------------------------------------------------------
(* What names are bound to.                                                *)

\* A name is bound from the first entry of that name on, and to a value.
LEMMA BoundIs ==
  ASSUME NEW p \in Seq(Entry), NEW n \in Name
  PROVE  /\ PlacesOf(p, {n}) = {} => Bound(p, n) = NULL
         /\ PlacesOf(p, {n}) # {} =>
              LET e == p[First(PlacesOf(p, {n}))]
              IN  Bound(p, n) = [type |-> e.type, text |-> e.text] /\ Bound(p, n) \in Value \ {NULL}
<1>1. PlacesOf(p, {n}) = {i \in 1 .. Len(p) : p[i].name = n}
  BY DEF PlacesOf
<1>2. CASE PlacesOf(p, {n}) = {}
  BY <1>1, <1>2 DEF Bound
<1>3. CASE PlacesOf(p, {n}) # {}
  <2> DEFINE e == p[First(PlacesOf(p, {n}))]
  <2>1. Bound(p, n) = [type |-> e.type, text |-> e.text]
    BY <1>1, <1>3 DEF Bound
  <2>2. e \in Entry
    BY <1>3, FirstPlace
  <2>3. Bound(p, n) \in Value
    BY <2>1, <2>2 DEF Entry, Value
  <2> QED
    BY <1>3, <2>1, <2>3, CfgAssumption
<1> QED
  BY <1>2, <1>3

\* What is appended to a store changes no name that is bound.
LEMMA BoundStays ==
  ASSUME NEW p \in Seq(Entry), NEW q \in Seq(Entry), Grows(p, q),
         NEW n \in Name, Bound(p, n) # NULL
  PROVE  Bound(q, n) = Bound(p, n)
<1>1. PlacesOf(p, {n}) # {}
  BY BoundIs
<1>2. PlacesOf(q, {n}) # {} /\ q[First(PlacesOf(q, {n}))] = p[First(PlacesOf(p, {n}))]
  BY <1>1, GrownFirst
<1> QED
  BY <1>1, <1>2, BoundIs

\* How append_entry leaves a profile.
LEMMA Appended ==
  ASSUME NEW p \in Seq(Entry), NEW e \in Entry
  PROVE  /\ Append(p, e) \in Seq(Entry) /\ Grows(p, Append(p, e))
         /\ Len(Append(p, e)) = Len(p) + 1 /\ Len(p) \in Nat
         /\ Append(p, e)[Len(p) + 1] = e
         /\ \A i \in 1 .. Len(p) : Append(p, e)[i] = p[i]
BY DEF Grows

\* An entry binds no other name than its own.
LEMMA OthersStay ==
  ASSUME NEW p \in Seq(Entry), NEW e \in Entry, NEW n \in Name, e.name # n
  PROVE  Bound(Append(p, e), n) = Bound(p, n)
<1>1. CASE Bound(p, n) # NULL
  BY <1>1, Appended, BoundStays
<1>2. CASE Bound(p, n) = NULL
  <2>1. PlacesOf(p, {n}) = {}
    BY <1>2, BoundIs
  <2>2. PlacesOf(Append(p, e), {n}) = {}
    BY <2>1, Appended DEF PlacesOf
  <2> QED
    BY <1>2, <2>2, Appended, BoundIs
<1> QED
  BY <1>1, <1>2

\* And it binds its own.
LEMMA OwnIsBound ==
  ASSUME NEW p \in Seq(Entry), NEW e \in Entry, e.name \in Name
  PROVE  Bound(Append(p, e), e.name) \in Value
<1>1. PlacesOf(Append(p, e), {e.name}) # {}
  BY Appended DEF PlacesOf
<1> QED
  BY <1>1, Appended, BoundIs

\* So an append binds its name, if it was not bound yet, or is not seen at all.
LEMMA AppendBinds ==
  ASSUME store \in Seq(Entry), NEW e \in Entry, store' = Append(store, e)
  PROVE  [B!Next]_([n \in Name |-> Bound(store, n)])
<1>1. store' \in Seq(Entry) /\ Grows(store, store')
  BY Appended
<1>2. CASE e.name \in Name /\ Bound(store, e.name) = NULL
  <2>1. Bound(store', e.name) \in Value
    BY <1>2, OwnIsBound
  <2>2. \A n \in Name : n # e.name => Bound(store', n) = Bound(store, n)
    BY OthersStay
  <2>3. B!Bind(e.name)
    BY <1>2, <2>1, <2>2 DEF B!Bind
  <2> QED
    BY <1>2, <2>3 DEF B!Next
<1>3. CASE ~(e.name \in Name /\ Bound(store, e.name) = NULL)
  <2>1. \A n \in Name : Bound(store', n) = Bound(store, n)
    BY <1>1, <1>3, BoundStays, OthersStay
  <2> QED
    BY <2>1
<1> QED
  BY <1>2, <1>3

-----------------------------------------------------------------------------
(* What templates are expanded to.                                         *)

\* A reference that is found contributes the same from a store that grew.
LEMMA ExpansionStays ==
  ASSUME NEW p \in Seq(Entry), NEW q \in Seq(Entry), Grows(p, q), NEW piece,
         piece.ref # NULL => Found(p, piece.ref)
  PROVE  Expansion(q, piece) = Expansion(p, piece)
<1>1. CASE piece.ref = NULL
  BY <1>1 DEF Expansion
<1>2. CASE piece.ref # NULL
  <2> DEFINE n == piece.ref
  <2>1. /\ Stops(p, n) = PlacesOf(p, {n, NULL})
        /\ Stops(q, n) = PlacesOf(q, {n, NULL})
    BY DEF Stops, PlacesOf
  <2>2. Stops(p, n) # {}
    BY <1>2 DEF Found
  <2>3. Stops(q, n) # {} /\ q[First(Stops(q, n))] = p[First(Stops(p, n))]
    <3>1. PlacesOf(p, {n, NULL}) # {}
      BY <2>1, <2>2
    <3>2. /\ PlacesOf(q, {n, NULL}) # {}
          /\ q[First(PlacesOf(q, {n, NULL}))] = p[First(PlacesOf(p, {n, NULL}))]
      BY <3>1, GrownFirst
    <3> QED
      BY <2>1, <3>2
  <2>4. Found(q, n) /\ Entered(q, n) = Entered(p, n)
    BY <1>2, <2>3 DEF Found, Breaks, Entered
  <2> QED
    BY <1>2, <2>4 DEF Expansion
<1> QED
  BY <1>1, <1>2

\* So a template all of whose references are found is expanded to the same.
LEMMA WrittenStays ==
  ASSUME NEW p \in Seq(Entry), NEW q \in Seq(Entry), Grows(p, q), NEW text,
         \A j \in 1 .. Len(text) : text[j].ref # NULL => Found(p, text[j].ref)
  PROVE  Written(q, text) = Written(p, text)
<1>1. \A j \in 1 .. Len(text) : Expansion(q, text[j]) = Expansion(p, text[j])
  BY ExpansionStays
<1>2. [j \in 1 .. Len(text) |-> Expansion(q, text[j])]
        = [j \in 1 .. Len(text) |-> Expansion(p, text[j])]
  BY <1>1
<1> QED
  BY <1>2 DEF Written

-----------------------------------------------------------------------------
(* The inductive invariant.                                                *)

DataTypes ==
  /\ store \in Seq(Entry)
  /\ prof \in Seq(Entry) \cup {NULL}
  /\ rest \in Seq(Entry)
  /\ due \in Nat
  /\ program \in {"cfgsvcd", "cfgapply", "regimport"}

Holding == {"body", "badop", "enter", "locked"}

Steps == {"handle", "parse", "materialize", "merge", "reply"}

\* A request holds its payload while it is in hand, and a thread inside has at most
\* one step before it.
ServingInv ==
  /\ pc \in [Thread -> Holding \cup {"start", "exit", "gone", "listen", "drain", "read", "big"}]
  /\ arg \in [Thread -> BOOLEAN]
  /\ req \in [Thread -> Requests \cup {NULL}]
  /\ lock \in Thread \cup {NULL}
  /\ todo \in [Thread -> {<<>>} \cup {<<s>> : s \in Steps}]
  /\ \A t \in Thread : arg[t] <=> pc[t] \in Holding
  /\ \A t \in Thread : pc[t] \in Holding => req[t] \in Requests
  /\ \A t \in Thread : Inside(t) <=> lock = t
  /\ program # "cfgsvcd" => lock = NULL

\* The first n entries of a bundle, as they are kept.
Holds(b, n) ==
  /\ b \in Bundle /\ b.ok
  /\ n <= b.count /\ n <= Len(b.items)
  /\ Len(prof) = n
  /\ \A i \in 1 .. n : WithinLimits(b.items[i]) /\ prof[i] = Kept(b.items[i])

\* The bundle whose entries were all parsed, and those of them that are in the store.
Merged(b) ==
  /\ b \in Bundle /\ b.ok /\ b.count <= Len(b.items)
  /\ \A i \in 1 .. b.count : WithinLimits(b.items[i])
  /\ base <= Len(store) /\ Len(store) - base <= b.count
  /\ \A i \in 1 .. Len(store) - base : store[base + i] \in Copies(Kept(b.items[i]))

\* Where the push of a bundle is.
Parsing(b) ==
  /\ base = Len(store)
  /\ Holds(b, Len(prof))
  /\ Len(prof) + due = b.count
  /\ Len(prof) + Len(rest) = Len(b.items)
  /\ \A i \in 1 .. Len(rest) : rest[i] = b.items[Len(prof) + i]

Materializing(b) == base = Len(store) /\ Holds(b, b.count)

Merging(b) ==
  /\ Holds(b, b.count) /\ Merged(b)
  /\ rest # <<>> =>
       /\ Len(store) - base + Len(rest) = b.count
       /\ \A i \in 1 .. Len(rest) : rest[i] = prof[Len(store) - base + i]

Building(t) ==
  /\ base \in Nat
  /\ prof # NULL <=> todo[t] \in {<<"parse">>, <<"materialize">>, <<"merge">>}
  /\ prof # NULL => req[t].op = "push"
  /\ todo[t] = <<"parse">>       => Parsing(req[t].bundle)
  /\ todo[t] = <<"materialize">> => Materializing(req[t].bundle)
  /\ todo[t] = <<"merge">>       => Merging(req[t].bundle)
  /\ todo[t] \in {<<>>, <<"reply">>} =>
       base = Len(store) \/ (req[t].op = "push" /\ Merged(req[t].bundle))

BuildingInv ==
  /\ base \in Nat
  /\ lock = NULL => prof = NULL
  /\ \A t \in Thread : Inside(t) => Building(t)

\* What a tool holds at each stage, the library of regimport aside.
OwnedAt(where) ==
  CASE where = "read"  -> {"file"}
    [] where = "parse" -> {"buf"}
    [] where \in {"new", "values", "deleted"} -> {"key"}
    [] OTHER -> {}

WithProfile == {"names", "values", "deleted", "print"}

ToolInv ==
  /\ held \subseteq {"lib"} \cup OwnedAt(stage)
  /\ stage \in {"load", "exit"} => held = {}
  /\ stage \in WithProfile => prof # NULL
  /\ prof # NULL => stage \in WithProfile \cup {"parse"}

CascadeInv ==
  /\ DataTypes
  /\ ServingInv
  /\ fault = "none" =>
       IF program = "cfgsvcd" THEN BuildingInv ELSE ToolInv

-----------------------------------------------------------------------------
(* The threads of the service.                                             *)

\* A pushed payload is one of the bundles.
LEMMA RequestBundle ==
  ASSUME NEW r \in Requests
  PROVE  r.op \in {"get", "push", "bad"} /\ (r.op = "push" => r.bundle \in Bundle)
BY DEF Requests, Request

\* Nothing is built, and no request that is, when a thread outside goes on outside.
LEMMA OutsideKeeps ==
  ASSUME ServingInv, BuildingInv, NEW t \in Thread, pc[t] # "locked",
         NEW where, where # "locked", Goto(t, where),
         \E r : req' = [req EXCEPT ![t] = r] \/ req' = req,
         UNCHANGED <<cfgVars, base, lock, todo>>
  PROVE  BuildingInv'
<1>1. ASSUME NEW u \in Thread, Inside(u)'
      PROVE  Inside(u) /\ req'[u] = req[u]
  BY <1>1 DEF Inside, Goto, ServingInv
<1>2. ASSUME NEW u \in Thread, Building(u), req'[u] = req[u]
      PROVE  Building(u)'
  BY <1>2 DEF Building, Parsing, Materializing, Merging, Holds, Merged, cfgVars
<1> QED
  BY <1>1, <1>2 DEF BuildingInv, cfgVars

\* The steps of the threads up to the critical section.
LEMMA TransportInv ==
  ASSUME DataTypes, ServingInv, program = "cfgsvcd", UNCHANGED program,
         \/ Startup
         \/ \E t \in Thread : Transport(t)
  PROVE  /\ ServingInv'
         /\ BuildingInv => BuildingInv'
<1> DEFINE Free == {"exit", "gone", "listen", "drain", "read", "big"}
<1>1. PICK t \in Thread, where \in Holding \cup Free :
        /\ pc[t] # "locked" /\ where # "locked" /\ Goto(t, where)
        /\ UNCHANGED <<cfgVars, base, lock, todo>>
        /\ \/ where \in Free /\ ~arg[t] /\ UNCHANGED <<req, arg>>
           \/ where \in Free /\ req' = [req EXCEPT ![t] = NULL] /\ FreeArg(t)
           \/ where \in Free /\ ~arg[t] /\ req' = [req EXCEPT ![t] = NULL] /\ UNCHANGED arg
           \/ /\ \E r \in Requests : req' = [req EXCEPT ![t] = r]
              /\ \/ where = "body" /\ arg' = [arg EXCEPT ![t] = TRUE]
                 \/ where = "big" /\ FreeArg(t)
           \/ pc[t] \in Holding /\ where \in Holding /\ UNCHANGED <<req, arg>>
  <2>1. CASE Startup
    <3>1. \/ StartTcp /\ ~arg["tcp"]
          \/ (PipeFails \/ Drained) /\ ~arg["pipe"]
      BY <2>1 DEF Startup, StartTcp, PipeFails, Drained, ServingInv, Holding, Thread
    <3>2. UNCHANGED <<cfgVars, base>>
      BY <2>1 DEF Startup
    <3>3. "tcp" \in Thread /\ "pipe" \in Thread
      BY DEF Thread
    <3>4. CASE StartTcp /\ ~arg["tcp"]
      BY <3>2, <3>3, <3>4 DEF StartTcp, Holding
    <3>5. CASE (PipeFails \/ Drained) /\ ~arg["pipe"]
      BY <3>2, <3>3, <3>5 DEF PipeFails, Drained, Holding
    <3> QED
      BY <3>1, <3>4, <3>5
  <2>2. CASE \E t \in Thread : Transport(t)
    <3>1. PICK t \in Thread : Transport(t)
      BY <2>2
    <3>2. UNCHANGED <<cfgVars, base>>
      BY <3>1 DEF Transport
    <3>3. CASE Accept(t)
      BY <3>2, <3>3 DEF Accept, ServingInv, Holding
    <3>4. CASE \E r \in Traffic : ReadRequest(t, r)
      <4>1. PICK r \in Requests : ReadRequest(t, r)
        BY <3>4, SvcAssumption
      <4>2. CASE r.big
        <5>1. arg' = [arg EXCEPT ![t] = FALSE]
          BY <4>1, <4>2, Zenon DEF ReadRequest
        <5> QED
          BY <3>2, <4>1, <4>2, <5>1 DEF ReadRequest, Holding, FreeArg
      <4>3. CASE ~r.big
        <5>1. arg' = [arg EXCEPT ![t] = TRUE]
          BY <4>1, <4>3, Zenon DEF ReadRequest
        <5> QED
          BY <3>2, <4>1, <4>3, <5>1 DEF ReadRequest, Holding
      <4> QED
        BY <4>2, <4>3
    <3>5. CASE ReadPayload(t)
      BY <3>2, <3>5 DEF ReadPayload, Holding
    <3>6. CASE RefuseBig(t)
      BY <3>2, <3>6 DEF RefuseBig, Hangup, ServingInv, Holding
    <3>7. CASE DropRequest(t) \/ RefuseOnce(t)
      BY <3>2, <3>7 DEF DropRequest, RefuseOnce, EndRequest, Hangup
    <3> QED
      BY <3>1, <3>3, <3>4, <3>5, <3>6, <3>7 DEF Transport
  <2> QED
    BY <2>1, <2>2
<1>2. ServingInv'
  <2>1. pc' = [pc EXCEPT ![t] = where] /\ UNCHANGED <<lock, todo, program>>
    BY <1>1 DEF Goto
  <2>2. /\ pc' \in [Thread -> Holding \cup {"start", "exit", "gone", "listen", "drain", "read", "big"}]
        /\ \A u \in Thread : Inside(u)' <=> lock' = u
        /\ lock' \in Thread \cup {NULL} /\ (program' # "cfgsvcd" => lock' = NULL)
        /\ todo' \in [Thread -> {<<>>} \cup {<<s>> : s \in Steps}]
    BY <1>1, <2>1 DEF ServingInv, Inside
  <2>3. req' \in [Thread -> Requests \cup {NULL}] /\ arg' \in [Thread -> BOOLEAN]
    <3>1. req' \in [Thread -> Requests \cup {NULL}]
      BY <1>1 DEF ServingInv
    <3>2. arg' = arg \/ arg' = [arg EXCEPT ![t] = TRUE] \/ arg' = [arg EXCEPT ![t] = FALSE]
      BY <1>1 DEF FreeArg
    <3> QED
      BY <3>1, <3>2 DEF ServingInv
  <2>4. \A u \in Thread : pc'[u] \in Holding => req'[u] \in Requests
    BY <1>1, <2>1 DEF ServingInv, Holding
  <2>5. \A u \in Thread : arg'[u] <=> pc'[u] \in Holding
    BY <1>1, <2>1 DEF ServingInv, FreeArg, Holding
  <2> QED
    BY <2>2, <2>3, <2>4, <2>5 DEF ServingInv
<1>3. BuildingInv => BuildingInv'
  <2>1. \E r : req' = [req EXCEPT ![t] = r] \/ req' = req
    BY <1>1
  <2> QED
    BY <1>1, <2>1, OutsideKeeps
<1> QED
  BY <1>2, <1>3

\* A step inside the critical section replaces the one step there was to do.
LEMMA ThenIs ==
  ASSUME ServingInv, UNCHANGED program, NEW t \in Thread, NEW s \in Steps, At(t, s),
         NEW steps \in {<<>>} \cup {<<x>> : x \in Steps}, Then(t, steps)
  PROVE  /\ ServingInv' /\ Inside(t) /\ Inside(t)' /\ lock = t
         /\ todo[t] = <<s>> /\ todo'[t] = steps
         /\ req[t] \in Requests /\ UNCHANGED <<pc, req, arg, lock>>
<1>1. Inside(t) /\ lock = t /\ req[t] \in Requests
  BY DEF At, Inside, ServingInv, Holding
<1>2. todo[t] = <<s>>
  <2>1. PICK x \in Steps : todo[t] = <<x>>
    BY DEF At, ServingInv
  <2> QED
    BY <2>1 DEF At
<1>3. steps \o Tail(todo[t]) = steps
  BY <1>2
<1>4. todo' = [todo EXCEPT ![t] = steps] /\ UNCHANGED <<pc, req, arg, lock>>
  BY <1>3 DEF Then
<1>5. todo'[t] = steps /\ todo' \in [Thread -> {<<>>} \cup {<<x>> : x \in Steps}]
  BY <1>4 DEF ServingInv
<1>6. ServingInv'
  BY <1>4, <1>5 DEF ServingInv, Inside
<1> QED
  BY <1>1, <1>2, <1>4, <1>5, <1>6 DEF Inside

\* What the thread inside builds is all there is.
LEMMA InsideIs ==
  ASSUME ServingInv', NEW t \in Thread, lock' = t, Building(t)'
  PROVE  BuildingInv'
<1>1. \A u \in Thread : Inside(u)' => u = t
  BY DEF ServingInv
<1>2. base' \in Nat
  BY DEF Building
<1>3. lock' # NULL
  BY ServeAssumption
<1> QED
  BY <1>1, <1>2, <1>3 DEF BuildingInv

\* Taking the lock and leaving it, with nothing built on either side, and replying.
LEMMA AroundInv ==
  ASSUME CascadeInv, program = "cfgsvcd", fault = "none", UNCHANGED program,
         NEW t \in Thread, Dispatch(t) \/ Answer(t) \/ Finish(t)
  PROVE  CascadeInv'
<1>1. DataTypes' /\ UNCHANGED <<cfgVars, fault>>
  BY DEF Dispatch, Answer, Finish, CascadeInv, DataTypes, cfgVars
<1>2. CASE Dispatch(t)
  <2>1. /\ pc[t] = "enter" /\ lock = NULL /\ lock' = t /\ UNCHANGED <<req, arg, base>>
        /\ pc' = [pc EXCEPT ![t] = "locked"] /\ todo' = [todo EXCEPT ![t] = <<"handle">>]
    BY <1>2 DEF Dispatch, Enter, Acquire, Goto
  <2>2. ServingInv'
    <3>1. pc' \in [Thread -> Holding \cup {"start", "exit", "gone", "listen", "drain", "read", "big"}]
      BY <2>1 DEF CascadeInv, ServingInv, Holding
    <3>2. todo' \in [Thread -> {<<>>} \cup {<<s>> : s \in Steps}]
      BY <2>1 DEF CascadeInv, ServingInv, Steps
    <3>3. \A u \in Thread : Inside(u)' <=> lock' = u
      BY <2>1, ServeAssumption DEF CascadeInv, ServingInv, Inside
    <3>4. \A u \in Thread : pc'[u] \in Holding <=> pc[u] \in Holding
      BY <2>1 DEF CascadeInv, ServingInv, Holding
    <3> QED
      BY <2>1, <3>1, <3>2, <3>3, <3>4 DEF CascadeInv, ServingInv
  <2>3. Building(t)'
    <3>1. todo'[t] = <<"handle">> /\ prof' = NULL /\ base' \in Nat
      BY <1>1, <2>1 DEF CascadeInv, ServingInv, BuildingInv, cfgVars
    <3> QED
      BY <3>1 DEF Building
  <2> QED
    BY <1>1, <2>1, <2>2, <2>3, InsideIs DEF CascadeInv
<1>3. CASE Answer(t)
  <2>1. At(t, "reply") /\ Then(t, <<>>) /\ UNCHANGED base
    BY <1>3 DEF Answer, Reply
  <2>2. /\ ServingInv' /\ Inside(t) /\ lock' = t /\ todo[t] = <<"reply">> /\ todo'[t] = <<>>
        /\ UNCHANGED req
    BY <2>1, ThenIs DEF CascadeInv, Steps
  <2>3. Building(t)
    BY <2>2 DEF CascadeInv, BuildingInv
  <2>4. Building(t)'
    BY <1>1, <2>1, <2>2, <2>3 DEF Building, Merged, cfgVars
  <2> QED
    BY <1>1, <2>2, <2>4, InsideIs DEF CascadeInv
<1>4. CASE Finish(t)
  <2>1. /\ pc[t] = "locked" /\ todo[t] = <<>> /\ lock' = NULL /\ base' = 0 /\ UNCHANGED todo
        /\ req' = [req EXCEPT ![t] = NULL] /\ arg' = [arg EXCEPT ![t] = FALSE]
    BY <1>4 DEF Finish, LeaveOnce, Release, EndRequest, FreeArg
  <2>2. PICK where \in {"drain", "listen"} : pc' = [pc EXCEPT ![t] = where]
    BY <1>4 DEF Finish, LeaveOnce, EndRequest, Hangup, Goto
  <2>3. ServingInv'
    <3>1. pc' \in [Thread -> Holding \cup {"start", "exit", "gone", "listen", "drain", "read", "big"}]
      BY <2>2 DEF CascadeInv, ServingInv, Holding
    <3>2. arg' \in [Thread -> BOOLEAN] /\ req' \in [Thread -> Requests \cup {NULL}]
      BY <2>1 DEF CascadeInv, ServingInv
    <3>3. \A u \in Thread : Inside(u)' <=> lock' = u
      BY <2>1, <2>2, ServeAssumption DEF CascadeInv, ServingInv, Inside
    <3>4. \A u \in Thread : arg'[u] <=> pc'[u] \in Holding
      BY <2>1, <2>2 DEF CascadeInv, ServingInv, Holding
    <3>5. \A u \in Thread : pc'[u] \in Holding => req'[u] \in Requests
      BY <2>1, <2>2 DEF CascadeInv, ServingInv, Holding
    <3> QED
      BY <2>1, <3>1, <3>2, <3>3, <3>4, <3>5 DEF CascadeInv, ServingInv
  <2>4. prof = NULL
    <3>1. Building(t)
      BY <2>1 DEF Inside, CascadeInv, BuildingInv
    <3>2. todo[t] \notin {<<"parse">>, <<"materialize">>, <<"merge">>}
      BY <2>1
    <3> QED
      BY <3>1, <3>2 DEF Building
  <2>5. BuildingInv'
    <3>1. \A u \in Thread : ~Inside(u)'
      BY <2>1, <2>3, ServeAssumption DEF ServingInv
    <3> QED
      BY <1>1, <2>1, <2>4, <3>1 DEF BuildingInv, cfgVars
  <2> QED
    BY <1>1, <2>3, <2>5 DEF CascadeInv
<1> QED
  BY <1>2, <1>3, <1>4

-----------------------------------------------------------------------------
(* The handlers.                                                           *)

\* An entry that was parsed and the copies of it that CfgMerge makes are entries.
LEMMA EntriesKept ==
  ASSUME NEW e \in Entry
  PROVE  Kept(e) \in Entry /\ Copies(e) \subseteq Entry
BY DEF Kept, Copies, Entry, Type

\* The bundles hold entries.
LEMMA BundleFields ==
  ASSUME NEW b \in Bundle
  PROVE  b.count \in Nat /\ b.items \in Seq(Entry)
<1>1. b \in [ok: BOOLEAN, count: Nat, items: Seq(Entry)]
  BY CfgAssumption
<1> QED
  BY <1>1

\* A profile there is, is not NULL.
LEMMA ProfileNotNull ==
  ASSUME NEW p \in Seq(Entry)
  PROVE  p # NULL
BY CfgAssumption

\* A GET changes nothing, and a push begins with nothing parsed and nothing added.
LEMMA HandlerInv ==
  ASSUME CascadeInv, program = "cfgsvcd", fault = "none", UNCHANGED program,
         NEW t \in Thread, RunHandler(t)
  PROVE  CascadeInv'
<1>1. At(t, "handle") /\ base' = Len(store)
  BY DEF RunHandler
<1>2. Building(t) /\ todo[t] = <<"handle">> /\ prof = NULL
  <2>1. Building(t) /\ todo[t] # <<>> /\ Head(todo[t]) = "handle"
    BY <1>1 DEF At, Inside, CascadeInv, BuildingInv
  <2>2. PICK x \in Steps : todo[t] = <<x>>
    BY <2>1 DEF CascadeInv, ServingInv
  <2>3. todo[t] = <<"handle">>
    BY <2>1, <2>2
  <2> QED
    BY <2>1, <2>3 DEF Building
<1>3. CASE UNCHANGED <<store, prof, rest, due>> /\ Then(t, <<"reply">>)
  <2>1. DataTypes'
    BY <1>3 DEF CascadeInv, DataTypes
  <2>2. ServingInv' /\ lock' = t /\ todo'[t] = <<"reply">>
    BY <1>1, <1>3, ThenIs DEF CascadeInv, Steps
  <2>3. Building(t)'
    <3>1. base' \in Nat /\ base' = Len(store') /\ prof' = NULL
      BY <1>1, <1>2, <1>3 DEF CascadeInv, DataTypes
    <3> QED
      BY <2>2, <3>1 DEF Building
  <2> QED
    BY <2>1, <2>2, <2>3, InsideIs DEF CascadeInv
<1>4. CASE req[t].op = "push" /\ ParseHeader(req[t].bundle) /\ Then(t, <<"parse">>)
  <2>1. ServingInv' /\ lock' = t /\ todo'[t] = <<"parse">> /\ UNCHANGED req /\ req[t] \in Requests
    BY <1>1, <1>4, ThenIs DEF CascadeInv, Steps
  <2> DEFINE b == req[t].bundle
  <2>2. b \in Bundle /\ b.count \in Nat /\ b.items \in Seq(Entry) /\ b.ok
    BY <1>4, <2>1, RequestBundle, BundleFields DEF ParseHeader
  <2>3. prof' = <<>> /\ rest' = b.items /\ due' = b.count /\ UNCHANGED <<store, fault>>
    BY <1>4 DEF ParseHeader
  <2>4. DataTypes'
    BY <2>2, <2>3 DEF CascadeInv, DataTypes
  <2>5. Parsing(b)'
    <3>1. base' = Len(store') /\ Len(prof') = 0 /\ b' = b
      BY <1>1, <2>1, <2>3
    <3> HIDE DEF b
    <3> QED
      BY <2>2, <2>3, <3>1 DEF Parsing, Holds
  <2>6. Building(t)'
    <3>1. prof' # NULL
      BY <2>3, EmptySeq, ProfileNotNull
    <3>2. base' \in Nat
      BY <1>1 DEF CascadeInv, DataTypes
    <3> QED
      BY <1>4, <2>1, <2>5, <3>1, <3>2 DEF Building
  <2> QED
    BY <2>1, <2>4, <2>6, InsideIs DEF CascadeInv
<1>5. \/ UNCHANGED <<store, prof, rest, due>> /\ Then(t, <<"reply">>)
      \/ req[t].op = "push" /\ ParseHeader(req[t].bundle) /\ Then(t, <<"parse">>)
  <2>1. CASE req[t].op = "get" /\ handle_get(t)
    BY <2>1 DEF handle_get, Answered, CfgExpandTemplate, Crash, cfgVars
  <2>2. CASE req[t].op = "push" /\ handle_push(t)
    BY <2>2 DEF handle_push, Crash, NotParsed, cfgVars
  <2> QED
    BY <2>1, <2>2 DEF RunHandler
<1> QED
  BY <1>3, <1>4, <1>5

\* An entry more is parsed, or the profile is freed, or it is complete.
LEMMA ParseInv ==
  ASSUME CascadeInv, program = "cfgsvcd", fault = "none", UNCHANGED program,
         NEW t \in Thread, Parse(t)
  PROVE  CascadeInv'
<1> DEFINE b == req[t].bundle
<1>1. At(t, "parse") /\ base' = base
  BY DEF Parse
<1>2. /\ Building(t) /\ todo[t] = <<"parse">> /\ lock = t /\ req[t].op = "push"
      /\ Parsing(b) /\ prof # NULL /\ base \in Nat
  <2>1. Building(t) /\ todo[t] # <<>> /\ Head(todo[t]) = "parse" /\ lock = t
    BY <1>1 DEF At, Inside, CascadeInv, BuildingInv, ServingInv
  <2>2. PICK x \in Steps : todo[t] = <<x>>
    BY <2>1 DEF CascadeInv, ServingInv
  <2>3. todo[t] = <<"parse">>
    BY <2>1, <2>2
  <2> QED
    BY <2>1, <2>3 DEF Building
<1>3. b \in Bundle /\ b.count \in Nat /\ b.items \in Seq(Entry)
  BY <1>2, BundleFields DEF Parsing, Holds
<1>4. prof \in Seq(Entry) /\ rest \in Seq(Entry) /\ due \in Nat /\ store \in Seq(Entry)
  BY <1>2 DEF CascadeInv, DataTypes
<1>5. CASE prof' = NULL /\ CfgFree /\ UNCHANGED <<store, fault>> /\ Then(t, <<"reply">>)
  <2>1. ServingInv' /\ lock' = t /\ todo'[t] = <<"reply">> /\ UNCHANGED req
    BY <1>1, <1>5, ThenIs DEF CascadeInv, Steps
  <2>2. DataTypes'
    BY <1>5 DEF CascadeInv, DataTypes, CfgFree
  <2>3. Building(t)'
    <3>1. base' = Len(store') /\ base' \in Nat
      BY <1>1, <1>2, <1>5 DEF Parsing
    <3> QED
      BY <1>5, <2>1, <3>1 DEF Building
  <2> QED
    BY <2>1, <2>2, <2>3, InsideIs DEF CascadeInv
<1>6. CASE /\ due > 0 /\ rest # <<>> /\ WithinLimits(Head(rest))
           /\ prof' = Append(prof, Kept(Head(rest))) /\ rest' = Tail(rest) /\ due' = due - 1
           /\ UNCHANGED <<store, fault>> /\ UNCHANGED serveVars
  <2> DEFINE k == Len(prof)
  <2>1. /\ Head(rest) \in Entry /\ Kept(Head(rest)) \in Entry /\ Tail(rest) \in Seq(Entry)
        /\ Head(rest) = rest[1] /\ Len(Tail(rest)) = Len(rest) - 1 /\ Len(rest) \in Nat \ {0}
        /\ \A i \in 1 .. Len(Tail(rest)) : Tail(rest)[i] = rest[i + 1]
    BY <1>4, <1>6, EntriesKept
  <2>2. /\ prof' \in Seq(Entry) /\ Len(prof') = k + 1 /\ k \in Nat
        /\ prof'[k + 1] = Kept(Head(rest)) /\ \A i \in 1 .. k : prof'[i] = prof[i]
    BY <1>4, <1>6, <2>1, Appended
  <2>3. DataTypes'
    BY <1>4, <1>6, <2>1, <2>2 DEF CascadeInv, DataTypes
  <2>4. rest[1] = b.items[k + 1] /\ k + Len(rest) = Len(b.items) /\ k + due = b.count /\ Len(b.items) \in Nat
    BY <1>2, <1>3, <2>1, <2>2 DEF Parsing
  <2>5. b' = b
    BY <1>6 DEF serveVars
  <2>6. Holds(b, Len(prof))'
    <3>1. Holds(b, k)
      BY <1>2 DEF Parsing
    <3>2. WithinLimits(b.items[k + 1]) /\ prof'[k + 1] = Kept(b.items[k + 1])
      BY <1>6, <2>1, <2>2, <2>4
    <3>3. k + 1 <= b.count /\ k + 1 <= Len(b.items)
      BY <1>3, <1>4, <1>6, <2>1, <2>2, <2>4
    <3> HIDE DEF b, k
    <3> QED
      BY <1>3, <2>2, <2>5, <3>1, <3>2, <3>3 DEF Holds
  <2>7. Parsing(b)'
    <3>1. \A i \in 1 .. Len(rest') : rest'[i] = b.items[k + 1 + i]
      <4> SUFFICES ASSUME NEW i \in 1 .. Len(rest') PROVE rest'[i] = b.items[k + 1 + i]
        OBVIOUS
      <4>1. rest'[i] = rest[i + 1] /\ i + 1 \in 1 .. Len(rest)
        BY <1>6, <2>1
      <4>2. rest[i + 1] = b.items[k + (i + 1)]
        BY <1>2, <4>1 DEF Parsing
      <4> QED
        BY <2>2, <4>1, <4>2
    <3>2. Len(prof') + due' = b.count /\ Len(prof') + Len(rest') = Len(b.items)
      <4>1. due' = due - 1 /\ Len(rest') = Len(rest) - 1 /\ Len(prof') = k + 1
        BY <1>6, <2>1, <2>2
      <4>2. due \in Nat /\ Len(rest) \in Nat /\ k \in Nat
        BY <1>4
      <4> HIDE DEF b, k
      <4>3. Len(prof') + due' = b.count
        BY <2>4, <4>1, <4>2
      <4>4. Len(prof') + Len(rest') = Len(b.items)
        BY <2>4, <4>1, <4>2
      <4> QED
        BY <4>3, <4>4
    <3>3. base' = Len(store')
      BY <1>1, <1>2, <1>6 DEF Parsing
    <3> HIDE DEF b, k
    <3> QED
      BY <2>2, <2>5, <2>6, <3>1, <3>2, <3>3 DEF Parsing, k
  <2>8. Building(t)'
    <3>1. prof' # NULL
      BY <2>2, ProfileNotNull
    <3>2. todo'[t] = <<"parse">> /\ req'[t] = req[t] /\ base' \in Nat
      BY <1>1, <1>2, <1>6 DEF serveVars
    <3> QED
      BY <1>2, <2>7, <3>1, <3>2 DEF Building
  <2>9. ServingInv' /\ lock' = t
    BY <1>2, <1>6 DEF CascadeInv, ServingInv, serveVars, Inside
  <2> QED
    BY <2>3, <2>8, <2>9, InsideIs DEF CascadeInv
<1>7. CASE UNCHANGED <<store, prof, rest, due>> /\ UNCHANGED serveVars
  <2>1. DataTypes' /\ ServingInv' /\ lock' = t
    BY <1>2, <1>7 DEF CascadeInv, DataTypes, ServingInv, serveVars, Inside
  <2>2. todo'[t] = <<"parse">> /\ req'[t] = req[t] /\ base' \in Nat
    BY <1>1, <1>2, <1>7 DEF serveVars
  <2>3. Parsing(b)'
    BY <1>1, <1>2, <1>7, <2>2 DEF Parsing, Holds
  <2>4. Building(t)'
    BY <1>2, <1>7, <2>2, <2>3 DEF Building
  <2> QED
    BY <2>1, <2>4, InsideIs DEF CascadeInv
<1>8. CASE due = 0 /\ Then(t, <<"materialize">>) /\ UNCHANGED cfgVars
  <2>1. ServingInv' /\ lock' = t /\ todo'[t] = <<"materialize">> /\ UNCHANGED req
    BY <1>1, <1>8, ThenIs DEF CascadeInv, Steps
  <2>2. DataTypes'
    BY <1>8 DEF CascadeInv, DataTypes, cfgVars
  <2>3. Materializing(b)'
    <3>1. Len(prof) = b.count
      BY <1>2, <1>3, <1>4, <1>8 DEF Parsing
    <3> QED
      BY <1>1, <1>2, <1>8, <2>1, <3>1 DEF Parsing, Materializing, Holds, cfgVars
  <2>4. Building(t)'
    BY <1>1, <1>2, <1>8, <2>1, <2>3 DEF Building, cfgVars
  <2> QED
    BY <2>1, <2>2, <2>4, InsideIs DEF CascadeInv
<1> QED
  <2>1. CASE Parsed /\ Then(t, <<"materialize">>) /\ UNCHANGED cfgVars
    BY <1>8, <2>1 DEF Parsed
  <2>2. CASE ParseEntry /\ IF prof' = NULL THEN Then(t, <<"reply">>) ELSE UNCHANGED serveVars
    <3>1. CASE ParseFails /\ UNCHANGED <<store, fault>>
      BY <1>5, <2>2, <3>1 DEF ParseFails, CfgFree
    <3>2. CASE ~(ParseFails /\ UNCHANGED <<store, fault>>)
      <4>1. prof' # NULL
        <5>1. CASE UNCHANGED prof
          BY <1>2, <5>1
        <5>2. CASE prof' = Append(prof, Kept(Head(rest))) /\ rest # <<>>
          <6>1. Head(rest) \in Entry
            BY <1>4, <5>2
          <6>2. prof' \in Seq(Entry)
            BY <1>4, <5>2, <6>1, Appended, EntriesKept
          <6> QED
            BY <6>2, ProfileNotNull
        <5> QED
          BY <2>2, <3>2, <5>1, <5>2 DEF ParseEntry, DigitsFault, Crash
      <4> QED
        BY <1>6, <1>7, <2>2, <3>2, <4>1 DEF ParseEntry, DigitsFault, Crash
    <3> QED
      BY <3>1, <3>2
  <2> QED
    BY <2>1, <2>2 DEF Parse

\* A thread inside whose step is one of the building ones is building.
LEMMA AtIs ==
  ASSUME ServingInv, BuildingInv, NEW t \in Thread, NEW s \in Steps, At(t, s)
  PROVE  Building(t) /\ todo[t] = <<s>> /\ lock = t /\ base \in Nat
<1>1. Building(t) /\ todo[t] # <<>> /\ Head(todo[t]) = s /\ lock = t /\ base \in Nat
  BY DEF At, Inside, BuildingInv, ServingInv
<1>2. PICK x \in Steps : todo[t] = <<x>>
  BY <1>1 DEF ServingInv
<1> QED
  BY <1>1, <1>2

\* The templates of the bundle are expanded, and all of it is to be merged.
LEMMA MaterializeInv ==
  ASSUME CascadeInv, program = "cfgsvcd", fault = "none", UNCHANGED program,
         NEW t \in Thread, Materialize(t)
  PROVE  CascadeInv'
<1> DEFINE b == req[t].bundle
<1>1. At(t, "materialize") /\ base' = base /\ Then(t, <<"merge">>) /\ UNCHANGED <<store, prof, due>>
  BY DEF Materialize, Crash
<1>2. /\ Building(t) /\ todo[t] = <<"materialize">> /\ lock = t /\ base \in Nat
  BY <1>1, AtIs DEF CascadeInv, Steps
<1>3. req[t].op = "push" /\ Materializing(b) /\ prof # NULL
  BY <1>2 DEF Building
<1>4. ServingInv' /\ lock' = t /\ todo'[t] = <<"merge">> /\ UNCHANGED req
  BY <1>1, ThenIs DEF CascadeInv, Steps
<1>5. CASE fault' # "none"
  <2>1. rest' = rest
    BY <1>5 DEF Materialize, Crash, CascadeInv
  <2> QED
    BY <1>1, <1>4, <1>5, <2>1 DEF CascadeInv, DataTypes
<1>6. CASE fault' = "none"
  <2>1. rest' = prof
    BY <1>6 DEF Materialize, Crash
  <2>2. DataTypes' /\ prof \in Seq(Entry) /\ store \in Seq(Entry)
    BY <1>1, <1>3, <2>1 DEF CascadeInv, DataTypes
  <2>3. b \in Bundle /\ b.count \in Nat
    BY <1>3, BundleFields DEF Materializing, Holds
  <2>4. Merging(b)'
    <3>1. Len(store) - base = 0 /\ Len(store) \in Nat
      BY <1>3, <2>2 DEF Materializing
    <3>2. Merged(b)'
      BY <1>1, <1>3, <1>4, <2>3, <3>1 DEF Materializing, Holds, Merged
    <3>3. Holds(b, b.count)'
      BY <1>1, <1>3, <1>4 DEF Materializing, Holds
    <3>4. Len(prof) = b.count /\ b' = b
      BY <1>3, <1>4 DEF Materializing, Holds
    <3>5. Len(store') - base' = 0
      BY <1>1, <3>1
    <3>6. Len(store') - base' + Len(rest') = b.count
      BY <2>1, <2>3, <3>4, <3>5
    <3>7. \A i \in 1 .. Len(rest') : rest'[i] = prof'[Len(store') - base' + i]
      BY <1>1, <2>1, <2>2, <3>5
    <3> HIDE DEF b
    <3> QED
      BY <3>2, <3>3, <3>4, <3>6, <3>7 DEF Merging
  <2>5. Building(t)'
    BY <1>1, <1>2, <1>3, <1>4, <2>4 DEF Building
  <2> QED
    BY <1>4, <2>2, <2>5, InsideIs DEF CascadeInv
<1> QED
  BY <1>5, <1>6

\* One more entry is copied behind the others, or no more are, and the profile is freed.
LEMMA MergeInv ==
  ASSUME CascadeInv, program = "cfgsvcd", fault = "none", UNCHANGED program,
         NEW t \in Thread, Merge(t)
  PROVE  CascadeInv'
<1> DEFINE b == req[t].bundle
           k == Len(store) - base
<1>1. At(t, "merge") /\ base' = base /\ UNCHANGED fault
  BY DEF Merge, MergeEntry
<1>2. /\ Building(t) /\ todo[t] = <<"merge">> /\ lock = t /\ base \in Nat
  BY <1>1, AtIs DEF CascadeInv, Steps
<1>3. req[t].op = "push" /\ Merging(b) /\ prof # NULL
  BY <1>2 DEF Building
<1>4. prof \in Seq(Entry) /\ rest \in Seq(Entry) /\ due \in Nat /\ store \in Seq(Entry)
  BY <1>3 DEF CascadeInv, DataTypes
<1>5. b \in Bundle /\ b.count \in Nat /\ b.items \in Seq(Entry)
  BY <1>3, BundleFields DEF Merging, Holds
<1>6. CASE CfgFree /\ Then(t, <<"reply">>) /\ UNCHANGED store
  <2>1. ServingInv' /\ lock' = t /\ todo'[t] = <<"reply">> /\ UNCHANGED req
    BY <1>1, <1>6, ThenIs DEF CascadeInv, Steps
  <2>2. DataTypes'
    BY <1>6 DEF CascadeInv, DataTypes, CfgFree
  <2>3. Merged(b)'
    BY <1>1, <1>3, <1>6, <2>1 DEF Merging, Merged
  <2>4. Building(t)'
    BY <1>1, <1>2, <1>3, <1>6, <2>1, <2>3 DEF Building, CfgFree
  <2> QED
    BY <2>1, <2>2, <2>4, InsideIs DEF CascadeInv
<1>7. CASE rest' = <<>> /\ UNCHANGED <<store, prof, due>> /\ UNCHANGED serveVars
  <2>1. DataTypes' /\ ServingInv' /\ lock' = t
    BY <1>2, <1>7 DEF CascadeInv, DataTypes, ServingInv, serveVars, Inside
  <2>2. todo'[t] = <<"merge">> /\ req'[t] = req[t] /\ base' \in Nat
    BY <1>1, <1>2, <1>7 DEF serveVars
  <2>3. Merging(b)'
    BY <1>1, <1>3, <1>7, <2>2 DEF Merging, Holds, Merged
  <2>4. Building(t)'
    BY <1>3, <1>7, <2>2, <2>3 DEF Building
  <2> QED
    BY <2>1, <2>4, InsideIs DEF CascadeInv
<1>8. CASE /\ rest # <<>> /\ rest' = Tail(rest) /\ UNCHANGED <<prof, due>> /\ UNCHANGED serveVars
           /\ \E e \in Copies(Head(rest)) : store' = Append(store, e)
  <2>1. PICK e \in Copies(Head(rest)) : store' = Append(store, e)
    BY <1>8
  <2>2. /\ Head(rest) \in Entry /\ Head(rest) = rest[1] /\ Tail(rest) \in Seq(Entry)
        /\ Len(Tail(rest)) = Len(rest) - 1 /\ Len(rest) \in Nat \ {0}
        /\ \A i \in 1 .. Len(Tail(rest)) : Tail(rest)[i] = rest[i + 1]
    BY <1>4, <1>8
  <2>3. e \in Entry
    BY <2>2, EntriesKept
  <2>4. /\ store' \in Seq(Entry) /\ Len(store') = Len(store) + 1 /\ Len(store) \in Nat
        /\ store'[Len(store) + 1] = e /\ \A i \in 1 .. Len(store) : store'[i] = store[i]
    BY <1>4, <2>1, <2>3, Appended
  <2>5. DataTypes' /\ ServingInv' /\ lock' = t
    BY <1>2, <1>8, <2>2, <2>4 DEF CascadeInv, DataTypes, ServingInv, serveVars, Inside
  <2>6. todo'[t] = <<"merge">> /\ req'[t] = req[t] /\ base' \in Nat /\ b' = b
    BY <1>1, <1>2, <1>8 DEF serveVars
  <2>7. /\ k \in Nat /\ k + Len(rest) = b.count /\ rest[1] = prof[k + 1]
        /\ \A i \in 1 .. Len(rest) : rest[i] = prof[k + i]
    <3>1. k \in Nat /\ k <= b.count
      BY <1>2, <1>3, <2>4 DEF Merging, Merged
    <3>2. k + Len(rest) = b.count /\ \A i \in 1 .. Len(rest) : rest[i] = prof[k + i]
      BY <1>3, <1>8 DEF Merging
    <3>3. 1 \in 1 .. Len(rest)
      BY <2>2
    <3> QED
      BY <3>1, <3>2, <3>3
  <2>8. /\ Len(prof) = b.count /\ b.ok /\ b.count <= Len(b.items)
        /\ \A i \in 1 .. b.count : WithinLimits(b.items[i]) /\ prof[i] = Kept(b.items[i])
    BY <1>3 DEF Merging, Holds
  <2>9. k + 1 \in 1 .. b.count /\ store'[base + (k + 1)] \in Copies(Kept(b.items[k + 1]))
    <3>1. k + 1 \in 1 .. b.count
      <4> HIDE DEF b, k
      <4> QED
        BY <1>5, <2>2, <2>7
    <3>2. base + (k + 1) = Len(store) + 1
      BY <1>2, <2>4
    <3>3. store'[base + (k + 1)] = e
      BY <2>4, <3>2
    <3>4. Head(rest) = Kept(b.items[k + 1])
      BY <2>2, <2>7, <2>8, <3>1
    <3> QED
      BY <3>1, <3>3, <3>4
  <2>10. Len(store') - base' = k + 1
    BY <1>1, <1>2, <2>4
  <2>11. Merged(b)'
    <3>1. \A i \in 1 .. k + 1 : store'[base + i] \in Copies(Kept(b.items[i]))
      <4> SUFFICES ASSUME NEW i \in 1 .. k + 1 PROVE store'[base + i] \in Copies(Kept(b.items[i]))
        OBVIOUS
      <4>1. CASE i = k + 1
        BY <2>9, <4>1
      <4>2. CASE i # k + 1
        <5>1. i \in 1 .. k /\ base + i \in 1 .. Len(store)
          BY <1>2, <2>4, <2>7, <4>2
        <5>2. store'[base + i] = store[base + i]
          BY <2>4, <5>1
        <5> QED
          BY <1>3, <5>1, <5>2 DEF Merging, Merged
      <4> QED
        BY <4>1, <4>2
    <3>2. base' <= Len(store') /\ k + 1 <= b.count
      BY <1>1, <1>2, <1>5, <2>4, <2>7, <2>9
    <3> HIDE DEF b, k
    <3> QED
      BY <1>1, <1>5, <2>6, <2>8, <2>10, <3>1, <3>2 DEF Merged
  <2>12. Holds(b, b.count)'
    BY <1>3, <1>8, <2>6 DEF Merging, Holds
  <2>13. Merging(b)'
    <3>1. k + 1 + Len(rest') = b.count
      <4> HIDE DEF b, k
      <4> QED
        BY <1>8, <2>2, <2>7
    <3>2. \A i \in 1 .. Len(rest') : rest'[i] = prof'[k + 1 + i]
      <4> SUFFICES ASSUME NEW i \in 1 .. Len(rest') PROVE rest'[i] = prof'[k + 1 + i]
        OBVIOUS
      <4>1. rest'[i] = rest[i + 1] /\ i + 1 \in 1 .. Len(rest)
        BY <1>8, <2>2
      <4>2. rest[i + 1] = prof[k + (i + 1)]
        BY <2>7, <4>1
      <4> QED
        BY <1>8, <2>7, <4>1, <4>2
    <3> HIDE DEF b, k
    <3> QED
      BY <2>6, <2>10, <2>11, <2>12, <3>1, <3>2 DEF Merging
  <2>14. Building(t)'
    BY <1>3, <1>8, <2>6, <2>13 DEF Building
  <2> QED
    BY <2>5, <2>14, InsideIs DEF CascadeInv
<1> QED
  BY <1>6, <1>7, <1>8 DEF Merge, MergeEntry, append_entry

-----------------------------------------------------------------------------
(* The tools.                                                              *)

\* A step that leaves the profile alone, or begins, extends or frees one, keeps types.
LEMMA ProfileTyped ==
  ASSUME DataTypes, UNCHANGED <<store, program>>,
         \/ UNCHANGED <<prof, rest, due>>
         \/ CfgFree
         \/ \E b \in Bundle : ParseHeader(b)
         \/ prof # NULL /\ ParseEntry
         \/ CfgNew
         \/ prof # NULL /\ \E type \in {"str", "wstr"} : AddAny(type)
  PROVE  DataTypes'
<1>1. CASE UNCHANGED <<prof, rest, due>>
  BY <1>1 DEF DataTypes
<1>2. CASE CfgFree
  BY <1>2 DEF DataTypes, CfgFree
<1>3. CASE \E b \in Bundle : ParseHeader(b)
  BY <1>3, BundleFields DEF DataTypes, ParseHeader
<1>4. CASE prof # NULL /\ ParseEntry
  <2>1. CASE ParseFails \/ UNCHANGED <<prof, rest, due>>
    BY <1>1, <1>2, <2>1 DEF ParseFails
  <2>2. CASE rest # <<>> /\ prof' = Append(prof, Kept(Head(rest))) /\ rest' = Tail(rest) /\ due' = due - 1
    <3>1. Head(rest) \in Entry /\ Tail(rest) \in Seq(Entry) /\ prof \in Seq(Entry)
      BY <1>4, <2>2 DEF DataTypes
    <3>2. prof' \in Seq(Entry)
      BY <2>2, <3>1, EntriesKept, Appended
    <3>3. due' \in Nat
      BY <1>4, <2>2 DEF ParseEntry, DigitsFault, DataTypes
    <3> QED
      BY <2>2, <3>1, <3>2, <3>3 DEF DataTypes
  <2> QED
    BY <1>4, <2>1, <2>2 DEF ParseEntry, DigitsFault, Crash
<1>5. CASE CfgNew
  <2>1. due' \in Nat
    BY <1>5, CfgAssumption DEF CfgNew
  <2> QED
    BY <1>5, <2>1 DEF DataTypes, CfgNew
<1>6. CASE prof # NULL /\ \E type \in {"str", "wstr"} : AddAny(type)
  <2>1. PICK type \in {"str", "wstr"}, n \in Name : CfgAdd([name |-> n, type |-> type, text |-> <<>>])
    BY <1>6 DEF AddAny
  <2>2. [name |-> n, type |-> type, text |-> <<>>] \in Entry
    BY DEF Entry, Type
  <2>3. prof \in Seq(Entry) /\ prof' \in Seq(Entry)
    <3>1. prof \in Seq(Entry)
      BY <1>6 DEF DataTypes
    <3>2. prof' = Append(prof, [name |-> n, type |-> type, text |-> <<>>]) \/ prof' = prof
      BY <2>1 DEF CfgAdd
    <3> QED
      BY <2>2, <3>1, <3>2, Appended
  <2>4. due' \in Nat
    BY <1>6 DEF AddAny, DataTypes
  <2> QED
    BY <1>6, <2>3, <2>4 DEF DataTypes, AddAny
<1> QED
  BY <1>1, <1>2, <1>3, <1>4, <1>5, <1>6

\* Every step of a tool takes what the next stage needs and gives up the rest.
LEMMA ToolStepInv ==
  ASSUME CascadeInv, program # "cfgsvcd", fault = "none", UNCHANGED <<serveVars, base, program>>,
         ToolWork \/ DeleteKey
  PROVE  CascadeInv'
<1>1. DataTypes /\ ToolInv
  BY DEF CascadeInv
<1>2. ServingInv'
  BY DEF CascadeInv, ServingInv, serveVars, Inside
<1> USE DEF ToolInv, OwnedAt, WithProfile, Go
<1>3. CASE LoadLibrary \/ GetProvider \/ OpenFile
  BY <1>1, <1>2, <1>3, ProfileTyped
     DEF CascadeInv, LoadLibrary, GetProvider, OpenFile, Failed, cfgVars
<1>4. CASE ReadFile
  <2>1. CASE UNCHANGED cfgVars
    BY <1>1, <1>2, <1>4, <2>1, ProfileTyped DEF CascadeInv, ReadFile, Failed, cfgVars
  <2>2. CASE \E b \in Bundle : ParseHeader(b)
    <3>1. UNCHANGED store /\ stage' = "parse" /\ held' \subseteq {"lib", "buf"}
      <4>1. prof = NULL /\ prof' # NULL
        BY <1>1, <1>4, <2>2, EmptySeq, ProfileNotNull DEF ReadFile, ParseHeader
      <4> QED
        BY <1>1, <1>4, <2>2, <4>1 DEF ReadFile, ParseHeader, Failed, cfgVars
    <3> QED
      BY <1>1, <1>2, <2>2, <3>1, ProfileTyped DEF CascadeInv
  <2> QED
    BY <1>4, <2>1, <2>2 DEF ReadFile, NotParsed, Failed
<1>5. CASE ParseFile
  <2>1. CASE UNCHANGED cfgVars
    BY <1>1, <1>2, <1>5, <2>1, ProfileTyped DEF CascadeInv, ParseFile, Failed, cfgVars, toolVars
  <2>2. CASE prof # NULL /\ ParseEntry /\ UNCHANGED toolVars
    <3>1. UNCHANGED store /\ stage' = "parse" /\ held' = held
      BY <1>5, <2>2 DEF ParseFile, ParseEntry, DigitsFault, Crash, toolVars
    <3> QED
      BY <1>1, <1>2, <1>5, <2>2, <3>1, ProfileTyped DEF CascadeInv, ParseFile
  <2> QED
    BY <1>5, <2>1, <2>2 DEF ParseFile, Failed
<1>6. CASE NewEnv \/ NewReg
  <2>1. CASE UNCHANGED cfgVars
    BY <1>1, <1>2, <1>6, <2>1, ProfileTyped, EmptySeq, ProfileNotNull
       DEF CascadeInv, NewEnv, NewReg, Failed, CfgNew, cfgVars
  <2>2. CASE CfgNew
    <3>1. UNCHANGED <<store, fault>> /\ prof' # NULL
      BY <2>2, EmptySeq, ProfileNotNull DEF CfgNew
    <3>2. CASE NewEnv /\ Go("names", held)
      BY <1>1, <1>2, <2>2, <3>1, <3>2, ProfileTyped DEF CascadeInv, NewEnv
    <3>3. CASE NewReg /\ Go("values", held)
      BY <1>1, <1>2, <2>2, <3>1, <3>3, ProfileTyped DEF CascadeInv, NewReg
    <3>4. CASE Failed(held) \/ Failed(held \ {"key"})
      BY <2>1, <3>4 DEF Failed
    <3> QED
      BY <1>6, <3>2, <3>3, <3>4 DEF NewEnv, NewReg
  <2> QED
    BY <1>6, <2>1, <2>2 DEF NewEnv, NewReg, Failed
<1>7. CASE ReadEnv \/ ReadKey
  <2>1. CASE UNCHANGED <<store, prof, rest, due>>
    BY <1>1, <1>2, <1>7, <2>1, ProfileTyped
       DEF CascadeInv, ReadEnv, ReadKey, AddAny, Crash, cfgVars, toolVars
  <2>2. CASE \E type \in {"str", "wstr"} : AddAny(type) /\ UNCHANGED toolVars
    <3>1. UNCHANGED <<store, fault>> /\ prof # NULL
      BY <1>1, <1>7, <2>2 DEF AddAny, ReadEnv, ReadKey
    <3>2. prof' # NULL
      <4>1. prof' = prof \/ \E e \in Entry : prof' = Append(prof, e)
        <5>1. PICK type \in {"str", "wstr"}, n \in Name :
                CfgAdd([name |-> n, type |-> type, text |-> <<>>])
          BY <2>2 DEF AddAny
        <5>2. [name |-> n, type |-> type, text |-> <<>>] \in Entry
          BY DEF Entry, Type
        <5> QED
          BY <5>1, <5>2 DEF CfgAdd
      <4>2. prof \in Seq(Entry)
        BY <1>1, <3>1 DEF DataTypes
      <4> QED
        BY <3>1, <4>1, <4>2, Appended, ProfileNotNull
    <3>3. DataTypes'
      BY <1>1, <2>2, <3>1, ProfileTyped
    <3> QED
      BY <1>1, <1>2, <1>7, <2>2, <3>1, <3>2, <3>3 DEF CascadeInv, toolVars, ReadEnv, ReadKey
  <2> QED
    BY <1>7, <2>1, <2>2 DEF ReadEnv, ReadKey, Crash, cfgVars
<1>8. CASE OpenKey \/ DeleteKey
  BY <1>1, <1>2, <1>8, ProfileTyped DEF CascadeInv, OpenKey, DeleteKey, Failed, cfgVars
<1>9. CASE Report \/ GiveUp
  <2>1. CASE UNCHANGED <<store, prof, rest, due>>
    BY <1>1, <1>2, <1>9, <2>1, ProfileTyped
       DEF CascadeInv, Report, GiveUp, Crash, CfgFree, cfgVars, toolVars
  <2>2. CASE CfgFree /\ Go("exit", held \ {"lib"}) /\ UNCHANGED <<store, fault>> /\ stage = "print"
    BY <1>1, <1>2, <2>2, ProfileTyped DEF CascadeInv, CfgFree
  <2> QED
    BY <1>9, <2>1, <2>2 DEF Report, GiveUp, Crash, cfgVars
<1> QED
  BY <1>3, <1>4, <1>5, <1>6, <1>7, <1>8, <1>9 DEF ToolWork

-----------------------------------------------------------------------------
(* Every program.                                                          *)

\* An empty store, two threads outside everything, a tool with nothing in hand.
LEMMA InitInv == Init => CascadeInv
<1> SUFFICES ASSUME Init PROVE CascadeInv
  OBVIOUS
<1>1. DataTypes
  BY DEF Init, SvcInit, CfgInit, DataTypes
<1>2. ServingInv
  <2>1. PICK p \in {"listen", "gone"} : pc = [t \in Thread |-> IF t = "tcp" THEN "start" ELSE p]
    BY DEF Init, SvcInit, ServeInit
  <2>2. \A t \in Thread : pc[t] \in {"start", "listen", "gone"}
    BY <2>1
  <2> QED
    BY <2>1, <2>2, ServeAssumption
       DEF Init, SvcInit, ServeInit, ServingInv, Holding, Inside
<1>3. program = "cfgsvcd" => BuildingInv
  BY <1>2, ServeAssumption DEF Init, SvcInit, ServeInit, CfgInit, BuildingInv, ServingInv
<1>4. program # "cfgsvcd" => ToolInv
  BY DEF Init, SvcInit, CfgInit, ToolInit, ToolInv, OwnedAt, WithProfile
<1> QED
  BY <1>1, <1>2, <1>3, <1>4 DEF CascadeInv

\* Every step of every program preserves the invariant.
LEMMA NextInv ==
  ASSUME CascadeInv, [Next]_vars
  PROVE  CascadeInv'
<1>1. CASE UNCHANGED vars
  BY <1>1 DEF vars, svcVars, cfgVars, serveVars, toolVars, CascadeInv, DataTypes, ServingInv,
              Inside, BuildingInv, Building, Parsing, Materializing, Merging, Holds, Merged, ToolInv
<1>2. CASE Service
  <2>1. program = "cfgsvcd" /\ fault = "none" /\ UNCHANGED program
    BY <1>2 DEF Service, SvcNext, SvcGone
  <2>2. CASE Startup \/ \E t \in Thread : Transport(t)
    <3>1. ServingInv' /\ BuildingInv'
      BY <2>1, <2>2, TransportInv DEF CascadeInv
    <3>2. DataTypes' /\ UNCHANGED fault
      BY <2>1, <2>2 DEF CascadeInv, DataTypes, Startup, Transport, cfgVars
    <3> QED
      BY <2>1, <3>1, <3>2 DEF CascadeInv
  <2>3. ASSUME NEW t \in Thread, Dispatch(t) \/ Inner(t) PROVE CascadeInv'
    BY <2>1, <2>3, AroundInv, HandlerInv, ParseInv, MaterializeInv, MergeInv DEF Inner
  <2> QED
    BY <1>2, <2>2, <2>3 DEF Service, SvcNext
<1>3. CASE Tool
  BY <1>3, ToolStepInv DEF Tool, ToolNext, ToolDone
<1>4. CASE Rest
  BY <1>1, <1>4 DEF Rest
<1> QED
  BY <1>1, <1>2, <1>3, <1>4 DEF Next

\* The store is only ever appended to (append_entry is its one writer).
LEMMA StoreGrows ==
  ASSUME CascadeInv, [Next]_vars
  PROVE  store' = store \/ \E e \in Entry : store' = Append(store, e)
<1>1. CASE Service
  <2>1. CASE \E t \in Thread : Merge(t)
    <3>1. PICK t \in Thread : Merge(t)
      BY <2>1
    <3>2. CASE MergeEntry
      <4>1. rest # <<>> => Head(rest) \in Entry
        BY DEF CascadeInv, DataTypes
      <4> QED
        BY <3>2, <4>1, EntriesKept DEF MergeEntry, append_entry
    <3> QED
      BY <3>1, <3>2 DEF Merge
  <2>2. CASE \E t \in Thread : RunHandler(t)
    BY <2>2 DEF RunHandler, handle_get, handle_push, Answered, CfgExpandTemplate, Crash, ParseHeader,
                NotParsed, cfgVars
  <2>3. CASE \E t \in Thread : Parse(t)
    BY <2>3 DEF Parse, ParseEntry, DigitsFault, Crash, cfgVars
  <2>4. CASE \E t \in Thread : Materialize(t)
    BY <2>4 DEF Materialize, Crash
  <2>5. CASE Startup \/ \E t \in Thread : Transport(t) \/ Dispatch(t) \/ Answer(t) \/ Finish(t)
    BY <2>5 DEF Startup, Transport, Dispatch, Answer, Finish, cfgVars
  <2> QED
    BY <1>1, <2>1, <2>2, <2>3, <2>4, <2>5 DEF Service, SvcNext, Inner
<1>2. CASE Tool
  BY <1>2 DEF Tool, ToolNext, ToolWork, LoadLibrary, GetProvider, OpenFile, ReadFile, ParseFile,
              NewEnv, ReadEnv, OpenKey, NewReg, ReadKey, Report, GiveUp, DeleteKey, Failed, AddAny,
              CfgNew, CfgFree, ParseEntry, DigitsFault, ParseHeader, NotParsed, Crash, cfgVars
<1>3. CASE UNCHANGED vars
  BY <1>3 DEF vars, svcVars, cfgVars
<1> QED
  BY <1>1, <1>2, <1>3 DEF Next, Rest

-----------------------------------------------------------------------------
(* Theorems.                                                               *)

\* What is being parsed, merged, held and answered fits together in the service and
\* in the tools (serve, handle_push, CfgParseBlob, CfgMerge, wmain).
THEOREM CascadeInvariant == Spec => []CascadeInv
BY InitInv, NextInv, PTL DEF Spec

\* The store implements the abstract bindings: a name is bound once and for good
\* (append_entry, CfgLookup).
THEOREM StoreImplementsBindings == Spec => ImplementsBindings
<1>1. Init => B!Init
  <2>1. Init => store = <<>>
    BY DEF Init, SvcInit, CfgInit
  <2>2. store = <<>> => \A n \in Name : Bound(store, n) = NULL
    BY DEF Bound
  <2> QED
    BY <2>1, <2>2 DEF B!Init
<1>2. CascadeInv /\ [Next]_vars => [B!Next]_([n \in Name |-> Bound(store, n)])
  <2> SUFFICES ASSUME CascadeInv, [Next]_vars
               PROVE  [B!Next]_([n \in Name |-> Bound(store, n)])
    OBVIOUS
  <2>1. CASE store' = store
    BY <2>1
  <2>2. CASE \E e \in Entry : store' = Append(store, e)
    BY <2>2, AppendBinds DEF CascadeInv, DataTypes
  <2> QED
    BY <2>1, <2>2, StoreGrows
<1> QED
  BY <1>1, <1>2, CascadeInvariant, PTL DEF Spec, ImplementsBindings, B!Spec

\* What a push has added is a beginning of its bundle, parsed to the end before any of
\* it was added (CfgParseBlob, CfgMerge).
THEOREM PushesAddPrefixes == Spec => []PushedPrefix
<1>1. CascadeInv => PushedPrefix
  <2> SUFFICES ASSUME CascadeInv, fault = "none", NEW t \in Thread, Inside(t), ~At(t, "handle"),
                      Added # <<>>
               PROVE  LET b == req[t].bundle
                      IN /\ Pushing(t)
                         /\ b.ok /\ Len(Added) <= b.count /\ b.count <= Len(b.items)
                         /\ \A i \in 1 .. b.count : WithinLimits(b.items[i])
                         /\ \A i \in 1 .. Len(Added) : Added[i] \in Copies(Kept(b.items[i]))
    BY DEF PushedPrefix
  <2>1. program = "cfgsvcd"
    BY ServeAssumption DEF CascadeInv, ServingInv
  <2>2. Building(t) /\ base \in Nat /\ store \in Seq(Entry)
    BY <2>1 DEF CascadeInv, BuildingInv, DataTypes
  <2>3. /\ Len(Added) = IF base < Len(store) THEN Len(store) - base ELSE 0
        /\ \A i \in 1 .. Len(store) - base : Added[i] = store[base + i]
    <3>1. base + 1 \in Int /\ Len(store) \in Int /\ \A i \in base + 1 .. Len(store) : store[i] \in Entry
      BY <2>2
    <3>2. /\ Len(Added) = IF base + 1 <= Len(store) THEN Len(store) - (base + 1) + 1 ELSE 0
          /\ \A i \in 1 .. Len(store) - (base + 1) + 1 : Added[i] = store[(base + 1) + i - 1]
      BY <3>1, SubSeqProperties DEF Added
    <3> QED
      BY <2>2, <3>2
  <2>4. base # Len(store)
    <3>1. base = Len(store) => Added = <<>>
      BY <2>2, SubSeqEmpty DEF Added
    <3> QED
      BY <3>1
  <2>5. req[t].op = "push" /\ Merged(req[t].bundle)
    <3>1. todo[t] = <<>> \/ todo[t] \in {<<s>> : s \in Steps}
      BY DEF CascadeInv, ServingInv
    <3>2. todo[t] # <<"handle">>
      <4>1. <<"handle">> # <<>> /\ Head(<<"handle">>) = "handle"
        OBVIOUS
      <4> QED
        BY <4>1 DEF At, Inside
    <3>3. todo[t] \notin {<<"parse">>, <<"materialize">>}
      BY <2>2, <2>4 DEF Building, Parsing, Materializing
    <3>4. CASE todo[t] = <<"merge">>
      BY <2>2, <3>4 DEF Building, Merging
    <3>5. CASE todo[t] \in {<<>>, <<"reply">>}
      BY <2>2, <2>4, <3>5 DEF Building
    <3> QED
      BY <3>1, <3>2, <3>3, <3>4, <3>5 DEF Steps
  <2>6. Pushing(t)
    BY <2>5 DEF Pushing
  <2>7. Len(Added) = Len(store) - base
    BY <2>2, <2>3, <2>5 DEF Merged
  <2> QED
    BY <2>3, <2>5, <2>6, <2>7 DEF Merged
<1> QED
  BY <1>1, CascadeInvariant, PTL

\* Nothing is left behind by a request, and nothing by a tool (serve, handle_push,
\* CfgOpenFile, ProviderLoad, wmain).
THEOREM NothingIsLeft == Spec => []NothingLeft
<1>1. CascadeInv => NothingLeft
  <2> SUFFICES ASSUME CascadeInv, fault = "none" PROVE NothingLeft
    BY DEF NothingLeft
  <2>1. \A t \in Thread : arg[t] <=> pc[t] \in Holding
    BY DEF CascadeInv, ServingInv
  <2>2. ASSUME program = "cfgsvcd", prof # NULL
        PROVE  \E t \in Thread : /\ lock = t
                                 /\ At(t, "parse") \/ At(t, "materialize") \/ At(t, "merge")
    <3>1. PICK t \in Thread : lock = t
      BY <2>2 DEF CascadeInv, BuildingInv, ServingInv
    <3>2. Inside(t) /\ Building(t)
      BY <2>2, <3>1 DEF CascadeInv, BuildingInv, ServingInv
    <3>3. todo[t] \in {<<"parse">>, <<"materialize">>, <<"merge">>}
      BY <2>2, <3>2 DEF Building
    <3> QED
      BY <3>1, <3>2, <3>3 DEF At, Inside
  <2>3. stage = "exit" /\ program # "cfgsvcd" => prof = NULL /\ held = {}
    BY DEF CascadeInv, ToolInv, WithProfile
  <2> QED
    BY <2>1, <2>2, <2>3, Zenon DEF NothingLeft, Holding
<1> QED
  BY <1>1, CascadeInvariant, PTL

\* A template whose references are all bound has its answer for good
\* (CfgExpandTemplate, find_entry).
THEOREM ExpansionsSettle == Spec => SettledExpansions
<1> DEFINE Same == \A i \in 1 .. Len(store) :
                     Settled(i) => /\ store'[i] = store[i]
                                   /\ Written(store', store[i].text) = Written(store, store[i].text)
<1>1. CascadeInv /\ [Next]_vars => Same
  <2> SUFFICES ASSUME CascadeInv, [Next]_vars, NEW i \in 1 .. Len(store), Settled(i)
               PROVE  /\ store'[i] = store[i]
                      /\ Written(store', store[i].text) = Written(store, store[i].text)
    OBVIOUS
  <2>1. store \in Seq(Entry)
    BY DEF CascadeInv, DataTypes
  <2>2. store' \in Seq(Entry) /\ Grows(store, store')
    <3>1. CASE store' = store
      BY <2>1, <3>1 DEF Grows
    <3>2. CASE \E e \in Entry : store' = Append(store, e)
      BY <2>1, <3>2, Appended
    <3> QED
      BY <3>1, <3>2, StoreGrows
  <2>3. store'[i] = store[i]
    BY <2>1, <2>2 DEF Grows
  <2>4. Written(store', store[i].text) = Written(store, store[i].text)
    BY <2>1, <2>2, WrittenStays DEF Settled
  <2> QED
    BY <2>3, <2>4
<1> QED
  BY <1>1, CascadeInvariant, PTL DEF Spec, SettledExpansions
-----------------------------------------------------------------------------
(* The programs come to their ends.                                        *)

\* The entries a push announces.
Announced(t) == IF req[t].op = "push" THEN req[t].bundle.count ELSE 0

\* The steps a thread inside the critical section has before it: an entry is parsed in
\* one, and merged in another.
Ahead(t) ==
  CASE todo[t] = <<"handle">>      -> Announced(t) + Announced(t) + 5
    [] todo[t] = <<"parse">>       -> due + Announced(t) + 4
    [] todo[t] = <<"materialize">> -> Announced(t) + 3
    [] todo[t] = <<"merge">>       -> Len(rest) + 2
    [] todo[t] = <<"reply">>       -> 1
    [] OTHER -> 0

\* And those a tool has, which at 0 has exited or asks for the values of a deleted key.
ToolAhead ==
  CASE stage = "load"                          -> MaxEntries + 7
    [] stage = "resolve"                       -> MaxEntries + 6
    [] stage \in {"open", "env", "reg"}        -> MaxEntries + 5
    [] stage \in {"read", "new"}               -> MaxEntries + 4
    [] stage \in {"parse", "names", "values"}  -> 3 + IF prof = NULL THEN 0 ELSE due
    [] stage = "print"                         -> 2
    [] stage = "failed"                        -> 1
    [] OTHER -> 0

Remaining ==
  IF program # "cfgsvcd" THEN ToolAhead ELSE IF lock = NULL THEN 0 ELSE 1 + Ahead(lock)

Measured == \A t \in Thread : Inside(t) => Announced(t) \in Nat /\ Ahead(t) \in Nat

\* What is ahead of the one step there is.
LEMMA AheadIs ==
  ASSUME NEW t \in Thread
  PROVE  /\ todo[t] = <<"handle">> => Ahead(t) = Announced(t) + Announced(t) + 5
         /\ todo[t] = <<"parse">> => Ahead(t) = due + Announced(t) + 4
         /\ todo[t] = <<"materialize">> => Ahead(t) = Announced(t) + 3
         /\ todo[t] = <<"merge">> => Ahead(t) = Len(rest) + 2
         /\ todo[t] = <<"reply">> => Ahead(t) = 1
BY DEF Ahead

\* And of the one there is next.
LEMMA AheadNext ==
  ASSUME NEW t \in Thread
  PROVE  /\ todo'[t] = <<>> => Ahead(t)' = 0
         /\ todo'[t] = <<"parse">> => Ahead(t)' = due' + Announced(t)' + 4
         /\ todo'[t] = <<"materialize">> => Ahead(t)' = Announced(t)' + 3
         /\ todo'[t] = <<"merge">> => Ahead(t)' = Len(rest') + 2
         /\ todo'[t] = <<"reply">> => Ahead(t)' = 1
BY DEF Ahead

LEMMA AheadTyped == CascadeInv => Measured
<1> SUFFICES ASSUME CascadeInv, NEW t \in Thread, Inside(t)
             PROVE  Announced(t) \in Nat /\ Ahead(t) \in Nat
  BY DEF Measured
<1>1. Announced(t) \in Nat
  <2>1. req[t] \in Requests
    BY DEF Inside, CascadeInv, ServingInv, Holding
  <2> QED
    BY <2>1, RequestBundle, BundleFields DEF Announced
<1>2. due \in Nat /\ Len(rest) \in Nat
  BY DEF CascadeInv, DataTypes
<1> QED
  BY <1>1, <1>2 DEF Ahead

\* Every step inside the critical section brings its end nearer, unless it ends the
\* process.
LEMMA InnerForward ==
  ASSUME CascadeInv, program = "cfgsvcd", fault = "none", UNCHANGED program,
         NEW t \in Thread, RunHandler(t) \/ Parse(t) \/ Materialize(t) \/ Merge(t) \/ Answer(t)
  PROVE  /\ Inside(t) /\ Inside(t)' /\ lock' = lock
         /\ fault' # "none" \/ Ahead(t)' < Ahead(t)
<1>1. PICK s \in Steps : At(t, s)
  BY DEF RunHandler, Parse, Materialize, Merge, Answer, Reply, Steps
<1>2. Building(t) /\ todo[t] = <<s>> /\ lock = t /\ Inside(t)
  BY <1>1, AtIs DEF CascadeInv, BuildingInv, At, Inside
<1>3. DataTypes /\ ServingInv /\ due \in Nat /\ Announced(t) \in Nat
  BY <1>2, AheadTyped DEF CascadeInv, DataTypes, Measured
<1>4. ASSUME NEW steps \in {<<>>} \cup {<<x>> : x \in Steps}, Then(t, steps)
      PROVE  todo'[t] = steps /\ Inside(t)' /\ lock' = lock /\ Announced(t)' = Announced(t)
  BY <1>1, <1>3, <1>4, ThenIs DEF Announced
<1>5. CASE RunHandler(t)
  <2>1. Ahead(t) = Announced(t) + Announced(t) + 5
    BY <1>2, <1>5, AheadIs DEF RunHandler, At
  <2>2. CASE Then(t, <<"reply">>)
    <3>1. todo'[t] = <<"reply">> /\ Inside(t)' /\ lock' = lock
      BY <1>4, <2>2 DEF Steps
    <3> QED
      BY <1>2, <1>3, <2>1, <3>1, AheadNext
  <2>3. CASE req[t].op = "push" /\ ParseHeader(req[t].bundle) /\ Then(t, <<"parse">>)
    <3>1. todo'[t] = <<"parse">> /\ Inside(t)' /\ lock' = lock /\ Announced(t)' = Announced(t)
      BY <1>4, <2>3 DEF Steps
    <3>2. due' = Announced(t)
      BY <2>3 DEF ParseHeader, Announced
    <3> QED
      BY <1>2, <1>3, <2>1, <3>1, <3>2, AheadNext
  <2> QED
    BY <1>5, <2>2, <2>3 DEF RunHandler, handle_get, handle_push
<1>6. CASE Parse(t)
  <2>1. todo[t] = <<"parse">> /\ Ahead(t) = due + Announced(t) + 4
    BY <1>2, <1>6, AheadIs DEF Parse, At
  <2>2. CASE Then(t, <<"reply">>)
    <3>1. todo'[t] = <<"reply">> /\ Inside(t)' /\ lock' = lock
      BY <1>4, <2>2 DEF Steps
    <3> QED
      BY <1>2, <1>3, <2>1, <3>1, AheadNext
  <2>3. CASE Parsed /\ Then(t, <<"materialize">>)
    <3>1. todo'[t] = <<"materialize">> /\ Inside(t)' /\ lock' = lock /\ Announced(t)' = Announced(t)
      BY <1>4, <2>3 DEF Steps
    <3> QED
      BY <1>2, <1>3, <2>1, <2>3, <3>1, AheadNext DEF Parsed
  <2>4. CASE ParseEntry /\ prof' # NULL /\ UNCHANGED serveVars
    <3>1. todo'[t] = <<"parse">> /\ Inside(t)' /\ lock' = lock /\ Announced(t)' = Announced(t)
      BY <1>2, <2>1, <2>4 DEF serveVars, Announced, Inside
    <3>2. due' = due - 1 \/ fault' # "none"
      BY <2>4 DEF ParseEntry, DigitsFault, ParseFails, CfgFree, Crash
    <3> QED
      BY <1>2, <1>3, <2>1, <3>1, <3>2, AheadNext
  <2> QED
    BY <1>6, <2>2, <2>3, <2>4 DEF Parse
<1>7. CASE Materialize(t)
  <2>1. todo[t] = <<"materialize">> /\ Ahead(t) = Announced(t) + 3
    BY <1>2, <1>7, AheadIs DEF Materialize, At
  <2>2. todo'[t] = <<"merge">> /\ Inside(t)' /\ lock' = lock
    BY <1>4, <1>7 DEF Materialize, Steps
  <2>3. Len(prof) = Announced(t)
    <3>1. Materializing(req[t].bundle) /\ prof # NULL
      BY <1>2, <2>1 DEF Building
    <3> QED
      BY <1>2, <3>1 DEF Building, Materializing, Holds, Announced
  <2>4. rest' = prof \/ fault' # "none"
    BY <1>7 DEF Materialize, Crash
  <2> QED
    BY <1>2, <1>3, <2>1, <2>2, <2>3, <2>4, AheadNext
<1>8. CASE Merge(t)
  <2>1. todo[t] = <<"merge">> /\ Ahead(t) = Len(rest) + 2 /\ rest \in Seq(Entry)
    BY <1>2, <1>3, <1>8, AheadIs DEF Merge, At, DataTypes
  <2>2. CASE rest = <<>> /\ Then(t, <<"reply">>)
    <3>1. todo'[t] = <<"reply">> /\ Inside(t)' /\ lock' = lock
      BY <1>4, <2>2 DEF Steps
    <3> QED
      BY <1>2, <2>1, <2>2, <3>1, AheadNext
  <2>3. CASE MergeEntry /\ UNCHANGED serveVars
    <3>1. todo'[t] = <<"merge">> /\ Inside(t)' /\ lock' = lock
      BY <1>2, <2>1, <2>3 DEF serveVars, Inside
    <3>2. Len(rest') < Len(rest) /\ Len(rest) \in Nat /\ Len(rest') \in Nat
      <4>1. Len(<<>>) = 0 /\ Len(Tail(rest)) = Len(rest) - 1 /\ Len(rest) \in Nat \ {0}
        BY <2>1, <2>3 DEF MergeEntry
      <4> QED
        BY <2>3, <4>1 DEF MergeEntry
    <3> QED
      BY <1>2, <2>1, <3>1, <3>2, AheadNext
  <2> QED
    BY <1>8, <2>2, <2>3 DEF Merge
<1>9. CASE Answer(t)
  <2>1. Ahead(t) = 1
    BY <1>2, <1>9, AheadIs DEF Answer, Reply, At
  <2>2. todo'[t] = <<>> /\ Inside(t)' /\ lock' = lock
    BY <1>4, <1>9 DEF Answer, Reply
  <2> QED
    BY <1>2, <2>1, <2>2, AheadNext
<1> QED
  BY <1>5, <1>6, <1>7, <1>8, <1>9

\* Every step of a tool brings its end nearer, unless it ends the process.
LEMMA ToolForward ==
  ASSUME DataTypes, ToolInv, ToolWork \/ DeleteKey
  PROVE  fault' # "none" \/ ToolAhead' < ToolAhead
<1>1. MaxEntries \in Nat /\ due \in Nat
  BY CfgAssumption DEF DataTypes
<1> USE DEF ToolAhead, Go
<1>2. CASE LoadLibrary \/ GetProvider \/ OpenFile \/ OpenKey
  BY <1>1, <1>2 DEF LoadLibrary, GetProvider, OpenFile, OpenKey, Failed
<1>3. CASE ReadFile
  <2>1. stage = "read" /\ ToolAhead = MaxEntries + 4 /\ prof = NULL
    BY <1>3 DEF ReadFile, ToolInv, WithProfile
  <2>2. CASE stage' = "failed"
    BY <1>1, <2>1, <2>2
  <2>3. CASE stage' = "parse" /\ NotParsed
    BY <1>1, <2>1, <2>3 DEF NotParsed, cfgVars
  <2>4. CASE stage' = "parse" /\ \E b \in Bundle : ParseHeader(b)
    <3>1. due' \in Nat /\ due' <= MaxEntries
      BY <2>4, BundleFields DEF ParseHeader
    <3> QED
      BY <1>1, <2>1, <2>4, <3>1
  <2> QED
    BY <1>3, <2>2, <2>3, <2>4 DEF ReadFile, Failed
<1>4. CASE ParseFile
  <2>1. CASE stage' \in {"failed", "print"}
    BY <1>1, <1>4, <2>1 DEF ParseFile
  <2>2. CASE prof # NULL /\ ParseEntry /\ UNCHANGED toolVars
    <3>1. due > 0 /\ (fault' # "none" \/ prof' = NULL \/ due' = due - 1)
      BY <2>2 DEF ParseEntry, DigitsFault, ParseFails, CfgFree, Crash
    <3> QED
      BY <1>1, <1>4, <2>2, <3>1 DEF ParseFile, toolVars
  <2> QED
    BY <1>4, <2>1, <2>2 DEF ParseFile, Failed
<1>5. CASE NewEnv \/ NewReg
  <2>1. stage \in {"env", "new"} /\ ToolAhead >= MaxEntries + 4
    BY <1>1, <1>5 DEF NewEnv, NewReg
  <2>2. CASE stage' = "failed"
    BY <1>1, <1>5, <2>2 DEF NewEnv, NewReg
  <2>3. CASE CfgNew /\ stage' \in {"names", "values"}
    <3>1. due' \in Nat /\ due' <= MaxEntries
      BY <1>1, <2>3 DEF CfgNew
    <3> QED
      BY <1>1, <1>5, <2>3, <3>1 DEF NewEnv, NewReg
  <2> QED
    BY <1>5, <2>2, <2>3 DEF NewEnv, NewReg, Failed
<1>6. CASE ReadEnv \/ ReadKey \/ DeleteKey
  <2>1. stage \in WithProfile /\ prof # NULL /\ ToolAhead = 3 + due
    BY <1>6 DEF ReadEnv, ReadKey, DeleteKey, ToolInv, WithProfile
  <2>2. CASE stage' \in {"print", "deleted"}
    BY <1>1, <2>1, <2>2
  <2>3. CASE stage' = stage /\ \E type \in {"str", "wstr"} : AddAny(type)
    <3>1. due > 0 /\ due' = due - 1
      BY <2>3 DEF AddAny
    <3> QED
      BY <1>1, <1>6, <2>1, <2>3, <3>1 DEF ReadEnv, ReadKey, DeleteKey
  <2>4. CASE Crash("text")
    BY <2>4 DEF Crash
  <2> QED
    BY <1>6, <2>2, <2>3, <2>4 DEF ReadEnv, ReadKey, DeleteKey, toolVars
<1>7. CASE Report \/ GiveUp
  BY <1>1, <1>7 DEF Report, GiveUp, Crash
<1> QED
  BY <1>2, <1>3, <1>4, <1>5, <1>6, <1>7 DEF ToolWork

\* Every program that is at work comes nearer to its end with each step it takes: the
\* service to giving back the lock, however many entries the push has, and a tool to its
\* exit.  Meanwhile the steps of the other thread of the service change nothing of it.
\* This is what ProgramsEnd needs besides that the programs run on (serve, CfgParseBlob,
\* CfgMerge, wmain).
THEOREM ProgramsGoForward ==
  Spec => /\ [](Remaining \in Nat)
          /\ [][program # "cfgsvcd" \/ lock # NULL =>
                  \/ Remaining' < Remaining
                  \/ fault' # "none"
                  \/ UNCHANGED <<lock, todo, base, cfgVars, toolVars>>]_vars
<1> DEFINE Onward == \/ Remaining' < Remaining
                     \/ fault' # "none"
                     \/ UNCHANGED <<lock, todo, base, cfgVars, toolVars>>
<1>1. ASSUME CascadeInv PROVE Remaining \in Nat
  <2>1. MaxEntries \in Nat /\ due \in Nat
    BY <1>1, CfgAssumption DEF CascadeInv, DataTypes
  <2>2. ToolAhead \in Nat
    BY <2>1 DEF ToolAhead
  <2>3. lock # NULL => lock \in Thread /\ Inside(lock)
    BY <1>1 DEF CascadeInv, ServingInv
  <2>4. lock # NULL => Ahead(lock) \in Nat
    BY <1>1, <2>3, AheadTyped DEF Measured
  <2> QED
    BY <2>2, <2>4 DEF Remaining
<1>2. ASSUME CascadeInv, Next, program # "cfgsvcd" \/ lock # NULL
      PROVE  Onward
  <2>1. CASE Rest
    BY <2>1 DEF Rest, vars, svcVars, serveVars
  <2>2. CASE Tool
    <3>1. /\ program # "cfgsvcd" /\ UNCHANGED program /\ fault = "none"
          /\ ToolWork \/ DeleteKey
      BY <2>2 DEF Tool, ToolNext, ToolDone
    <3>2. Remaining = ToolAhead /\ Remaining' = ToolAhead'
      BY <3>1 DEF Remaining
    <3> QED
      BY <1>2, <3>1, <3>2, ToolForward DEF CascadeInv
  <2>3. CASE Service
    <3>1. program = "cfgsvcd" /\ UNCHANGED <<toolVars, program>> /\ fault = "none" /\ lock # NULL
      BY <1>2, <2>3 DEF Service, SvcNext, SvcGone
    <3>2. lock \in Thread /\ Inside(lock) /\ \A t \in Thread : Inside(t) => lock = t
      BY <1>2, <3>1 DEF CascadeInv, ServingInv
    <3>3. Remaining = 1 + Ahead(lock)
      BY <3>1 DEF Remaining
    <3>4. CASE Startup \/ \E t \in Thread : Transport(t) \/ Dispatch(t)
      BY <3>1, <3>4 DEF Startup, StartTcp, PipeFails, Drained, Transport, Dispatch, Accept,
                        ReadRequest, ReadPayload, DropRequest, RefuseBig, RefuseOnce, EndRequest,
                        Enter, Acquire
    <3>5. ASSUME NEW t \in Thread,
                 RunHandler(t) \/ Parse(t) \/ Materialize(t) \/ Merge(t) \/ Answer(t)
          PROVE  Onward
      <4>1. Inside(t) /\ Inside(t)' /\ lock' = lock /\ (fault' # "none" \/ Ahead(t)' < Ahead(t))
        BY <1>2, <3>1, <3>5, InnerForward
      <4>2. lock = t
        BY <3>2, <4>1
      <4>3. Remaining = 1 + Ahead(t) /\ Remaining' = 1 + Ahead(t)'
        BY <3>1, <3>3, <4>1, <4>2 DEF Remaining, Ahead, Announced
      <4>4. Ahead(t) \in Nat
        BY <1>2, <4>1, AheadTyped DEF Measured
      <4>5. Ahead(t)' \in Nat
        <5>1. (CascadeInv => Measured)'
          BY AheadTyped, PTL
        <5>2. CascadeInv'
          BY <1>2, NextInv
        <5>3. Measured'
          BY <5>1, <5>2
        <5> QED
          BY <4>1, <5>3 DEF Measured
      <4> QED
        BY <4>1, <4>3, <4>4, <4>5
    <3>6. ASSUME NEW t \in Thread, Finish(t)
          PROVE  Onward
      <4>1. lock' = NULL /\ Remaining' = 0
        BY <3>1, <3>6 DEF Finish, LeaveOnce, Release, Remaining
      <4>2. Ahead(lock) \in Nat
        BY <1>2, <3>2, AheadTyped DEF Measured
      <4> QED
        BY <3>3, <4>1, <4>2
    <3> QED
      BY <2>3, <3>4, <3>5, <3>6 DEF Service, SvcNext, Inner
  <2> QED
    BY <1>2, <2>1, <2>2, <2>3 DEF Next
<1>3. CascadeInv /\ [Next]_vars => [program # "cfgsvcd" \/ lock # NULL => Onward]_vars
  BY <1>2
<1> QED
  BY <1>1, <1>3, CascadeInvariant, PTL DEF Spec
=============================================================================
