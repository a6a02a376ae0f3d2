-------------------------- MODULE AvalancheProofs --------------------------
(***************************************************************************)
(* Proofs about the programs of Avalanche, the server and the loader of    *)
(* snapshots, for every cache, every set of codecs, every traffic and      *)
(* every snapshot.                                                         *)
(***************************************************************************)
EXTENDS Cached, CacheLoad, CacheProofs

-----------------------------------------------------------------------------
(* The order in which STATS meets the entries.                             *)

\* A set of places that, with a place, has all that come after it.
Closed(S) == \A x \in S : \A y \in Place : Before(x, y) => y \in S

\* The lines a walk that stands at an entry still has to write.
Left(p) == IF p = NULL THEN 0 ELSE Cardinality(Beyond(p)) + 1

LEMMA PlaceType ==
  ASSUME CacheInv
  PROVE  \A x \in Place : /\ x[1] \in Nat /\ x[2] \in Nat /\ x = <<x[1], x[2]>>
                          /\ PtrAt(x) \in Ptr /\ PtrAt(x) # NULL /\ entry[PtrAt(x)] # NULL
<1>1. Bucket \subseteq Nat
  BY CacheAssumption DEF Bucket
<1>2. \A x \in Place : /\ x[1] \in Bucket /\ x[2] \in 1 .. Len(chain[x[1]])
                       /\ x = <<x[1], x[2]>> /\ PtrAt(x) \in Ptr
  BY PlaceIs DEF CacheInv
<1>3. \A x \in Place : x[2] \in Nat
  BY DEF Place
<1>4. \A x \in Place : entry[PtrAt(x)] # NULL
  BY <1>2 DEF CacheInv, Linked, PtrAt
<1> QED
  BY <1>1, <1>2, <1>3, <1>4, CacheAssumption

\* Two places with the same entry are one.
LEMMA PlaceUnique ==
  ASSUME CacheInv, NEW x \in Place, NEW y \in Place, PtrAt(x) = PtrAt(y)
  PROVE  x = y
BY CacheInvSound DEF CacheSound

\* STATS counts right: there are as many places as entries (handle_stats).
LEMMA PlacesCounted ==
  ASSUME CacheInv
  PROVE  IsFiniteSet(Place) /\ count = Cardinality(Place)
<1> DEFINE f == [x \in Place |-> PtrAt(x)]
<1>1. f \in [Place -> Live]
  BY PlaceType DEF Live
<1>2. \A x, y \in Place : f[x] = f[y] => x = y
  BY PlaceUnique
<1>3. ASSUME NEW p \in Live PROVE \E x \in Place : f[x] = p
  <2>1. \E x \in Place : PtrAt(x) = p
    BY CacheInvSound DEF CacheSound, Live
  <2> QED
    BY <2>1
<1>4. f \in Bijection(Place, Live)
  <2> HIDE DEF f
  <2>1. f \in Injection(Place, Live)
    BY <1>1, <1>2 DEF Injection, IsInjective
  <2>2. f \in Surjection(Place, Live)
    BY <1>1, <1>3 DEF Surjection
  <2> QED
    BY <2>1, <2>2 DEF Bijection
<1>5. IsFiniteSet(Live)
  BY CacheAssumption, FS_Subset DEF Live
<1>6. ExistsBijection(Live, Place)
  BY <1>4, Fun_ExistsBijSymmetric, Zenon DEF ExistsBijection
<1>7. IsFiniteSet(Place) /\ Cardinality(Place) = Cardinality(Live)
  BY <1>5, <1>6, FS_Bijection
<1> QED
  BY <1>7 DEF CacheInv, Counted

\* Of some places one is first.
LEMMA FirstExists ==
  ASSUME CacheInv, NEW S \in SUBSET Place, S # {}
  PROVE  \E x \in S : \A y \in S : x = y \/ Before(x, y)
<1> DEFINE B == {x[1] : x \in S}
<1>1. B \in SUBSET Nat /\ B # {}
  BY PlaceType
<1>2. PICK b \in B : \A c \in B : b <= c
  BY <1>1, LeastIs
<1> DEFINE I == {x[2] : x \in {y \in S : y[1] = b}}
<1>3. I \in SUBSET Nat /\ I # {}
  BY PlaceType
<1>4. PICK i \in I : \A j \in I : i <= j
  <2> HIDE DEF I
  <2> QED
    BY <1>3, LeastIs
<1>5. PICK x \in S : x[1] = b /\ x[2] = i
  OBVIOUS
<1>6. ASSUME NEW y \in S PROVE x = y \/ Before(x, y)
  <2>1. /\ x[1] \in Nat /\ x[2] \in Nat /\ y[1] \in Nat /\ y[2] \in Nat
        /\ x = <<x[1], x[2]>> /\ y = <<y[1], y[2]>>
    BY PlaceType
  <2>2. b <= y[1]
    BY <1>2
  <2>3. y[1] = b => i <= y[2]
    BY <1>4
  <2>4. CASE y[1] = b /\ y[2] = i
    BY <1>5, <2>1, <2>4
  <2>5. CASE ~(y[1] = b /\ y[2] = i)
    BY <1>5, <2>1, <2>2, <2>3, <2>5 DEF Before
  <2> QED
    BY <2>4, <2>5
<1> QED
  BY <1>6

\* The walk goes on to the first of what is left, and then one less is left (the
\* inner and the outer loop of handle_stats).
LEMMA WalkGoesOn ==
  ASSUME CacheInv, NEW S \in SUBSET Place, Closed(S)
  PROVE  /\ FirstOf(S) \in Ptr \cup {NULL}
         /\ FirstOf(S) # NULL => entry[FirstOf(S)] # NULL
         /\ Left(FirstOf(S)) = Cardinality(S)
<1>1. CASE S = {}
  <2>1. FirstOf(S) = NULL
    BY <1>1 DEF FirstOf
  <2> QED
    BY <1>1, <2>1, FS_EmptySet DEF Left
<1>2. CASE S # {}
  <2> DEFINE x == CHOOSE x \in S : \A y \in S : x = y \/ Before(x, y)
  <2>1. x \in S /\ \A y \in S : x = y \/ Before(x, y)
    BY <1>2, FirstExists
  <2>2. FirstOf(S) = PtrAt(x)
    BY <1>2 DEF FirstOf
  <2> HIDE DEF x
  <2>3. FirstOf(S) \in Ptr /\ FirstOf(S) # NULL /\ entry[FirstOf(S)] # NULL
    BY <2>1, <2>2, PlaceType
  <2>4. Beyond(PtrAt(x)) = S \ {x}
    <3>1. ASSUME NEW y \in Place PROVE y \in Beyond(PtrAt(x)) <=> Before(x, y)
      BY <2>1, PlaceUnique DEF Beyond
    <3>2. ~Before(x, x)
      BY <2>1, PlaceType DEF Before
    <3>3. Beyond(PtrAt(x)) \subseteq Place
      BY DEF Beyond
    <3>4. \A y \in Place : Before(x, y) => y \in S
      BY <2>1 DEF Closed
    <3> QED
      BY <2>1, <3>1, <3>2, <3>3, <3>4
  <2>5. IsFiniteSet(S)
    BY PlacesCounted, FS_Subset
  <2>6. Cardinality(S \ {x}) = Cardinality(S) - 1 /\ Cardinality(S) \in Nat
    BY <2>1, <2>5, FS_RemoveElement, FS_CardinalityType
  <2> QED
    BY <2>2, <2>3, <2>4, <2>6 DEF Left
<1> QED
  BY <1>1, <1>2

LEMMA AllClosed ==
  ASSUME CacheInv
  PROVE  Closed(Place) /\ \A p \in Ptr : Beyond(p) \in SUBSET Place /\ Closed(Beyond(p))
<1>1. ASSUME NEW x \in Place, NEW y \in Place, NEW z \in Place, Before(x, y), Before(y, z)
      PROVE  Before(x, z)
  BY <1>1, PlaceType DEF Before
<1> QED
  BY <1>1 DEF Closed, Beyond

-----------------------------------------------------------------------------
(* The inductive invariant of the server.                                  *)

Location == {"start", "exit", "gone", "listen", "drain", "read", "big", "body", "value",
             "badop", "enter", "locked"}

ToSend == {<<"reply", "value">>, <<"value">>}
ToWalk == {<<"reply", "walk">>, <<"walk">>}
Todo   == {<<>>, <<"handle">>, <<"reply">>} \cup ToSend \cup ToWalk

\* The lines of a STATS answer that are due and that were passed over.
Lines == [due: Int, unsent: Nat]

CachedTypes ==
  /\ pc \in [Thread -> Location]
  /\ req \in [Thread -> Requests \cup {NULL}]
  /\ arg \in [Thread -> BOOLEAN]
  /\ val \in [Thread -> BOOLEAN]
  /\ todo \in [Thread -> Todo]
  /\ cursor \in [Thread -> Ptr \cup {NULL}]
  /\ lines \in [Thread -> Lines]

\* The requests that are let through to a handler.
Served == {r \in Requests : r.op # "bad" /\ r.len <= MaxArg}

\* What a thread holds for its request, by where it is in serve.
InHand(t) ==
  /\ arg[t] <=> pc[t] \in {"body", "value", "enter", "locked"}
  /\ val[t] <=> pc[t] \in {"value", "enter", "locked"} /\ req[t].len > 0
  /\ pc[t] \in {"body", "value", "enter", "locked"} => req[t] \in Served
  /\ pc[t] = "value" => req[t].len > 0

\* What a thread inside the critical section has still to do and points at; outside
\* it nothing and nowhere.
Answering(t) ==
  /\ Inside(t) <=> lock = t
  /\ ~Inside(t) => todo[t] = <<>>
  /\ todo[t] \notin ToSend \cup ToWalk => cursor[t] = NULL
  /\ todo[t] \in ToSend => cursor[t] # NULL
  /\ cursor[t] # NULL => entry[cursor[t]] # NULL
  /\ todo[t] \in ToWalk => lines[t].due = Left(cursor[t]) + lines[t].unsent

CachedInv ==
  /\ CacheInv
  /\ CachedTypes
  /\ \A t \in Thread : InHand(t) /\ Answering(t)

LEMMA RequestIs ==
  ASSUME NEW r \in Requests
  PROVE  r.op \in {"set", "get", "del", "stats", "bad"} /\ r.name \in Name /\ r.len \in 0 .. MaxArg + 1
<1>1. ASSUME NEW op, NEW lens, NEW flags, NEW cids, r \in Request(op, Name, lens, flags, cids)
      PROVE  r.name \in Name /\ r.len \in lens /\ r.op = op
  BY <1>1 DEF Request
<1>2. \/ r \in Request("set", Name, 0 .. MaxArg + 1, {FALSE}, {NULL})
      \/ r \in Request("set", Name, 0 .. MaxArg + 1, {TRUE}, Codec \cup {NULL})
      \/ r \in Request("get", Name, {0}, {FALSE}, {NULL})
      \/ r \in Request("del", Name, {0}, {FALSE}, {NULL})
      \/ r \in Request("stats", Name, {0}, BOOLEAN, {NULL})
      \/ r \in Request("bad", Name, {0}, {FALSE}, {NULL})
  BY Zenon DEF Requests
<1>3. /\ r.op \in {"set", "get", "del", "stats", "bad"} /\ r.name \in Name
      /\ r.len \in 0 .. MaxArg + 1 \/ r.len \in {0}
  BY <1>1, <1>2, Zenon
<1> QED
  BY <1>3, MachineAssumption

LEMMA ServedIs ==
  ASSUME NEW r \in Served
  PROVE  r.name \in Name /\ r.len \in Arg /\ r.op \in {"set", "get", "del", "stats"}
<1>1. r \in Requests /\ r.op # "bad" /\ r.len <= MaxArg
  BY DEF Served
<1> QED
  BY <1>1, RequestIs, MachineAssumption DEF Arg

\* The program text of a codec never makes a value longer (codec_raw, codec_hex).
LEMMA CodecBounded ==
  ASSUME NEW codec, NEW len \in Arg
  PROVE  CodecApply(codec, len) \subseteq Arg
<1>1. len \in Nat /\ len <= MaxArg /\ MaxArg \in Nat
  BY MachineAssumption DEF Arg
<1>2. len \div 2 \in Nat /\ len \div 2 <= len
  BY <1>1
<1> QED
  BY <1>1, <1>2 DEF CodecApply, Arg

-----------------------------------------------------------------------------
(* The steps of the server.                                                *)

\* The other thread's part of the state stays as it is.
Apart(t) ==
  \A u \in Thread : u # t =>
    /\ pc'[u] = pc[u] /\ req'[u] = req[u] /\ arg'[u] = arg[u] /\ val'[u] = val[u]
    /\ todo'[u] = todo[u] /\ cursor'[u] = cursor[u] /\ lines'[u] = lines[u]

\* The cache changes under the lock only, so that the other thread does not point
\* into it.
LEMMA OthersKeep ==
  ASSUME CachedInv, NEW t \in Thread, Apart(t),
         \/ UNCHANGED <<lock, chain, entry>>
         \/ lock \in {t, NULL} /\ lock' \in {t, NULL}
  PROVE  \A u \in Thread : u # t => InHand(u)' /\ Answering(u)'
<1> SUFFICES ASSUME NEW u \in Thread, u # t
             PROVE  InHand(u)' /\ Answering(u)'
  OBVIOUS
<1>1. /\ pc'[u] = pc[u] /\ req'[u] = req[u] /\ arg'[u] = arg[u] /\ val'[u] = val[u]
      /\ todo'[u] = todo[u] /\ cursor'[u] = cursor[u] /\ lines'[u] = lines[u]
  BY DEF Apart
<1>2. InHand(u) /\ Answering(u)
  BY DEF CachedInv
<1>3. InHand(u)'
  BY <1>1, <1>2 DEF InHand
<1>4. CASE UNCHANGED <<lock, chain, entry>>
  <2>1. Left(cursor[u])' = Left(cursor[u])
    BY <1>1, <1>4 DEF Left, Beyond, Place, PtrAt
  <2> QED
    BY <1>1, <1>2, <1>3, <1>4, <2>1 DEF Answering, Inside
<1>5. CASE lock \in {t, NULL} /\ lock' \in {t, NULL}
  <2>1. ~Inside(u) /\ todo[u] = <<>>
    BY <1>2, <1>5, ServeAssumption DEF Answering
  <2>2. todo[u] \notin ToSend \cup ToWalk /\ todo[u] \notin ToSend /\ todo[u] \notin ToWalk
    BY <2>1 DEF ToSend, ToWalk
  <2>3. cursor[u] = NULL /\ lock' # u
    BY <1>2, <1>5, <2>2, ServeAssumption DEF Answering
  <2> QED
    BY <1>1, <1>3, <2>1, <2>2, <2>3 DEF Answering, Inside
<1> QED
  BY <1>4, <1>5

\* A step of one thread preserves the invariant if it does for that thread.
LEMMA ByThread ==
  ASSUME CachedInv, NEW t \in Thread, CacheInv', CachedTypes', Apart(t),
         \/ UNCHANGED <<lock, chain, entry>>
         \/ lock \in {t, NULL} /\ lock' \in {t, NULL},
         InHand(t)', Answering(t)'
  PROVE  CachedInv'
<1>1. \A u \in Thread : u # t => InHand(u)' /\ Answering(u)'
  BY OthersKeep
<1> QED
  BY <1>1, Zenon DEF CachedInv

\* Outside the critical section a thread keeps nothing to do and points nowhere.
LEMMA OutsideStays ==
  ASSUME CachedInv, NEW t \in Thread, ~Inside(t), pc'[t] # "locked",
         lock' = lock, todo' = todo, cursor' = cursor
  PROVE  Answering(t)'
<1>1. Answering(t)
  BY DEF CachedInv
<1>2. todo[t] = <<>> /\ lock # t
  BY <1>1 DEF Answering
<1>3. <<>> \notin ToSend \cup ToWalk
  BY DEF ToSend, ToWalk
<1>4. cursor[t] = NULL
  BY <1>1, <1>2, <1>3 DEF Answering
<1> QED
  BY <1>2, <1>3, <1>4 DEF Answering, Inside

\* A request ends: the thread has nothing in hand, and the lock is not its own
\* (EndRequest, RefuseBig).
LEMMA EndInHand ==
  ASSUME CachedInv, NEW t \in Thread, pc'[t] \in {"drain", "listen"},
         arg'[t] = FALSE, val'[t] = FALSE
  PROVE  InHand(t)'
BY DEF InHand

\* The steps around the handlers.
LEMMA TransportKeeps ==
  ASSUME CachedInv, NEW t \in Thread, Transport(t)
  PROVE  CachedInv'
<1>1. UNCHANGED <<cacheVars, cursor, lines, codecs>>
  BY DEF Transport
<1>2. CacheInv'
  BY <1>1, CrashInv DEF CachedInv, cacheVars
<1>3. UNCHANGED <<lock, todo>>
  BY DEF Transport, Accept, ReadRequest, ReadKey, ReadValue, DropRequest, Refuse, RefuseBig,
         RefuseOnce, EndRequest
<1>4. InHand(t) /\ CachedTypes
  BY DEF CachedInv
<1>5. CASE Accept(t) /\ UNCHANGED val
  <2>1. pc[t] = "listen" /\ pc' = [pc EXCEPT ![t] = "read"] /\ UNCHANGED <<req, arg, val>>
    BY <1>5 DEF Accept, Goto
  <2>2. CachedTypes'
    BY <1>1, <1>3, <1>4, <2>1 DEF CachedTypes, Location
  <2>3. pc'[t] = "read" /\ Apart(t)
    BY <1>1, <1>3, <1>4, <2>1 DEF CachedTypes, Location, Apart
  <2>4. InHand(t)'
    BY <1>4, <2>1, <2>3 DEF InHand
  <2>5. Answering(t)'
    BY <1>1, <1>3, <2>1, <2>3, OutsideStays DEF Inside
  <2> QED
    BY <1>1, <1>2, <1>3, <2>2, <2>3, <2>4, <2>5, ByThread DEF cacheVars
<1>6. CASE \E r \in Traffic : ReadRequest(t, r)
  <2>1. PICK r \in Traffic : ReadRequest(t, r)
    BY <1>6
  <2>2. r \in Requests
    BY CachedAssumption
  <2>3. pc[t] = "read" /\ UNCHANGED val
    BY <2>1 DEF ReadRequest
  <2>4. CASE Hangup(t) /\ UNCHANGED <<req, arg>>
    <3>1. pc' = [pc EXCEPT ![t] = IF t = "pipe" THEN "drain" ELSE "listen"]
      BY <2>4 DEF Hangup, Goto
    <3>2. CachedTypes'
      BY <1>1, <1>3, <1>4, <2>3, <2>4, <3>1 DEF CachedTypes, Location
    <3>3. pc'[t] \in {"drain", "listen"} /\ Apart(t)
      BY <1>1, <1>3, <1>4, <2>3, <2>4, <3>1 DEF CachedTypes, Location, Apart
    <3>4. InHand(t)'
      BY <1>4, <2>3, <2>4, <3>3 DEF InHand
    <3>5. Answering(t)'
      BY <1>1, <1>3, <2>3, <3>3, OutsideStays DEF Inside
    <3> QED
      BY <1>1, <1>2, <1>3, <3>2, <3>3, <3>4, <3>5, ByThread DEF cacheVars
  <2>5. CASE ~(Hangup(t) /\ UNCHANGED <<req, arg>>)
    <3> DEFINE ok == r.op # "bad" /\ r.len <= MaxArg
    <3>1. /\ pc' = [pc EXCEPT ![t] = IF r.op = "bad" THEN "badop"
                                     ELSE IF r.len > MaxArg THEN "big" ELSE "body"]
          /\ req' = [req EXCEPT ![t] = r]
          /\ arg' = [arg EXCEPT ![t] = ok]
      BY <2>1, <2>5, Zenon DEF ReadRequest, Goto
    <3>2. ok \in BOOLEAN
      OBVIOUS
    <3>3. arg'[t] = ok /\ arg' \in [Thread -> BOOLEAN] /\ \A u \in Thread : u # t => arg'[u] = arg[u]
      BY <1>4, <3>1, <3>2, Zenon DEF CachedTypes
    <3>4. req'[t] = r /\ \A u \in Thread : u # t => req'[u] = req[u] /\ pc'[u] = pc[u]
      BY <1>4, <3>1, Zenon DEF CachedTypes
    <3>5. pc'[t] = IF r.op = "bad" THEN "badop" ELSE IF r.len > MaxArg THEN "big" ELSE "body"
      BY <1>4, <3>1 DEF CachedTypes, Location
    <3>6. pc' \in [Thread -> Location] /\ req' \in [Thread -> Requests \cup {NULL}]
      BY <1>4, <2>2, <3>1 DEF CachedTypes, Location
    <3>7. CachedTypes'
      BY <1>1, <1>3, <1>4, <2>3, <3>3, <3>6, Zenon DEF CachedTypes
    <3>8. Apart(t)
      BY <1>1, <1>3, <2>3, <3>3, <3>4, Zenon DEF Apart
    <3>9. ~val[t]
      BY <1>4, <2>3 DEF InHand
    <3>10. \/ ok /\ pc'[t] = "body" /\ r \in Served
           \/ ~ok /\ pc'[t] \in {"badop", "big"}
      <4>1. r.len \in Int /\ MaxArg \in Int
        BY <2>2, RequestIs, MachineAssumption
      <4> QED
        BY <2>2, <3>5, <4>1 DEF Served
    <3> HIDE DEF ok
    <3>11. InHand(t)'
      BY <2>3, <3>3, <3>4, <3>9, <3>10 DEF InHand
    <3>12. Answering(t)'
      BY <1>1, <1>3, <2>3, <3>10, OutsideStays DEF Inside
    <3> QED
      BY <1>1, <1>2, <1>3, <3>7, <3>8, <3>11, <3>12, ByThread DEF cacheVars
  <2> QED
    BY <2>4, <2>5
<1>7. CASE ReadKey(t)
  <2> DEFINE has == req[t].len > 0
  <2>1. /\ pc[t] = "body" /\ UNCHANGED <<req, arg>>
        /\ pc' = [pc EXCEPT ![t] = IF has THEN "value" ELSE "enter"]
        /\ val' = [val EXCEPT ![t] = has]
    BY <1>7, Zenon DEF ReadKey, Goto
  <2>2. has \in BOOLEAN
    OBVIOUS
  <2>3. val'[t] = has /\ val' \in [Thread -> BOOLEAN] /\ \A u \in Thread : u # t => val'[u] = val[u]
    BY <1>4, <2>1, <2>2, Zenon DEF CachedTypes
  <2>4. /\ pc'[t] = IF has THEN "value" ELSE "enter"
        /\ pc' \in [Thread -> Location] /\ \A u \in Thread : u # t => pc'[u] = pc[u]
    <3> HIDE DEF has
    <3> QED
      BY <1>4, <2>1 DEF CachedTypes, Location
  <2>5. CachedTypes'
    BY <1>1, <1>3, <1>4, <2>1, <2>3, <2>4, Zenon DEF CachedTypes
  <2>6. Apart(t)
    BY <1>1, <1>3, <2>1, <2>3, <2>4, Zenon DEF Apart
  <2>7. arg'[t] /\ req'[t] \in Served
    BY <1>4, <2>1 DEF InHand
  <2>8. val'[t] <=> req'[t].len > 0
    BY <2>1, <2>3, Zenon
  <2>9. \/ pc'[t] = "value" /\ req'[t].len > 0
        \/ pc'[t] = "enter"
    BY <2>1, <2>4
  <2> HIDE DEF has
  <2>10. InHand(t)'
    BY <2>7, <2>8, <2>9 DEF InHand
  <2>11. Answering(t)'
    BY <1>1, <1>3, <2>1, <2>9, OutsideStays DEF Inside
  <2> QED
    BY <1>1, <1>2, <1>3, <2>5, <2>6, <2>10, <2>11, ByThread DEF cacheVars
<1>8. CASE ReadValue(t)
  <2>1. pc[t] = "value" /\ pc' = [pc EXCEPT ![t] = "enter"] /\ UNCHANGED <<req, arg, val>>
    BY <1>8 DEF ReadValue, Goto
  <2>2. CachedTypes'
    BY <1>1, <1>3, <1>4, <2>1 DEF CachedTypes, Location
  <2>3. pc'[t] = "enter" /\ Apart(t)
    BY <1>1, <1>3, <1>4, <2>1 DEF CachedTypes, Location, Apart
  <2>4. InHand(t)'
    BY <1>4, <2>1, <2>3 DEF InHand
  <2>5. Answering(t)'
    BY <1>1, <1>3, <2>1, <2>3, OutsideStays DEF Inside
  <2> QED
    BY <1>1, <1>2, <1>3, <2>2, <2>3, <2>4, <2>5, ByThread DEF cacheVars
<1>9. CASE DropRequest(t) \/ Refuse(t)
  <2>1. /\ pc[t] \in {"read", "body", "value", "big", "badop"}
        /\ pc' = [pc EXCEPT ![t] = IF t = "pipe" THEN "drain" ELSE "listen"]
        /\ req' = [req EXCEPT ![t] = NULL]
    BY <1>9 DEF DropRequest, Refuse, RefuseBig, RefuseOnce, EndRequest, Hangup, Goto
  <2>2. /\ arg' = [arg EXCEPT ![t] = FALSE] \/ (arg' = arg /\ pc[t] = "big")
        /\ val' = [val EXCEPT ![t] = FALSE] \/ (val' = val /\ pc[t] \in {"big", "badop"})
    BY <1>9, Zenon DEF DropRequest, Refuse, RefuseBig, RefuseOnce, EndRequest, FreeArg, FreeVal
  <2>3. pc[t] = "big" => arg[t] = FALSE
    BY <1>4 DEF InHand, CachedTypes
  <2>4. pc[t] \in {"big", "badop"} => val[t] = FALSE
    BY <1>4 DEF InHand, CachedTypes
  <2>5. /\ arg'[t] = FALSE /\ arg' \in [Thread -> BOOLEAN]
        /\ \A u \in Thread : u # t => arg'[u] = arg[u]
    BY <1>4, <2>2, <2>3, Zenon DEF CachedTypes
  <2>6. /\ val'[t] = FALSE /\ val' \in [Thread -> BOOLEAN]
        /\ \A u \in Thread : u # t => val'[u] = val[u]
    BY <1>4, <2>2, <2>4, Zenon DEF CachedTypes
  <2>7. /\ pc' \in [Thread -> Location] /\ req' \in [Thread -> Requests \cup {NULL}]
        /\ pc'[t] \in {"drain", "listen"}
        /\ \A u \in Thread : u # t => pc'[u] = pc[u] /\ req'[u] = req[u]
    BY <1>4, <2>1 DEF CachedTypes, Location
  <2>8. CachedTypes'
    BY <1>1, <1>3, <1>4, <2>5, <2>6, <2>7, Zenon DEF CachedTypes
  <2>9. Apart(t)
    BY <1>1, <1>3, <2>5, <2>6, <2>7, Zenon DEF Apart
  <2>10. InHand(t)'
    BY <2>5, <2>6, <2>7, EndInHand
  <2>11. Answering(t)'
    BY <1>1, <1>3, <2>1, <2>7, OutsideStays DEF Inside
  <2> QED
    BY <1>1, <1>2, <1>3, <2>8, <2>9, <2>10, <2>11, ByThread DEF cacheVars
<1> QED
  BY <1>5, <1>6, <1>7, <1>8, <1>9 DEF Transport

\* main's steps touch neither request nor cache.
LEMMA StartupKeeps ==
  ASSUME CachedInv, Startup
  PROVE  CachedInv'
<1>1. UNCHANGED <<cacheVars, ownVars>> /\ UNCHANGED <<req, arg, lock, todo>>
  BY DEF Startup, StartTcp, PipeFails, Drained
<1>2. CacheInv'
  BY <1>1, CrashInv DEF CachedInv, cacheVars
<1>3. \E t \in Thread :
        /\ pc[t] \in {"start", "listen", "drain"}
        /\ \E w \in {"listen", "exit", "gone"} : pc' = [pc EXCEPT ![t] = w]
  BY DEF Startup, StartTcp, PipeFails, Drained, Goto, Thread
<1>4. PICK t \in Thread :
        /\ pc[t] \in {"start", "listen", "drain"}
        /\ \E w \in {"listen", "exit", "gone"} : pc' = [pc EXCEPT ![t] = w]
  BY <1>3
<1>5. PICK w \in {"listen", "exit", "gone"} : pc' = [pc EXCEPT ![t] = w]
  BY <1>4
<1>6. InHand(t) /\ CachedTypes
  BY DEF CachedInv
<1>7. CachedTypes' /\ pc'[t] = w /\ Apart(t)
  BY <1>1, <1>5, <1>6 DEF CachedTypes, Location, Apart, ownVars
<1>8. InHand(t)'
  BY <1>1, <1>4, <1>6, <1>7 DEF InHand, ownVars
<1>9. Answering(t)'
  BY <1>1, <1>4, <1>7, OutsideStays DEF Inside, ownVars
<1> QED
  BY <1>1, <1>2, <1>7, <1>8, <1>9, ByThread DEF cacheVars

\* EnterCriticalSection returns: the thread has its handler to run.
LEMMA DispatchKeeps ==
  ASSUME CachedInv, NEW t \in Thread, Dispatch(t)
  PROVE  CachedInv'
<1>1. /\ UNCHANGED <<cacheVars, ownVars>> /\ UNCHANGED <<req, arg>>
      /\ pc[t] = "enter" /\ lock = NULL /\ lock' = t
      /\ pc' = [pc EXCEPT ![t] = "locked"] /\ todo' = [todo EXCEPT ![t] = <<"handle">>]
  BY DEF Dispatch, Enter, Acquire, Goto
<1>2. CacheInv'
  BY <1>1, CrashInv DEF CachedInv, cacheVars
<1>3. InHand(t) /\ Answering(t) /\ CachedTypes
  BY DEF CachedInv
<1>4. pc' \in [Thread -> Location] /\ pc'[t] = "locked" /\ \A u \in Thread : u # t => pc'[u] = pc[u]
  BY <1>1, <1>3 DEF CachedTypes, Location
<1>5. /\ todo' \in [Thread -> Todo] /\ todo'[t] = <<"handle">>
      /\ \A u \in Thread : u # t => todo'[u] = todo[u]
  <2>1. <<"handle">> \in Todo
    BY DEF Todo
  <2> QED
    BY <1>1, <1>3, <2>1, Zenon DEF CachedTypes
<1>6. CachedTypes' /\ Apart(t)
  BY <1>1, <1>3, <1>4, <1>5 DEF CachedTypes, Apart, ownVars
<1>7. InHand(t)'
  BY <1>1, <1>3, <1>4 DEF InHand, ownVars
<1>8. <<>> \notin ToSend \cup ToWalk /\ <<"handle">> \notin ToSend \cup ToWalk
  BY DEF ToSend, ToWalk
<1>9. cursor[t] = NULL
  BY <1>1, <1>3, <1>8 DEF Answering, Inside
<1>10. Answering(t)'
  BY <1>1, <1>4, <1>5, <1>8, <1>9 DEF Answering, Inside, ownVars
<1> QED
  BY <1>1, <1>2, <1>6, <1>7, <1>10, ByThread

\* Inside the critical section a thread changes what it has to do, what it points at
\* and the count of the lines; what it holds for its request stays.
LEMMA InsideStays ==
  ASSUME CachedInv, NEW t \in Thread, Inside(t), CacheInv', UNCHANGED <<pc, req, arg, lock, val>>,
         NEW steps \in Todo, todo' = [todo EXCEPT ![t] = steps],
         NEW p \in Ptr \cup {NULL}, cursor' = [cursor EXCEPT ![t] = p],
         NEW d \in Lines, lines' = [lines EXCEPT ![t] = d],
         steps \notin ToSend \cup ToWalk => p = NULL,
         steps \in ToSend => p # NULL,
         p # NULL => entry'[p] # NULL,
         steps \in ToWalk => d.due = Left(p)' + d.unsent
  PROVE  CachedInv'
<1>1. InHand(t) /\ Answering(t) /\ CachedTypes
  BY DEF CachedInv
<1>2. lock = t
  BY <1>1 DEF Answering
<1>3. todo' \in [Thread -> Todo] /\ todo'[t] = steps /\ \A u \in Thread : u # t => todo'[u] = todo[u]
  BY <1>1, Zenon DEF CachedTypes
<1>4. /\ cursor' \in [Thread -> Ptr \cup {NULL}] /\ cursor'[t] = p
      /\ \A u \in Thread : u # t => cursor'[u] = cursor[u]
  BY <1>1, Zenon DEF CachedTypes
<1>5. /\ lines' \in [Thread -> Lines] /\ lines'[t] = d
      /\ \A u \in Thread : u # t => lines'[u] = lines[u]
  BY <1>1, Zenon DEF CachedTypes
<1>6. CachedTypes' /\ Apart(t)
  BY <1>1, <1>3, <1>4, <1>5, Zenon DEF CachedTypes, Apart
<1>7. InHand(t)'
  BY <1>1 DEF InHand
<1>8. Left(cursor[t])' = Left(p)'
  BY <1>4, Zenon DEF Left, Beyond
<1>9. Answering(t)'
  BY <1>1, <1>2, <1>3, <1>4, <1>5, <1>8 DEF Answering, Inside
<1> QED
  BY <1>2, <1>6, <1>7, <1>9, ByThread

\* What is left to do after the first of the steps.
LEMMA TodoIs ==
  ASSUME CachedInv, NEW t \in Thread
  PROVE  /\ At(t, "handle") => todo[t] = <<"handle">>
         /\ At(t, "value") => todo[t] = <<"value">>
         /\ At(t, "walk") => todo[t] = <<"walk">>
         /\ At(t, "reply") => todo[t] \in {<<"reply">>, <<"reply", "value">>, <<"reply", "walk">>}
<1>1. todo[t] \in Todo
  BY DEF CachedInv, CachedTypes
<1> QED
  BY <1>1 DEF Todo, ToSend, ToWalk, At

LEMMA Rests ==
  /\ \A s \in Todo : s \o <<>> = s
  /\ Tail(<<"handle">>) = <<>> /\ Tail(<<"value">>) = <<>> /\ Tail(<<"walk">>) = <<>>
  /\ Tail(<<"reply">>) = <<>> /\ Tail(<<"reply", "value">>) = <<"value">>
  /\ Tail(<<"reply", "walk">>) = <<"walk">>
  /\ <<>> \o <<"value">> = <<"value">> /\ <<>> \o <<"walk">> = <<"walk">>
BY DEF Todo, ToSend, ToWalk

\* Which lists of steps there are, and what each is for.
LEMMA Shapes ==
  /\ {<<>>, <<"handle">>, <<"reply">>} \subseteq Todo \ (ToSend \cup ToWalk)
  /\ {<<"reply", "value">>, <<"value">>} \subseteq (Todo \cap ToSend) \ ToWalk
  /\ {<<"reply", "walk">>, <<"walk">>} \subseteq (Todo \cap ToWalk) \ ToSend
BY DEF Todo, ToSend, ToWalk

\* GET, SET, DEL and STATS up to the first reply.
LEMMA HandlerKeeps ==
  ASSUME CachedInv, NEW t \in Thread, RunHandler(t)
  PROVE  CachedInv'
<1>1. todo[t] = <<"handle">> /\ Inside(t)
  BY TodoIs DEF RunHandler, At, Inside
<1>2. InHand(t) /\ Answering(t) /\ CachedTypes /\ CacheInv
  BY DEF CachedInv
<1>3. req[t] \in Served
  BY <1>1, <1>2 DEF InHand, Inside
<1>4. req[t].name \in Name /\ req[t].len \in Arg
  BY <1>3, ServedIs
<1>5. cursor[t] = NULL
  BY <1>1, <1>2, Shapes DEF Answering
<1>6. ASSUME NEW steps \in Todo, Then(t, steps)
      PROVE  todo' = [todo EXCEPT ![t] = steps] /\ UNCHANGED <<pc, req, arg, lock>>
  <2>1. steps \o Tail(todo[t]) = steps
    BY <1>1, Rests
  <2> QED
    BY <1>6, <2>1 DEF Then
<1>7. UNCHANGED val
  BY DEF RunHandler
<1>8. ASSUME CacheInv', Then(t, <<"reply">>), UNCHANGED <<cursor, lines>>
      PROVE  CachedInv'
  <2>1. cursor' = [cursor EXCEPT ![t] = NULL] /\ lines' = [lines EXCEPT ![t] = lines[t]] /\ lines[t] \in Lines
    BY <1>2, <1>5, <1>8 DEF CachedTypes
  <2>2. <<"reply">> \in Todo /\ <<"reply">> \notin ToSend \cup ToWalk
    BY Shapes
  <2>3. todo' = [todo EXCEPT ![t] = <<"reply">>] /\ UNCHANGED <<pc, req, arg, lock>>
    BY <1>6, <1>8, <2>2
  <2> QED
    BY <1>1, <1>7, <1>8, <2>1, <2>2, <2>3, InsideStays
<1>9. CASE handle_set(t)
  <2>1. ASSUME NEW len \in CodecApply(codec_for(req[t].codec), req[t].len)
        PROVE  len \in Arg
    BY <1>4, CodecBounded
  <2>2. CASE UNCHANGED cacheVars
    BY <1>2, <2>2, CrashInv, <1>8, <1>9 DEF handle_set, cacheVars
  <2>3. CASE \E len \in CodecApply(codec_for(req[t].codec), req[t].len) :
               CacheStoreFast(req[t].name, len)
    BY <1>2, <1>4, <2>1, <2>3, CacheStoreFastInv, <1>8, <1>9 DEF handle_set
  <2>4. CASE CacheSet(req[t].name, req[t].len)
    BY <1>2, <1>4, <2>4, CacheSetInv, <1>8, <1>9 DEF handle_set
  <2> QED
    BY <1>9, <2>2, <2>3, <2>4 DEF handle_set
<1>10. CASE handle_get(t)
  <2>1. PICK p \in Ptr \cup {NULL} :
          /\ CacheGetRaw(req[t].name, p) \/ CacheGet(req[t].name, p)
          /\ Then(t, IF p = NULL THEN <<"reply">> ELSE <<"reply", "value">>)
          /\ cursor' = [cursor EXCEPT ![t] = p]
          /\ UNCHANGED lines
    BY <1>10 DEF handle_get
  <2>2. /\ CacheInv' /\ UNCHANGED <<chain, entry, blocks, count>>
        /\ p # NULL => entry[p] # NULL
    BY <1>2, <1>4, <2>1, CacheGetInv
  <2>3. lines' = [lines EXCEPT ![t] = lines[t]] /\ lines[t] \in Lines
    BY <1>2, <2>1 DEF CachedTypes
  <2> DEFINE steps == IF p = NULL THEN <<"reply">> ELSE <<"reply", "value">>
  <2>4. /\ steps \in Todo /\ steps \notin ToWalk
        /\ steps \in ToSend <=> p # NULL
    BY Shapes
  <2>5. todo' = [todo EXCEPT ![t] = steps] /\ UNCHANGED <<pc, req, arg, lock>>
    BY <1>6, <2>1, <2>4
  <2> HIDE DEF steps
  <2> QED
    BY <1>1, <1>7, <2>1, <2>2, <2>3, <2>4, <2>5, InsideStays
<1>11. CASE handle_del(t)
  <2>1. CASE UNCHANGED cacheVars
    BY <1>2, <2>1, CrashInv, <1>8, <1>11 DEF handle_del, cacheVars
  <2>2. CASE CacheDel(req[t].name)
    BY <1>2, <1>4, <2>2, CacheDelInv, <1>8, <1>11 DEF handle_del
  <2> QED
    BY <1>11, <2>1, <2>2 DEF handle_del
<1>12. CASE handle_stats(t)
  <2> PICK p : p = FirstOf(Place)
    OBVIOUS
  <2> PICK d : d = [due |-> count, unsent |-> 0]
    OBVIOUS
  <2>1. /\ UNCHANGED cacheVars /\ Then(t, <<"reply", "walk">>)
        /\ cursor' = [cursor EXCEPT ![t] = p] /\ lines' = [lines EXCEPT ![t] = d]
    BY <1>12 DEF handle_stats
  <2>2. CacheInv' /\ UNCHANGED <<chain, entry>>
    BY <1>2, <2>1, CrashInv DEF cacheVars
  <2>3. Closed(Place)
    BY <1>2, AllClosed
  <2>4. p \in Ptr \cup {NULL} /\ (p # NULL => entry[p] # NULL) /\ Left(p) = Cardinality(Place)
    BY <1>2, <2>3, WalkGoesOn
  <2>5. d \in Lines /\ d.due = Left(p) + d.unsent
    <3>1. count = Left(p) /\ count \in Nat
      BY <1>2, <2>4, PlacesCounted, FS_CardinalityType
    <3> QED
      BY <3>1 DEF Lines
  <2>6. Left(p)' = Left(p)
    BY <2>2 DEF Left, Beyond, Place, PtrAt
  <2>7. <<"reply", "walk">> \in Todo \cap ToWalk /\ <<"reply", "walk">> \notin ToSend
    BY Shapes
  <2>8. todo' = [todo EXCEPT ![t] = <<"reply", "walk">>] /\ UNCHANGED <<pc, req, arg, lock>>
    BY <1>6, <2>1, <2>7
  <2> QED
    BY <1>1, <1>7, <2>1, <2>2, <2>4, <2>5, <2>6, <2>7, <2>8, InsideStays
<1> QED
  BY <1>9, <1>10, <1>11, <1>12 DEF RunHandler

\* The value is sent from an entry that is still there.
LEMMA SendValueKeeps ==
  ASSUME CachedInv, NEW t \in Thread, SendValue(t)
  PROVE  CachedInv'
<1>1. todo[t] = <<"value">> /\ Inside(t)
  BY TodoIs DEF SendValue, At, Inside
<1>2. CacheInv' /\ UNCHANGED val /\ UNCHANGED lines
  BY CrashInv DEF CachedInv, SendValue, Crash, cacheVars
<1>3. <<>> \in Todo /\ <<>> \notin ToSend \cup ToWalk
  BY Shapes
<1>4. todo' = [todo EXCEPT ![t] = <<>>] /\ UNCHANGED <<pc, req, arg, lock>>
  <2>1. <<>> \o Tail(todo[t]) = <<>>
    BY <1>1, Rests, Shapes
  <2> QED
    BY <2>1 DEF SendValue, Then
<1>5. lines' = [lines EXCEPT ![t] = lines[t]] /\ lines[t] \in Lines
  BY <1>2 DEF CachedInv, CachedTypes
<1>6. cursor' = [cursor EXCEPT ![t] = NULL]
  BY DEF SendValue
<1> QED
  BY <1>1, <1>2, <1>3, <1>4, <1>5, <1>6, InsideStays

\* One entry of STATS, or the end of it.
LEMMA WalkKeeps ==
  ASSUME CachedInv, NEW t \in Thread, Walk(t)
  PROVE  CachedInv'
<1>1. todo[t] = <<"walk">> /\ Inside(t)
  BY TodoIs DEF Walk, At, Inside
<1>2. CacheInv' /\ UNCHANGED <<val, chain, entry>>
  BY CrashInv DEF CachedInv, Walk, NextEntry, WalkCrashes, Crash, cacheVars
<1>3. /\ InHand(t) /\ Answering(t) /\ CachedTypes /\ CacheInv
      /\ <<"walk">> \in Todo \cap ToWalk /\ <<"walk">> \notin ToSend
      /\ <<>> \in Todo /\ <<>> \notin ToSend \cup ToWalk
  BY Shapes DEF CachedInv
<1>4. /\ lines[t].due = Left(cursor[t]) + lines[t].unsent
      /\ lines[t].due \in Int /\ lines[t].unsent \in Nat
  BY <1>1, <1>3 DEF Answering, CachedTypes, Lines
<1>5. CASE cursor[t] = NULL
  <2>1. <<>> \o Tail(todo[t]) = <<>>
    BY <1>1, Rests, Shapes
  <2>2. /\ todo' = [todo EXCEPT ![t] = <<>>] /\ UNCHANGED <<pc, req, arg, lock, cursor>>
        /\ lines' = [lines EXCEPT ![t] = NoLines]
    BY <1>5, <2>1 DEF Walk, Then
  <2>3. cursor' = [cursor EXCEPT ![t] = NULL] /\ NoLines \in Lines
    BY <1>3, <1>5, <2>2 DEF CachedTypes, NoLines, Lines
  <2> QED
    BY <1>1, <1>2, <1>3, <2>2, <2>3, InsideStays
<1>6. CASE cursor[t] # NULL
  <2>1. UNCHANGED serveVars /\ (NextEntry(t) \/ WalkCrashes(t))
    BY <1>6 DEF Walk
  <2>2. todo' = [todo EXCEPT ![t] = <<"walk">>] /\ UNCHANGED <<pc, req, arg, lock>>
    BY <1>1, <1>3, <2>1 DEF serveVars, CachedTypes
  <2>3. cursor[t] \in Ptr /\ entry[cursor[t]] # NULL /\ lines[t] \in Lines
    BY <1>3, <1>6 DEF CachedTypes, Answering
  <2>4. CASE NextEntry(t)
    <3> PICK p : p = FirstOf(Beyond(cursor[t]))
      OBVIOUS
    <3> PICK d : /\ d = [lines[t] EXCEPT !.due = @ - 1] \/ d = [lines[t] EXCEPT !.unsent = @ + 1]
                 /\ lines' = [lines EXCEPT ![t] = d]
      BY <2>4, Zenon DEF NextEntry
    <3>1. cursor' = [cursor EXCEPT ![t] = p]
      BY <2>4 DEF NextEntry
    <3>2. Beyond(cursor[t]) \in SUBSET Place /\ Closed(Beyond(cursor[t]))
      BY <1>3, <2>3, AllClosed
    <3>3. /\ p \in Ptr \cup {NULL} /\ (p # NULL => entry[p] # NULL)
          /\ Left(p) = Cardinality(Beyond(cursor[t]))
      BY <1>3, <3>2, WalkGoesOn
    <3>4. Cardinality(Beyond(cursor[t])) \in Nat
      BY <1>3, <3>2, PlacesCounted, FS_Subset, FS_CardinalityType
    <3>5. d \in Lines /\ d.due = Left(p) + d.unsent
      <4>1. lines[t].due = Cardinality(Beyond(cursor[t])) + 1 + lines[t].unsent
        BY <1>4, <1>6 DEF Left
      <4>2. \/ d.due = lines[t].due - 1 /\ d.unsent = lines[t].unsent
            \/ d.due = lines[t].due /\ d.unsent = lines[t].unsent + 1
        BY <2>3 DEF Lines
      <4>3. d \in Lines
        BY <1>4, <2>3 DEF Lines
      <4> QED
        BY <1>4, <3>3, <3>4, <4>1, <4>2, <4>3
    <3>6. Left(p)' = Left(p)
      BY <1>2 DEF Left, Beyond, Place, PtrAt
    <3> QED
      BY <1>1, <1>2, <1>3, <2>2, <3>1, <3>3, <3>5, <3>6, InsideStays
  <2>5. CASE WalkCrashes(t)
    <3>1. cursor' = [cursor EXCEPT ![t] = NULL] /\ lines' = [lines EXCEPT ![t] = NoLines]
      BY <2>5 DEF WalkCrashes
    <3>2. NoLines \in Lines /\ NoLines.due = Left(NULL)' + NoLines.unsent
      BY DEF NoLines, Lines, Left
    <3> QED
      BY <1>1, <1>2, <1>3, <2>2, <3>1, <3>2, InsideStays
  <2> QED
    BY <2>1, <2>4, <2>5
<1> QED
  BY <1>5, <1>6

\* A reply is written; what is to follow it follows.
LEMMA AnswerKeeps ==
  ASSUME CachedInv, NEW t \in Thread, Answer(t)
  PROVE  CachedInv'
<1>1. /\ todo[t] \in {<<"reply">>, <<"reply", "value">>, <<"reply", "walk">>} /\ Inside(t)
      /\ UNCHANGED <<cacheVars, ownVars>>
  BY TodoIs DEF Answer, Reply, At, Inside
<1>2. CacheInv' /\ UNCHANGED <<val, chain, entry, cursor, lines>>
  BY <1>1, CrashInv DEF CachedInv, cacheVars, ownVars
<1>3. Answering(t) /\ CachedTypes
  BY DEF CachedInv
<1> PICK steps : steps = Tail(todo[t])
  OBVIOUS
<1>4. /\ steps \in Todo /\ <<>> \o steps = steps
      /\ steps \in ToSend => todo[t] \in ToSend
      /\ steps \in ToWalk => todo[t] \in ToWalk
      /\ steps \notin ToSend \cup ToWalk => todo[t] \notin ToSend \cup ToWalk
  <2>1. CASE todo[t] = <<"reply">>
    BY <2>1, Rests, Shapes
  <2>2. CASE todo[t] = <<"reply", "value">>
    BY <2>2, Rests, Shapes
  <2>3. CASE todo[t] = <<"reply", "walk">>
    BY <2>3, Rests, Shapes
  <2> QED
    BY <1>1, <2>1, <2>2, <2>3
<1>5. todo' = [todo EXCEPT ![t] = steps] /\ UNCHANGED <<pc, req, arg, lock>>
  BY <1>4 DEF Answer, Reply, Then
<1>6. todo' \in [Thread -> Todo] /\ todo'[t] = steps /\ \A u \in Thread : u # t => todo'[u] = todo[u]
  BY <1>3, <1>4, <1>5, Zenon DEF CachedTypes
<1>7. CachedTypes' /\ Apart(t)
  BY <1>2, <1>3, <1>5, <1>6, Zenon DEF CachedTypes, Apart
<1>8. InHand(t)'
  BY <1>2, <1>5 DEF CachedInv, InHand
<1>9. Left(cursor[t])' = Left(cursor[t])
  BY <1>2 DEF Left, Beyond, Place, PtrAt
<1>10. Answering(t)'
  BY <1>1, <1>2, <1>3, <1>4, <1>5, <1>6, <1>9 DEF Answering, Inside
<1> QED
  BY <1>2, <1>5, <1>7, <1>8, <1>10, ByThread

\* LeaveCriticalSection, and the request is freed.
LEMMA FinishKeeps ==
  ASSUME CachedInv, NEW t \in Thread, Finish(t)
  PROVE  CachedInv'
<1>1. /\ pc[t] = "locked" /\ todo[t] = <<>> /\ lock' = NULL
      /\ pc' = [pc EXCEPT ![t] = IF t = "pipe" THEN "drain" ELSE "listen"]
      /\ req' = [req EXCEPT ![t] = NULL] /\ arg' = [arg EXCEPT ![t] = FALSE]
      /\ val' = [val EXCEPT ![t] = FALSE]
      /\ UNCHANGED <<todo, cacheVars, cursor, lines>>
  BY DEF Finish, LeaveOnce, Release, EndRequest, Hangup, Goto, FreeArg, FreeVal
<1>2. CacheInv'
  BY <1>1, CrashInv DEF CachedInv, cacheVars
<1>3. Answering(t) /\ CachedTypes
  BY DEF CachedInv
<1>4. lock = t /\ cursor[t] = NULL
  BY <1>1, <1>3, Shapes DEF Answering, Inside
<1>5. /\ pc' \in [Thread -> Location] /\ req' \in [Thread -> Requests \cup {NULL}]
      /\ pc'[t] \in {"drain", "listen"}
      /\ \A u \in Thread : u # t => pc'[u] = pc[u] /\ req'[u] = req[u]
  BY <1>1, <1>3 DEF CachedTypes, Location
<1>6. /\ arg'[t] = FALSE /\ arg' \in [Thread -> BOOLEAN]
      /\ \A u \in Thread : u # t => arg'[u] = arg[u]
  BY <1>1, <1>3, Zenon DEF CachedTypes
<1>7. /\ val'[t] = FALSE /\ val' \in [Thread -> BOOLEAN]
      /\ \A u \in Thread : u # t => val'[u] = val[u]
  BY <1>1, <1>3, Zenon DEF CachedTypes
<1>8. CachedTypes'
  BY <1>1, <1>3, <1>5, <1>6, <1>7, Zenon DEF CachedTypes
<1>9. Apart(t)
  BY <1>1, <1>5, <1>6, <1>7, Zenon DEF Apart
<1>10. InHand(t)'
  BY <1>5, <1>6, <1>7, EndInHand
<1>11. <<>> \notin ToSend \cup ToWalk
  BY Shapes
<1>12. Answering(t)'
  BY <1>1, <1>4, <1>5, <1>11, ServeAssumption DEF Answering, Inside
<1> QED
  BY <1>1, <1>2, <1>4, <1>8, <1>9, <1>10, <1>12, ByThread

\* The daemon at startup: nobody is served and the cache is empty.
LEMMA InitInv ==
  ASSUME Init
  PROVE  CachedInv
<1>1. CacheInv
  BY NewInv DEF Init
<1>2. PICK w \in {"listen", "gone"} : pc = [t \in Thread |-> IF t = "tcp" THEN "start" ELSE w]
  BY DEF Init, ServeInit
<1>3. /\ req = [t \in Thread |-> NULL] /\ arg = [t \in Thread |-> FALSE]
      /\ val = [t \in Thread |-> FALSE] /\ todo = [t \in Thread |-> <<>>]
      /\ cursor = [t \in Thread |-> NULL] /\ lines = [t \in Thread |-> NoLines] /\ lock = NULL
  BY DEF Init, ServeInit
<1>4. CachedTypes
  <2>1. pc \in [Thread -> Location] /\ lines \in [Thread -> Lines] /\ cursor \in [Thread -> Ptr \cup {NULL}]
    BY <1>2, <1>3 DEF Location, Lines, NoLines
  <2>2. todo \in [Thread -> Todo] /\ req \in [Thread -> Requests \cup {NULL}]
    BY <1>3, Shapes
  <2>3. arg \in [Thread -> BOOLEAN] /\ val \in [Thread -> BOOLEAN]
    BY <1>3, Zenon
  <2> QED
    BY <2>1, <2>2, <2>3 DEF CachedTypes
<1>5. ASSUME NEW t \in Thread PROVE InHand(t) /\ Answering(t)
  <2>1. pc[t] \in {"start", "listen", "gone"} /\ ~arg[t] /\ ~val[t]
    BY <1>2, <1>3
  <2>2. todo[t] = <<>> /\ cursor[t] = NULL /\ lock # t
    BY <1>3, ServeAssumption
  <2> QED
    BY <2>1, <2>2, Shapes DEF InHand, Answering, Inside
<1> QED
  BY <1>1, <1>4, <1>5 DEF CachedInv

\* A step that changes nothing the invariant speaks of.
LEMMA StutterInv ==
  ASSUME CachedInv, UNCHANGED vars
  PROVE  CachedInv'
<1>1. CacheInv'
  BY CrashInv DEF CachedInv, vars, cacheVars
<1>2. CachedTypes'
  BY DEF CachedInv, CachedTypes, vars, serveVars, ownVars
<1>3. ASSUME NEW t \in Thread PROVE InHand(t)' /\ Answering(t)'
  <2>1. /\ pc' = pc /\ req' = req /\ arg' = arg /\ lock' = lock /\ todo' = todo
        /\ val' = val /\ cursor' = cursor /\ lines' = lines /\ chain' = chain /\ entry' = entry
    BY DEF vars, cacheVars, serveVars, ownVars
  <2>2. InHand(t) /\ Answering(t)
    BY DEF CachedInv
  <2>3. Left(cursor[t])' = Left(cursor[t])
    BY <2>1 DEF Left, Beyond, Place, PtrAt
  <2> QED
    BY <2>1, <2>2, <2>3 DEF InHand, Answering, Inside
<1> QED
  BY <1>1, <1>2, <1>3 DEF CachedInv

LEMMA StepInv ==
  ASSUME CachedInv, [Next]_vars
  PROVE  CachedInv'
<1>1. CASE UNCHANGED vars
  BY <1>1, StutterInv
<1>2. CASE Startup
  BY <1>2, StartupKeeps
<1>3. CASE \E t \in Thread : Transport(t)
  BY <1>3, TransportKeeps
<1>4. CASE \E t \in Thread : Dispatch(t)
  BY <1>4, DispatchKeeps
<1>5. CASE \E t \in Thread : Inner(t)
  BY <1>5, HandlerKeeps, SendValueKeeps, WalkKeeps, AnswerKeeps, FinishKeeps DEF Inner
<1> QED
  BY <1>1, <1>2, <1>3, <1>4, <1>5 DEF Next

-----------------------------------------------------------------------------
(* The theorems.                                                           *)

\* In every reachable state of cached the cache is consistent, at most one thread is
\* inside a handler, and only that thread points into the cache (serve).
THEOREM CachedInvariant == Spec => []CachedInv
<1>1. Init => CachedInv
  BY InitInv
<1>2. CachedInv /\ [Next]_vars => CachedInv'
  BY StepInv
<1> QED
  BY <1>1, <1>2, PTL DEF Spec

\* Whatever the two clients send and whatever memory runs out, the count, the chains
\* and the value blocks agree with the entries (CacheInsertEmpty, CacheDel).
THEOREM CacheStaysSound == Spec => []CacheSound
<1>1. CachedInv => CacheSound
  BY CacheInvSound DEF CachedInv
<1> QED
  BY <1>1, CachedInvariant, PTL

\* No way out of serve keeps a key or a value buffer.
THEOREM RequestsAreFreed == Spec => []RequestFreed
<1>1. CachedInv => RequestFreed
  BY DEF CachedInv, InHand, RequestFreed
<1> QED
  BY <1>1, CachedInvariant, PTL

\* What is left of a walk is counted, and is no more than all there is.
LEMMA LeftBounded ==
  ASSUME CachedInv
  PROVE  /\ count = Cardinality(Place) /\ count \in Nat
         /\ \A p \in Ptr \cup {NULL} : Left(p) \in Nat /\ (p = NULL \/ entry[p] # NULL => Left(p) <= count)
<1>1. CacheInv /\ IsFiniteSet(Place) /\ count = Cardinality(Place)
  BY PlacesCounted DEF CachedInv
<1>2. count \in Nat
  BY <1>1, FS_CardinalityType
<1>3. ASSUME NEW p \in Ptr, entry[p] # NULL PROVE Cardinality(Beyond(p)) + 1 <= count
  <2>1. PICK x \in Place : PtrAt(x) = p
    BY <1>1, <1>3, CacheInvSound DEF CacheSound
  <2>2. Beyond(p) \subseteq Place \ {x}
    <3>1. ~Before(x, x)
      BY <1>1, PlaceType DEF Before
    <3>2. \A z \in Place : PtrAt(z) = p => z = x
      BY <1>1, <2>1, PlaceUnique
    <3> QED
      BY <3>1, <3>2 DEF Beyond
  <2>3. /\ IsFiniteSet(Place \ {x}) /\ Cardinality(Place \ {x}) = count - 1
    BY <1>1, <2>1, FS_RemoveElement
  <2>4. Cardinality(Beyond(p)) \in Nat /\ Cardinality(Beyond(p)) <= count - 1
    BY <2>2, <2>3, FS_Subset, FS_CardinalityType
  <2> QED
    BY <1>2, <2>4
<1>4. ASSUME NEW p \in Ptr PROVE Cardinality(Beyond(p)) \in Nat
  BY <1>1, AllClosed, FS_Subset, FS_CardinalityType
<1> QED
  BY <1>1, <1>2, <1>3, <1>4, CacheAssumption DEF Left

\* GET sends the value of an entry that is still there, and STATS meets each entry it
\* announced once, so that its answer lacks no line but those there was no memory
\* for, with any number of entries and buckets.
THEOREM AnswersAreExact == Spec => []AnswersExact
<1>1. ASSUME CachedInv PROVE AnswersExact
  <2> SUFFICES ASSUME NEW t \in Thread
               PROVE  /\ cursor[t] # NULL => Inside(t) /\ entry[cursor[t]] # NULL
                      /\ Inside(t) /\ (\E i \in 1 .. Len(todo[t]) : todo[t][i] = "walk") =>
                           lines[t].due = lines[t].unsent
                             + IF cursor[t] = NULL THEN 0 ELSE Cardinality(Beyond(cursor[t])) + 1
    BY DEF AnswersExact
  <2>1. Answering(t) /\ todo[t] \in Todo
    BY <1>1 DEF CachedInv, CachedTypes
  <2>2. cursor[t] # NULL => Inside(t) /\ entry[cursor[t]] # NULL
    BY <2>1, Shapes DEF Answering
  <2>3. (\E i \in 1 .. Len(todo[t]) : todo[t][i] = "walk") => todo[t] \in ToWalk
    BY <2>1 DEF Todo, ToSend, ToWalk
  <2>4. /\ todo[t] \in ToWalk => lines[t].due = Left(cursor[t]) + lines[t].unsent
        /\ cursor[t] \in Ptr \cup {NULL} /\ lines[t].unsent \in Nat
    BY <1>1, <2>1 DEF Answering, CachedInv, CachedTypes, Lines
  <2>5. Left(cursor[t]) \in Nat
    BY <1>1, <2>4, LeftBounded
  <2> QED
    BY <2>2, <2>3, <2>4, <2>5 DEF Left
<1> QED
  BY <1>1, CachedInvariant, PTL

-----------------------------------------------------------------------------
(* The critical section comes to its end.                                  *)

Measured == Cardinality(Place) \in Nat /\ \A p \in Ptr \cup {NULL} : Left(p) \in Nat

\* What a list of steps weighs: STATS takes a step for every entry that is left to print,
\* and a handler that has not begun may be STATS.
Weight(steps, rest, all) ==
  IF steps = <<"handle">> THEN all + 3
  ELSE Len(steps) + IF steps \in ToWalk THEN rest ELSE 0

\* The steps a handler has before it.
Ahead(t) == Weight(todo[t], Left(cursor[t]), Cardinality(Place))

HoldRemaining == IF lock = NULL THEN 0 ELSE 1 + Ahead(lock)

LEMMA WeightIs ==
  ASSUME NEW rest \in Nat, NEW all \in Nat
  PROVE  /\ Weight(<<>>, rest, all) = 0
         /\ Weight(<<"handle">>, rest, all) = all + 3
         /\ Weight(<<"reply">>, rest, all) = 1
         /\ Weight(<<"value">>, rest, all) = 1
         /\ Weight(<<"reply", "value">>, rest, all) = 2
         /\ Weight(<<"walk">>, rest, all) = 1 + rest
         /\ Weight(<<"reply", "walk">>, rest, all) = 2 + rest
<1>1. /\ <<>> # <<"handle">> /\ <<"reply">> # <<"handle">> /\ <<"value">> # <<"handle">>
      /\ <<"walk">> # <<"handle">> /\ <<"reply", "value">> # <<"handle">>
      /\ <<"reply", "walk">> # <<"handle">>
  OBVIOUS
<1>2. /\ Len(<<>>) = 0 /\ Len(<<"reply">>) = 1 /\ Len(<<"value">>) = 1 /\ Len(<<"walk">>) = 1
      /\ Len(<<"reply", "value">>) = 2 /\ Len(<<"reply", "walk">>) = 2
  OBVIOUS
<1> QED
  BY <1>1, <1>2, Shapes DEF Weight

LEMMA PlacesMeasured == CachedInv => Measured
BY LeftBounded DEF Measured

\* What is ahead is as much as there are entries, and three, at most.
LEMMA AheadBounded ==
  ASSUME CachedInv, NEW t \in Thread
  PROVE  Ahead(t) \in 0 .. count + 3
<1>1. count = Cardinality(Place) /\ count \in Nat /\ Left(cursor[t]) \in 0 .. count
  BY LeftBounded DEF CachedInv, CachedTypes, Answering
<1>2. todo[t] \in {<<>>, <<"handle">>, <<"reply">>, <<"value">>, <<"walk">>,
                   <<"reply", "value">>, <<"reply", "walk">>}
  BY DEF CachedInv, CachedTypes, Todo, ToSend, ToWalk
<1>3. ASSUME NEW rest \in 0 .. count,
             NEW s \in {<<>>, <<"handle">>, <<"reply">>, <<"value">>, <<"walk">>,
                        <<"reply", "value">>, <<"reply", "walk">>}
      PROVE  Weight(s, rest, count) \in 0 .. count + 3
  <2>1. rest \in Nat
    BY <1>1
  <2>2. Weight(s, rest, count) \in {0, count + 3, 1, 2, 1 + rest, 2 + rest}
    <3>1. s = <<>> => Weight(s, rest, count) = 0
      BY <1>1, <2>1, WeightIs
    <3>2. s = <<"handle">> => Weight(s, rest, count) = count + 3
      BY <1>1, <2>1, WeightIs
    <3>3. s = <<"reply">> \/ s = <<"value">> => Weight(s, rest, count) = 1
      BY <1>1, <2>1, WeightIs
    <3>4. s = <<"reply", "value">> => Weight(s, rest, count) = 2
      BY <1>1, <2>1, WeightIs
    <3>5. s = <<"walk">> => Weight(s, rest, count) = 1 + rest
      BY <1>1, <2>1, WeightIs
    <3>6. s = <<"reply", "walk">> => Weight(s, rest, count) = 2 + rest
      BY <1>1, <2>1, WeightIs
    <3> QED
      BY <3>1, <3>2, <3>3, <3>4, <3>5, <3>6, Zenon
  <2> QED
    BY <1>1, <2>1, <2>2
<1> QED
  BY <1>1, <1>2, <1>3 DEF Ahead

LockTypeOK == lock \in Thread \cup {NULL}

LEMMA LockTyped == Spec => []LockTypeOK
<1>1. Init => LockTypeOK
  BY DEF Init, ServeInit, LockTypeOK
<1>2. LockTypeOK /\ [Next]_vars => LockTypeOK'
  <2> SUFFICES ASSUME lock \in Thread \cup {NULL}, [Next]_vars PROVE lock' \in Thread \cup {NULL}
    BY DEF LockTypeOK
  <2>1. CASE \E t \in Thread : Transport(t)
    BY <2>1 DEF Transport, Accept, ReadRequest, ReadKey, ReadValue, DropRequest, Refuse,
                RefuseBig, RefuseOnce
  <2>2. CASE \E t \in Thread : Dispatch(t)
    BY <2>2 DEF Dispatch, Enter, Acquire
  <2>3. CASE \E t \in Thread : RunHandler(t)
    BY <2>3 DEF RunHandler, handle_set, handle_get, handle_del, handle_stats, Then
  <2>4. CASE \E t \in Thread : SendValue(t) \/ Walk(t) \/ Answer(t) \/ Finish(t)
    BY <2>4 DEF SendValue, Walk, Answer, Reply, Then, serveVars, Finish, LeaveOnce, Release
  <2>5. CASE Startup \/ UNCHANGED vars
    BY <2>5 DEF Startup, StartTcp, PipeFails, Drained, vars, serveVars
  <2> QED
    BY <2>1, <2>2, <2>3, <2>4, <2>5 DEF Next, Inner
<1> QED
  BY <1>1, <1>2, PTL DEF Spec

\* A step inside the critical section leaves less ahead, and the lock where it is.
LEMMA InnerForward ==
  ASSUME CachedInv, NEW t \in Thread, RunHandler(t) \/ SendValue(t) \/ Walk(t) \/ Answer(t)
  PROVE  /\ Inside(t) /\ lock' = lock
         /\ Ahead(t) \in Nat /\ Ahead(t)' \in Nat /\ Ahead(t)' < Ahead(t)
<1> DEFINE rest == Left(cursor[t])
           gone == Left(cursor[t])'
           all  == Cardinality(Place)'
<1>1. Inside(t) /\ lock' = lock
  <2>1. CASE RunHandler(t)
    BY <2>1 DEF RunHandler, handle_set, handle_get, handle_del, handle_stats, Then, At, Inside
  <2>2. CASE SendValue(t) \/ Walk(t) \/ Answer(t)
    BY <2>2 DEF SendValue, Walk, Answer, Reply, Then, serveVars, At, Inside
  <2> QED
    BY <2>1, <2>2
<1>2. /\ CachedTypes /\ CacheInv /\ Answering(t) /\ rest \in Nat
      /\ count = Cardinality(Place) /\ count \in Nat
  BY LeftBounded DEF CachedInv, CachedTypes
<1>3. Ahead(t) = Weight(todo[t], rest, count) /\ Ahead(t)' = Weight(todo'[t], gone, all)
  BY <1>2 DEF Ahead
<1>4. gone \in Nat /\ all \in Nat
  <2>1. CachedInv'
    BY HandlerKeeps, SendValueKeeps, WalkKeeps, AnswerKeeps
  <2>2. (CachedInv => Measured)'
    BY PlacesMeasured, PTL
  <2> QED
    BY <2>1, <2>2 DEF Measured, CachedInv, CachedTypes
<1>5. ASSUME NEW steps, Then(t, steps) PROVE todo'[t] = steps \o Tail(todo[t])
  BY <1>2, <1>5 DEF Then, CachedTypes
<1> HIDE DEF rest, gone, all
<1> SUFFICES Ahead(t) \in Nat /\ Ahead(t)' \in Nat /\ Ahead(t)' < Ahead(t)
  BY <1>1
<1>6. /\ todo[t] = <<"handle">> => Ahead(t) = count + 3
      /\ todo[t] \in {<<"reply">>, <<"value">>} => Ahead(t) = 1
      /\ todo[t] = <<"reply", "value">> => Ahead(t) = 2
      /\ todo[t] = <<"walk">> => Ahead(t) = 1 + rest
      /\ todo[t] = <<"reply", "walk">> => Ahead(t) = 2 + rest
  <2>1. /\ Weight(<<"handle">>, rest, count) = count + 3
        /\ Weight(<<"reply">>, rest, count) = 1 /\ Weight(<<"value">>, rest, count) = 1
        /\ Weight(<<"reply", "value">>, rest, count) = 2
        /\ Weight(<<"walk">>, rest, count) = 1 + rest
        /\ Weight(<<"reply", "walk">>, rest, count) = 2 + rest
    BY <1>2, WeightIs
  <2> QED
    BY <1>3, <2>1, Zenon
<1>7. /\ todo'[t] = <<>> => Ahead(t)' = 0
      /\ todo'[t] \in {<<"reply">>, <<"value">>} => Ahead(t)' = 1
      /\ todo'[t] = <<"reply", "value">> => Ahead(t)' = 2
      /\ todo'[t] = <<"walk">> => Ahead(t)' = 1 + gone
      /\ todo'[t] = <<"reply", "walk">> => Ahead(t)' = 2 + gone
  <2>1. /\ Weight(<<>>, gone, all) = 0
        /\ Weight(<<"reply">>, gone, all) = 1 /\ Weight(<<"value">>, gone, all) = 1
        /\ Weight(<<"reply", "value">>, gone, all) = 2
        /\ Weight(<<"walk">>, gone, all) = 1 + gone
        /\ Weight(<<"reply", "walk">>, gone, all) = 2 + gone
    BY <1>4, WeightIs
  <2> QED
    BY <1>3, <2>1, Zenon
<1>8. CASE RunHandler(t)
  <2>1. todo[t] = <<"handle">> /\ Ahead(t) = count + 3
    BY <1>6, <1>8, TodoIs DEF RunHandler
  <2>2. ASSUME NEW steps \in Todo, Then(t, steps) PROVE todo'[t] = steps
    BY <1>5, <2>1, <2>2, Rests
  <2>3. CASE handle_set(t) \/ handle_del(t) \/ handle_get(t)
    <3>1. PICK steps \in {<<"reply">>, <<"reply", "value">>} : Then(t, steps)
      BY <2>3 DEF handle_set, handle_del, handle_get
    <3>2. todo'[t] \in {<<"reply">>, <<"reply", "value">>}
      BY <2>2, <3>1, Shapes
    <3>3. Ahead(t)' \in {1, 2}
      BY <1>7, <3>2
    <3> QED
      BY <1>2, <2>1, <3>3
  <2>4. CASE handle_stats(t)
    <3>1. todo'[t] = <<"reply", "walk">>
      BY <2>2, <2>4, Shapes DEF handle_stats
    <3>2. cursor'[t] = FirstOf(Place) /\ UNCHANGED <<chain, entry>>
      BY <1>2, <2>4 DEF handle_stats, CachedTypes, cacheVars
    <3>3. gone = Left(FirstOf(Place))
      BY <3>2 DEF gone, Left, Beyond, Place, PtrAt
    <3>4. gone = count
      BY <1>2, <3>3, AllClosed, WalkGoesOn
    <3>5. Ahead(t)' = 2 + count
      BY <1>7, <3>1, <3>4
    <3> QED
      BY <1>2, <2>1, <3>5
  <2> QED
    BY <1>8, <2>3, <2>4 DEF RunHandler
<1>9. CASE SendValue(t)
  <2>1. todo[t] = <<"value">> /\ Then(t, <<>>)
    BY <1>9, TodoIs DEF SendValue
  <2>2. todo'[t] = <<>>
    BY <1>5, <2>1, Rests, Shapes
  <2> QED
    BY <1>6, <1>7, <2>1, <2>2
<1>10. CASE Walk(t)
  <2>1. todo[t] = <<"walk">> /\ Ahead(t) = 1 + rest
    BY <1>6, <1>10, TodoIs DEF Walk
  <2>2. CASE cursor[t] = NULL
    <3>1. todo'[t] = <<>>
      BY <1>5, <1>10, <2>1, <2>2, Rests, Shapes DEF Walk
    <3> QED
      BY <1>2, <1>7, <2>1, <3>1
  <2>3. CASE cursor[t] # NULL
    <3>1. todo'[t] = <<"walk">> /\ cursor[t] \in Ptr /\ (NextEntry(t) \/ WalkCrashes(t))
      BY <1>2, <1>10, <2>1, <2>3 DEF Walk, serveVars, CachedTypes
    <3>2. Beyond(cursor[t]) \in SUBSET Place /\ Closed(Beyond(cursor[t]))
      BY <1>2, <3>1, AllClosed
    <3>3. rest = Cardinality(Beyond(cursor[t])) + 1 /\ Cardinality(Beyond(cursor[t])) \in Nat
      BY <1>2, <2>3, <3>2, PlacesCounted, FS_Subset, FS_CardinalityType DEF rest, Left
    <3>4. gone < rest
      <4>1. CASE NextEntry(t)
        <5>1. cursor'[t] = FirstOf(Beyond(cursor[t])) /\ UNCHANGED <<chain, entry>>
          BY <1>2, <4>1 DEF NextEntry, CachedTypes, cacheVars
        <5>2. gone = Left(FirstOf(Beyond(cursor[t])))
          BY <5>1 DEF gone, Left, Beyond, Place, PtrAt
        <5> QED
          BY <1>2, <3>2, <3>3, <5>2, WalkGoesOn
      <4>2. CASE WalkCrashes(t)
        <5>1. cursor'[t] = NULL
          BY <1>2, <4>2 DEF WalkCrashes, CachedTypes
        <5>2. gone = 0
          BY <5>1 DEF gone, Left
        <5> QED
          BY <3>3, <5>2
      <4> QED
        BY <3>1, <4>1, <4>2
    <3>5. Ahead(t)' = 1 + gone
      BY <1>7, <3>1
    <3> QED
      BY <1>2, <1>4, <2>1, <3>4, <3>5
  <2> QED
    BY <2>2, <2>3
<1>11. CASE Answer(t)
  <2>1. /\ todo[t] \in {<<"reply">>, <<"reply", "value">>, <<"reply", "walk">>} /\ Then(t, <<>>)
        /\ UNCHANGED <<chain, entry, cursor>>
    BY <1>11, TodoIs DEF Answer, Reply, cacheVars, ownVars
  <2>2. gone = rest
    BY <2>1 DEF gone, rest, Left, Beyond, Place, PtrAt
  <2>3. todo'[t] = <<>> \o Tail(todo[t])
    BY <1>5, <2>1
  <2>4. \/ todo[t] = <<"reply">> /\ todo'[t] = <<>>
        \/ todo[t] = <<"reply", "value">> /\ todo'[t] = <<"value">>
        \/ todo[t] = <<"reply", "walk">> /\ todo'[t] = <<"walk">>
    BY <2>1, <2>3, Rests, Shapes
  <2>5. \/ Ahead(t) = 1 /\ Ahead(t)' = 0
        \/ Ahead(t) = 2 /\ Ahead(t)' = 1
        \/ Ahead(t) = 2 + rest /\ Ahead(t)' = 1 + rest
    <3>1. todo[t] = <<"reply">> /\ todo'[t] = <<>> => Ahead(t) = 1 /\ Ahead(t)' = 0
      BY <1>6, <1>7, Zenon
    <3>2. todo[t] = <<"reply", "value">> /\ todo'[t] = <<"value">> => Ahead(t) = 2 /\ Ahead(t)' = 1
      BY <1>6, <1>7, Zenon
    <3>3. todo[t] = <<"reply", "walk">> /\ todo'[t] = <<"walk">>
            => Ahead(t) = 2 + rest /\ Ahead(t)' = 1 + rest
      BY <1>6, <1>7, <2>2, Zenon
    <3> QED
      BY <2>4, <3>1, <3>2, <3>3, Zenon
  <2> QED
    BY <1>2, <2>5
<1> QED
  BY <1>8, <1>9, <1>10, <1>11

\* Whoever owns the lock is at most as many steps as there are entries, and four, from
\* giving it back; each step it takes brings it nearer, those of the STATS walk included,
\* and a step of the other thread meanwhile touches neither the cache nor what the owner
\* has to do: what LockReleased needs besides that a thread inside the critical section
\* runs on (serve and its handlers).
THEOREM OwnerGoesForward ==
  Spec => /\ [](HoldRemaining \in 0 .. count + 4)
          /\ [][lock # NULL => \/ HoldRemaining' < HoldRemaining
                               \/ UNCHANGED <<lock, todo, cursor, cacheVars>>]_vars
<1>1. CachedInv /\ LockTypeOK => HoldRemaining \in 0 .. count + 4
  <2> SUFFICES ASSUME CachedInv, LockTypeOK PROVE HoldRemaining \in 0 .. count + 4
    OBVIOUS
  <2>1. count \in Nat
    BY LeftBounded
  <2>2. ASSUME lock \in Thread PROVE Ahead(lock) \in 0 .. count + 3
    BY <2>2, AheadBounded
  <2> QED
    BY <2>1, <2>2 DEF HoldRemaining, LockTypeOK
<1>2. ASSUME CachedInv, LockTypeOK, Next, lock # NULL
      PROVE  HoldRemaining' < HoldRemaining \/ UNCHANGED <<lock, todo, cursor, cacheVars>>
  <2>1. CASE (Gone /\ UNCHANGED vars) \/ Startup
    BY <2>1 DEF vars, serveVars, ownVars, Startup, StartTcp, PipeFails, Drained
  <2>2. ASSUME NEW t \in Thread, Transport(t) \/ Dispatch(t)
        PROVE  UNCHANGED <<lock, todo, cursor, cacheVars>>
    BY <1>2, <2>2 DEF Transport, Dispatch, Accept, ReadRequest, ReadKey, ReadValue, DropRequest,
                      Refuse, RefuseBig, RefuseOnce, EndRequest, Enter, Acquire
  <2>3. ASSUME NEW t \in Thread, RunHandler(t) \/ SendValue(t) \/ Walk(t) \/ Answer(t)
        PROVE  HoldRemaining' < HoldRemaining
    <3>1. /\ Inside(t) /\ lock' = lock
          /\ Ahead(t) \in Nat /\ Ahead(t)' \in Nat /\ Ahead(t)' < Ahead(t)
      BY <1>2, <2>3, InnerForward
    <3>2. lock = t
      BY <1>2, <3>1 DEF CachedInv, Answering
    <3>3. HoldRemaining = 1 + Ahead(t) /\ HoldRemaining' = 1 + Ahead(t)'
      BY <1>2, <3>1, <3>2 DEF HoldRemaining, Ahead
    <3> QED
      BY <3>1, <3>3
  <2>4. ASSUME NEW t \in Thread, Finish(t)
        PROVE  HoldRemaining' < HoldRemaining
    <3>1. HoldRemaining' = 0
      BY <2>4 DEF Finish, LeaveOnce, Release, HoldRemaining
    <3>2. count \in Nat /\ Ahead(lock) \in 0 .. count + 3
      BY <1>2, LeftBounded, AheadBounded DEF LockTypeOK
    <3> QED
      BY <1>2, <3>1, <3>2 DEF HoldRemaining
  <2> QED
    BY <1>2, <2>1, <2>2, <2>3, <2>4 DEF Next, Inner
<1>3. CachedInv /\ LockTypeOK /\ [Next]_vars
        => [lock # NULL => \/ HoldRemaining' < HoldRemaining
                           \/ UNCHANGED <<lock, todo, cursor, cacheVars>>]_vars
  BY <1>2
<1> QED
  BY <1>1, <1>3, CachedInvariant, LockTyped, PTL DEF Spec

-----------------------------------------------------------------------------
(* The cache as a history of each name.                                    *)

\* A step of the server sets, deletes or leaves the cache alone.
LEMMA ServerCalls ==
  ASSUME CachedInv, [Next]_vars
  PROVE  \/ UNCHANGED <<chain, entry>>
         \/ \E n \in Name : \/ CacheDel(n)
                            \/ \E len \in Arg : CacheSet(n, len) \/ CacheStoreFast(n, len)
<1>1. CASE \E t \in Thread : RunHandler(t)
  <2>1. PICK t \in Thread : RunHandler(t)
    BY <1>1
  <2>2. todo[t] = <<"handle">> /\ Inside(t)
    BY <2>1, TodoIs DEF RunHandler, At, Inside
  <2>3. req[t] \in Served
    BY <2>2 DEF CachedInv, InHand, Inside
  <2>4. req[t].name \in Name /\ req[t].len \in Arg
    BY <2>3, ServedIs
  <2>5. CASE handle_set(t)
    <3>1. ASSUME NEW len \in CodecApply(codec_for(req[t].codec), req[t].len) PROVE len \in Arg
      BY <2>4, CodecBounded
    <3> QED
      BY <2>4, <2>5, <3>1 DEF handle_set, cacheVars
  <2>6. CASE handle_get(t)
    <3>1. \E p \in Ptr \cup {NULL} : CacheGet(req[t].name, p) \/ CacheGetRaw(req[t].name, p)
      BY <2>6 DEF handle_get
    <3> QED
      BY <2>4, <3>1, CacheGetInv DEF CachedInv
  <2>7. CASE handle_del(t)
    BY <2>4, <2>7 DEF handle_del, cacheVars
  <2>8. CASE handle_stats(t)
    BY <2>8 DEF handle_stats, cacheVars
  <2> QED
    BY <2>1, <2>5, <2>6, <2>7, <2>8 DEF RunHandler
<1>2. CASE \E t \in Thread : SendValue(t) \/ Walk(t) \/ Answer(t) \/ Finish(t) \/ Transport(t) \/ Dispatch(t)
  BY <1>2 DEF SendValue, Walk, NextEntry, WalkCrashes, Answer, Finish, Transport, Dispatch, cacheVars, Crash
<1>3. CASE Startup \/ UNCHANGED vars
  BY <1>3 DEF Startup, vars, cacheVars
<1> QED
  BY <1>1, <1>2, <1>3 DEF Next, Inner

\* Under each name the cache of the server keeps its values newest first: SET and the fast
\* path add one, DEL takes the newest away, and nothing that shares the chain is touched
\* (CacheInsertEmpty, CacheDel).
THEOREM CacheImplementsVersions == Spec => ImplementsVersions
<1>1. Init => V!Init
  BY NewVersions DEF Init
<1>2. CachedInv /\ [Next]_vars => [V!Next]_([n \in Name |-> Values(n)])
  <2> SUFFICES ASSUME CachedInv, [Next]_vars
               PROVE  [V!Next]_([n \in Name |-> Values(n)])
    OBVIOUS
  <2>1. CacheInv
    BY DEF CachedInv
  <2>2. CASE UNCHANGED <<chain, entry>>
    BY <2>2, SameValues, Zenon
  <2>3. CASE \E n \in Name : CacheDel(n)
    BY <2>1, <2>3, DelVersions, Zenon
  <2>4. CASE \E n \in Name : \E len \in Arg : CacheSet(n, len) \/ CacheStoreFast(n, len)
    BY <2>1, <2>4, SetVersions, Zenon
  <2> QED
    BY <2>2, <2>3, <2>4, ServerCalls
<1> QED
  BY <1>1, <1>2, CachedInvariant, PTL DEF Spec, ImplementsVersions, V!Spec

-----------------------------------------------------------------------------
(* The loader of snapshots.                                                *)

\* The buffers an entry has while it is read, the copy of its tag aside.
Buffers(at) ==
  CASE at = "id"     -> {"key"}
    [] at = "decode" -> {"key", "id"}
    [] at = "value"  -> {"key"}
    [] at = "set"    -> {"key", "value"}
    [] OTHER         -> {}

Empty == blocks = {} /\ \A p \in Ptr : entry[p] = NULL

\* The inductive invariant of cacheload.
LoadInv ==
  /\ CacheInv
  /\ stage \in {"start", "header", "loop", "id", "decode", "value", "set", "free", "exit0", "exit1"}
  /\ loaded \in Nat /\ count <= loaded
  /\ held \ {"decoded"} = Buffers(stage)
  /\ "decoded" \in held => stage \in {"value", "set"}
  /\ open <=> stage \notin {"start", "free", "exit0", "exit1"}
  /\ stage \in {"start", "header", "exit1"} => Empty
  /\ stage = "exit0" /\ fault = "none" => Empty
  /\ stage \in {"id", "decode", "value", "set"} => rec.name \in Name /\ rec.len \in 0 .. MaxArg + 1
  /\ stage = "set" => rec.len \in Arg

\* CacheFree leaves an empty cache, or ends the process.
LEMMA CacheFreeInv ==
  ASSUME CacheInv, CacheFree
  PROVE  /\ CacheInv'
         /\ fault' # "key" => Empty'
         /\ count' \in {count, 0}
<1>1. CASE Crash("key")
  BY <1>1, CrashInv DEF Crash
<1>2. CASE ~Crash("key")
  <2>1. /\ chain' = [b \in Bucket |-> <<>>]
        /\ entry' = [p \in Ptr |-> IF \E b \in Bucket : p \in {chain[b][i] : i \in 1 .. Len(chain[b])}
                                   THEN NULL ELSE entry[p]]
        /\ blocks' = {p \in blocks : entry'[p] # NULL}
        /\ count' = 0
    BY <1>2 DEF CacheFree
  <2>2. \A p \in Ptr : entry'[p] = NULL
    BY <2>1 DEF CacheInv, Reached
  <2>3. blocks' = {}
    BY <2>1, <2>2 DEF CacheInv, CacheTypes
  <2>4. \A b \in Bucket : chain'[b] = <<>>
    BY <2>1
  <2>5. Live' = {}
    BY <2>2 DEF Live
  <2>6. CacheTypes'
    BY <2>1, <2>3 DEF CacheInv, CacheTypes
  <2>7. Linked' /\ Reached' /\ Unshared' /\ Hashed'
    BY <2>2, <2>4 DEF Linked, Reached, Unshared, Hashed
  <2>8. Counted' /\ BlocksOwned'
    BY <2>1, <2>3, <2>5, FS_EmptySet DEF Counted, BlocksOwned
  <2> QED
    BY <2>1, <2>2, <2>3, <2>6, <2>7, <2>8 DEF CacheInv, Empty
<1> QED
  BY <1>1, <1>2

\* SET counts one entry at most.
LEMMA CacheSetCounts ==
  ASSUME NEW n, NEW len, CacheSet(n, len)
  PROVE  count' \in {count, count + 1}
BY DEF CacheSet, NotInserted, Insert, Crash, cacheVars

\* The entries can be counted.
LEMMA CountIs ==
  ASSUME CacheInv
  PROVE  count \in Nat
<1>1. Live \in SUBSET Ptr /\ IsFiniteSet(Live)
  BY CacheAssumption, FS_Subset DEF Live
<1>2. Cardinality(Live) \in Nat
  BY <1>1, FS_CardinalityType
<1> QED
  BY <1>2 DEF CacheInv, Counted

LEMMA LoadInitInv == LoadInit => LoadInv
<1> SUFFICES ASSUME LoadInit PROVE LoadInv
  OBVIOUS
<1>1. CacheInv /\ Empty /\ count = 0
  BY NewInv DEF LoadInit, CacheNew, Empty
<1>2. held \ {"decoded"} = Buffers(stage)
  BY DEF LoadInit, Buffers
<1> QED
  BY <1>1, <1>2 DEF LoadInit, LoadInv

\* The steps that read the file leave the cache as it is.
LEMMA ReadingInv ==
  ASSUME LoadInv, OpenFile \/ ReadDumpHeader \/ ReadKeyLength \/ ReadIdLength \/ ReadValueLength
                  \/ EndLoop \/ UNCHANGED loadVars
  PROVE  LoadInv'
<1>1. CacheInv' /\ loaded' \in Nat /\ count' <= loaded' /\ (Empty => Empty') /\ fault' = fault
  <2>1. UNCHANGED <<cacheVars, loaded>>
    BY DEF OpenFile, ReadDumpHeader, ReadKeyLength, ReadIdLength, ReadValueLength, EndLoop,
           loadVars, wmainVars
  <2> QED
    BY <2>1, CrashInv DEF LoadInv, cacheVars, Empty
<1>2. CASE OpenFile \/ ReadDumpHeader
  <2>1. held' = {} /\ Buffers(stage') = {} /\ stage' \in {"header", "loop", "exit1"}
    BY <1>2 DEF OpenFile, ReadDumpHeader, LoadInv, Buffers
  <2> QED
    BY <1>1, <1>2, <2>1 DEF OpenFile, ReadDumpHeader, LoadInv
<1>3. CASE ReadKeyLength
  <2>1. rec'.name \in Name /\ rec'.len \in 0 .. MaxArg + 1
    BY <1>3, SnapshotAssumption DEF ReadKeyLength
  <2>2. held' \ {"decoded"} = Buffers(stage')
    BY <1>3 DEF ReadKeyLength, Buffers
  <2> QED
    BY <1>1, <1>3, <2>1, <2>2 DEF ReadKeyLength, LoadInv
<1>4. CASE ReadIdLength
  <2>1. held' \ {"decoded"} = Buffers(stage')
    BY <1>4 DEF ReadIdLength, LoadInv, Buffers
  <2> QED
    BY <1>1, <1>4, <2>1 DEF ReadIdLength, LoadInv
<1>5. CASE ReadValueLength
  <2>1. held' \ {"decoded"} = Buffers(stage')
    BY <1>5 DEF ReadValueLength, LoadInv, Buffers
  <2>2. rec.len \in Arg
    BY <1>5, MachineAssumption DEF ReadValueLength, LoadInv, Arg
  <2> QED
    BY <1>1, <1>5, <2>1, <2>2 DEF ReadValueLength, LoadInv
<1>6. CASE EndLoop
  <2>1. held' \ {"decoded"} = Buffers(stage')
    BY <1>6 DEF EndLoop, FreeEntry, Buffers
  <2> QED
    BY <1>1, <1>6, <2>1 DEF EndLoop, FreeEntry, LoadInv
<1>7. CASE UNCHANGED loadVars
  BY <1>1, <1>7 DEF loadVars, wmainVars, LoadInv, Empty
<1> QED
  BY <1>2, <1>3, <1>4, <1>5, <1>6, <1>7

\* The steps that call the cache.
LEMMA CallingInv ==
  ASSUME LoadInv, fault = "none", DecodeId \/ StoreEntry \/ FreeStore
  PROVE  LoadInv'
<1>1. CASE DecodeId
  <2>1. PICK ret \in BOOLEAN : /\ CacheDecodeId(rec.id_len, ret)
                               /\ held' = (held \ {"id"}) \cup (IF ret THEN {"decoded"} ELSE {})
    BY <1>1 DEF DecodeId
  <2>2. UNCHANGED <<chain, entry, blocks, count>>
    BY <2>1 DEF CacheDecodeId, Crash, cacheVars
  <2>3. CacheInv'
    BY <2>2, CrashInv DEF LoadInv
  <2>4. held' \ {"decoded"} = Buffers(stage')
    BY <1>1, <2>1 DEF DecodeId, LoadInv, Buffers
  <2> QED
    BY <1>1, <2>2, <2>3, <2>4 DEF DecodeId, LoadInv
<1>2. CASE StoreEntry
  <2>1. CacheInv'
    BY <1>2, CacheSetInv DEF StoreEntry, LoadInv
  <2>2. count' <= loaded' /\ loaded' \in Nat
    <3>1. count' \in {count, count + 1} /\ count \in Nat
      BY <1>2, CacheSetCounts, CountIs DEF StoreEntry, LoadInv
    <3> QED
      BY <1>2, <3>1 DEF StoreEntry, LoadInv
  <2>3. held' \ {"decoded"} = Buffers(stage')
    BY <1>2 DEF StoreEntry, Buffers
  <2> QED
    BY <1>2, <2>1, <2>2, <2>3 DEF StoreEntry, LoadInv
<1>3. CASE FreeStore
  <2>1. CacheInv' /\ count' \in {count, 0} /\ (fault' # "key" => Empty')
    BY <1>3, CacheFreeInv DEF FreeStore, LoadInv
  <2>2. count' <= loaded'
    BY <1>3, <2>1 DEF FreeStore, LoadInv
  <2>3. held' \ {"decoded"} = Buffers(stage')
    BY <1>3 DEF FreeStore, LoadInv, Buffers
  <2> QED
    BY <1>3, <2>1, <2>2, <2>3 DEF FreeStore, LoadInv
<1> QED
  BY <1>1, <1>2, <1>3

\* What is true of cacheload between any two steps.
THEOREM LoadInvariant == LoadSpec => []LoadInv
<1>1. LoadInv /\ [LoadNext]_loadVars => LoadInv'
  BY ReadingInv, CallingInv DEF LoadNext, Work, Done
<1> QED
  BY <1>1, LoadInitInv, PTL DEF LoadSpec

\* Wherever the snapshot ends and whatever memory runs out, the buffers of the entry in
\* hand are freed once, the cache is sound, and an exit has freed all of it (wmain of
\* cacheload.c, CacheFree).
THEOREM SnapshotsStayInHand == LoadSpec => []SnapshotInHand
<1>1. LoadInv => SnapshotInHand
  <2> SUFFICES ASSUME LoadInv PROVE SnapshotInHand
    OBVIOUS
  <2>1. CacheSound
    BY CacheInvSound DEF LoadInv
  <2>2. held \ {"decoded"} = (CASE stage = "id"     -> {"key"}
                                [] stage = "decode" -> {"key", "id"}
                                [] stage = "value"  -> {"key"}
                                [] stage = "set"    -> {"key", "value"}
                                [] OTHER            -> {})
    BY DEF LoadInv, Buffers
  <2>3. Done /\ fault = "none" => Empty
    BY DEF Done, LoadInv
  <2> QED
    BY <2>1, <2>2, <2>3 DEF LoadInv, SnapshotInHand, Empty
<1> QED
  BY <1>1, LoadInvariant, PTL

\* Until CacheFree, loading is storing: a step keeps every value that was loaded, in its
\* place, and puts at most the one in hand before those of its name (the call of CacheSet
\* in wmain).
THEOREM LoadingKeeps == LoadSpec => LoadedStay
<1> DEFINE Kept(n) == \/ Values(n)' = Values(n)
                      \/ /\ stage = "set" /\ n = rec.name
                         /\ \E len \in {0, rec.len} : Values(n)' = <<len>> \o Values(n)
<1>1. ASSUME LoadInv, LoadNext, stage # "free", NEW n \in Name
      PROVE  Kept(n)
  <2>1. CASE UNCHANGED <<chain, entry>>
    BY <2>1, SameValues
  <2>2. CASE ~UNCHANGED <<chain, entry>>
    <3>1. StoreEntry
      BY <1>1, <2>2 DEF LoadNext, Work, OpenFile, ReadDumpHeader, ReadKeyLength, ReadIdLength,
                        DecodeId, CacheDecodeId, Crash, ReadValueLength, EndLoop, FreeStore,
                        loadVars, cacheVars
    <3>2. /\ rec.name \in Name /\ rec.len \in Arg /\ 0 \in Arg /\ CacheInv
          /\ stage = "set" /\ CacheSet(rec.name, rec.len)
      BY <1>1, <3>1, MachineAssumption DEF StoreEntry, LoadInv, Arg
    <3>3. PICK m \in Name, p \in Ptr, len \in {0, rec.len} : m = rec.name /\ Insert(m, p, len)
      BY <2>2, <3>2 DEF CacheSet, NotInserted, Crash, cacheVars
    <3>4. CacheTypes'
      BY <3>2, CacheSetInv DEF CacheInv
    <3>5. len \in Arg
      BY <3>2, <3>3
    <3>6. /\ \A x \in Name \ {m} : Values(x)' = Values(x)
          /\ Values(m)' = Values(m) \/ Values(m)' = <<len>> \o Values(m)
      BY <3>2, <3>3, <3>4, <3>5, InsertStores
    <3> QED
      BY <3>2, <3>3, <3>6
  <2> QED
    BY <2>1, <2>2
<1>2. LoadInv /\ [LoadNext]_loadVars => [stage # "free" => \A n \in Name : Kept(n)]_loadVars
  BY <1>1
<1> QED
  BY <1>2, LoadInvariant, PTL DEF LoadSpec, LoadedStay

\* The entries announced are counted down, and one is due while it is loaded.
EntriesCounted ==
  /\ left \in 0 .. MaxEntries
  /\ stage \in {"id", "decode", "value", "set"} => left > 0

\* What wmain has before it at most: five steps for each entry, and the way out.
LoadRemaining ==
  IF stage = "start" THEN 5 * MaxEntries + 4
  ELSE IF stage = "header" THEN 5 * MaxEntries + 3
  ELSE IF stage = "loop" THEN 5 * left + 2
  ELSE IF stage = "id" THEN 5 * left + 1
  ELSE IF stage = "decode" THEN 5 * left
  ELSE IF stage = "value" THEN 5 * left - 1
  ELSE IF stage = "set" THEN 5 * left - 2
  ELSE IF stage = "free" THEN 1
  ELSE 0

\* Every step of the loader leaves less before it, so no snapshot makes the loop turn more
\* often than its header says: what LoadEnds needs besides that wmain runs on (wmain of
\* cacheload.c).
THEOREM LoadGoesForward ==
  LoadSpec => [](LoadRemaining \in Nat) /\ [][LoadRemaining' < LoadRemaining]_loadVars
<1>1. LoadInit => EntriesCounted
  BY SnapshotAssumption DEF LoadInit, EntriesCounted
<1>2. EntriesCounted => LoadRemaining \in Nat
  BY SnapshotAssumption DEF EntriesCounted, LoadRemaining
<1>3. ASSUME EntriesCounted, LoadNext, ~UNCHANGED loadVars
      PROVE  EntriesCounted' /\ LoadRemaining' < LoadRemaining
  <2>1. left \in Nat /\ MaxEntries \in Nat /\ left <= MaxEntries
    BY <1>3, SnapshotAssumption DEF EntriesCounted
  <2>2. CASE OpenFile \/ ReadDumpHeader
    BY <1>3, <2>1, <2>2 DEF OpenFile, ReadDumpHeader, EntriesCounted, LoadRemaining
  <2>3. CASE ReadKeyLength \/ ReadIdLength \/ ReadValueLength
    BY <1>3, <2>1, <2>3 DEF ReadKeyLength, ReadIdLength, ReadValueLength, EntriesCounted,
                            LoadRemaining
  <2>4. CASE DecodeId
    <3>1. stage = "decode" /\ stage' = "value" /\ left' = left
      BY <2>4 DEF DecodeId
    <3> QED
      BY <1>3, <2>1, <3>1 DEF EntriesCounted, LoadRemaining
  <2>5. CASE StoreEntry
    <3>1. stage = "set" /\ stage' = "loop" /\ left' = left - 1
      BY <2>5 DEF StoreEntry
    <3> QED
      BY <1>3, <2>1, <3>1 DEF EntriesCounted, LoadRemaining
  <2>6. CASE EndLoop \/ FreeStore
    <3>1. /\ left' = left
          /\ \/ stage \in {"loop", "id", "decode", "value", "set"} /\ stage' = "free"
             \/ stage = "free" /\ stage' = "exit0"
      BY <2>6 DEF EndLoop, FreeStore
    <3> QED
      BY <1>3, <2>1, <3>1 DEF EntriesCounted, LoadRemaining
  <2> QED
    BY <1>3, <2>2, <2>3, <2>4, <2>5, <2>6 DEF LoadNext, Work
<1>4. EntriesCounted /\ UNCHANGED loadVars => EntriesCounted'
  BY DEF loadVars, wmainVars, EntriesCounted
<1>5. EntriesCounted /\ [LoadNext]_loadVars
        => EntriesCounted' /\ [LoadRemaining' < LoadRemaining]_loadVars
  BY <1>3, <1>4
<1> QED
  BY <1>1, <1>2, <1>5, PTL DEF LoadSpec
=============================================================================
