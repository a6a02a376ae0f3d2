---------------------------- MODULE CacheProofs ----------------------------
(***************************************************************************)
(* Proofs about the cache, for any number of entries, buckets and names    *)
(* and any sizes of its buffers.  Each operation is shown to preserve      *)
(* CacheInv on its own, so that the proofs about the programs cite the     *)
(* operation they call.                                                    *)
(***************************************************************************)
EXTENDS Cache, FiniteSetTheorems, FunctionTheorems, SequenceTheorems,
        WellFoundedInduction, TLAPS

-----------------------------------------------------------------------------
(* The inductive invariant of the cache.                                   *)

CacheTypes ==
  /\ chain \in [Bucket -> Seq(Ptr)]
  /\ entry \in [Ptr -> Entry \cup {NULL}]
  /\ blocks \in SUBSET Ptr

\* What the chains hold are entries, all of them, each once, in its bucket.
Linked   == \A b \in Bucket : \A i \in 1 .. Len(chain[b]) : entry[chain[b][i]] # NULL
Reached  == \A p \in Ptr : entry[p] # NULL => \E b \in Bucket : \E i \in 1 .. Len(chain[b]) : chain[b][i] = p
Unshared == \A b, c \in Bucket : \A i \in 1 .. Len(chain[b]) : \A j \in 1 .. Len(chain[c]) :
              chain[b][i] = chain[c][j] => b = c /\ i = j
Hashed   == \A b \in Bucket : \A i \in 1 .. Len(chain[b]) :
              entry[chain[b][i]].key # NULL => Hash[entry[chain[b][i]].key] = b

Live == {p \in Ptr : entry[p] # NULL}

Counted == count = Cardinality(Live)

\* A value of its own block belongs to a live entry, and a long value has one.
BlocksOwned ==
  /\ blocks \subseteq Live
  /\ \A p \in Live : entry[p].len > NextAt => p \in blocks

CacheInv ==
  CacheTypes /\ Linked /\ Reached /\ Unshared /\ Hashed /\ Counted /\ BlocksOwned

-----------------------------------------------------------------------------
(* Places in the table.                                                    *)

\* A walk that stops stops first somewhere (CacheGet, CacheDel).
LEMMA LeastIs ==
  ASSUME NEW S \in SUBSET Nat, S # {}
  PROVE  \E i \in S : \A j \in S : i <= j
<1>1. PICK i \in S : \A j \in S : ~(<<j, i>> \in OpToRel(<, Nat))
  BY NatLessThanWellFounded, WFMin, Zenon
<1>2. \A j \in S : ~(j < i)
  BY <1>1, Zenon DEF OpToRel
<1> QED
  BY <1>2

LEMMA FirstStopIs ==
  ASSUME CacheTypes, NEW b \in Bucket, NEW n, Stops(b, n) # {}
  PROVE  /\ FirstStop(b, n) \in 1 .. Len(chain[b])
         /\ FirstStop(b, n) \in Stops(b, n) /\ \A j \in Stops(b, n) : FirstStop(b, n) <= j
<1>1. Stops(b, n) \in SUBSET Nat /\ Stops(b, n) \subseteq 1 .. Len(chain[b])
  BY DEF Stops
<1>2. \E i \in Stops(b, n) : \A j \in Stops(b, n) : i <= j
  BY <1>1, LeastIs
<1>3. FirstStop(b, n) \in Stops(b, n) /\ \A j \in Stops(b, n) : FirstStop(b, n) <= j
  BY <1>2 DEF FirstStop
<1> QED
  BY <1>1, <1>3

\* The entries are finitely many.
LEMMA LiveFinite ==
  ASSUME NEW S \in SUBSET Ptr, NEW p \in Ptr
  PROVE  /\ IsFiniteSet(S) /\ Cardinality(S) \in Nat
         /\ p \notin S => Cardinality(S \cup {p}) = Cardinality(S) + 1
         /\ p \in S => Cardinality(S \ {p}) = Cardinality(S) - 1
<1>1. IsFiniteSet(S) /\ Cardinality(S) \in Nat
  BY CacheAssumption, FS_Subset, FS_CardinalityType
<1> QED
  BY <1>1, FS_AddElement, FS_RemoveElement

\* A chain without repetitions is no longer than there are addresses, so that all of
\* it is in Place.
LEMMA ChainBounded ==
  ASSUME CacheTypes, Unshared, NEW b \in Bucket
  PROVE  Len(chain[b]) <= Cardinality(Ptr) /\ Len(chain[b]) \in Nat
<1> DEFINE s == chain[b]
<1>1. s \in Seq(Ptr) /\ Len(s) \in Nat
  BY DEF CacheTypes
<1>2. s \in [1 .. Len(s) -> Ptr]
  BY <1>1, LenProperties
<1>3. \A i, j \in 1 .. Len(s) : s[i] = s[j] => i = j
  BY DEF Unshared
<1> HIDE DEF s
<1>4. s \in Injection(1 .. Len(s), Ptr)
  BY <1>2, <1>3 DEF Injection, IsInjective
<1>5. Cardinality(1 .. Len(s)) <= Cardinality(Ptr)
  BY <1>4, CacheAssumption, FS_Injection
<1>6. Cardinality(1 .. Len(s)) = Len(s)
  <2>1. 1 \in Int /\ Len(s) \in Int
    BY <1>1
  <2>2. Cardinality(1 .. Len(s)) = IF 1 > Len(s) THEN 0 ELSE Len(s) - 1 + 1
    BY <2>1, FS_Interval, Zenon
  <2> QED
    BY <1>1, <2>2
<1> QED
  BY <1>1, <1>5, <1>6 DEF s

LEMMA PlaceIs ==
  ASSUME CacheTypes, Unshared
  PROVE  /\ \A b \in Bucket : \A i \in 1 .. Len(chain[b]) : <<b, i>> \in Place
         /\ \A x \in Place : /\ x[1] \in Bucket /\ x[2] \in 1 .. Len(chain[x[1]])
                             /\ x = <<x[1], x[2]>> /\ PtrAt(x) \in Ptr
<1>1. Cardinality(Ptr) \in Nat
  BY CacheAssumption, FS_CardinalityType
<1>2. ASSUME NEW b \in Bucket, NEW i \in 1 .. Len(chain[b])
      PROVE  <<b, i>> \in Place
  <2>1. Len(chain[b]) <= Cardinality(Ptr) /\ Len(chain[b]) \in Nat
    BY ChainBounded
  <2>2. i \in 1 .. Cardinality(Ptr)
    BY <1>1, <2>1
  <2> QED
    BY <2>1, <2>2 DEF Place
<1>3. ASSUME NEW x \in Place
      PROVE  /\ x[1] \in Bucket /\ x[2] \in 1 .. Len(chain[x[1]])
             /\ x = <<x[1], x[2]>> /\ PtrAt(x) \in Ptr
  <2>1. x[1] \in Bucket /\ x[2] \in 1 .. Len(chain[x[1]]) /\ x = <<x[1], x[2]>>
    BY DEF Place
  <2>2. chain[x[1]] \in Seq(Ptr)
    BY <2>1 DEF CacheTypes
  <2> QED
    BY <2>1, <2>2, ElementOfSeq DEF PtrAt
<1> QED
  BY <1>2, <1>3

\* The invariant says what the property of the cache does.
LEMMA CacheInvSound ==
  ASSUME CacheInv
  PROVE  CacheSound
<1>1. count = Cardinality({p \in Ptr : entry[p] # NULL})
  BY DEF CacheInv, Counted, Live
<1>2. \A p \in Ptr : entry[p] # NULL <=> \E x \in Place : PtrAt(x) = p
  <2> SUFFICES ASSUME NEW p \in Ptr
               PROVE  entry[p] # NULL <=> \E x \in Place : PtrAt(x) = p
    OBVIOUS
  <2>1. ASSUME entry[p] # NULL PROVE \E x \in Place : PtrAt(x) = p
    <3>1. PICK b \in Bucket : \E i \in 1 .. Len(chain[b]) : chain[b][i] = p
      BY <2>1 DEF CacheInv, Reached
    <3>2. PICK i \in 1 .. Len(chain[b]) : chain[b][i] = p
      BY <3>1
    <3>3. <<b, i>> \in Place /\ PtrAt(<<b, i>>) = p
      BY <3>2, PlaceIs DEF CacheInv, PtrAt
    <3> QED
      BY <3>3
  <2>2. ASSUME NEW x \in Place, PtrAt(x) = p PROVE entry[p] # NULL
    BY <2>2, PlaceIs DEF CacheInv, Linked, PtrAt
  <2> QED
    BY <2>1, <2>2
<1>3. \A x, y \in Place : PtrAt(x) = PtrAt(y) => x = y
  BY PlaceIs DEF CacheInv, Unshared, PtrAt
<1>4. \A x \in Place : entry[PtrAt(x)].key # NULL => Hash[entry[PtrAt(x)].key] = x[1]
  BY PlaceIs DEF CacheInv, Hashed, PtrAt
<1>5. \A p \in blocks : entry[p] # NULL
  BY DEF CacheInv, BlocksOwned, Live
<1>6. \A p \in Ptr : entry[p] # NULL /\ entry[p].len > NextAt => p \in blocks
  BY DEF CacheInv, BlocksOwned, Live
<1> QED
  BY <1>1, <1>2, <1>3, <1>4, <1>5, <1>6 DEF CacheSound

-----------------------------------------------------------------------------
(* The operations of the cache.                                            *)

\* A fresh cache satisfies the invariant (CacheNew).
LEMMA NewInv ==
  ASSUME CacheNew
  PROVE  CacheInv
<1>1. \A b \in Bucket : chain[b] = <<>>
  BY DEF CacheNew
<1>2. Live = {}
  BY DEF CacheNew, Live
<1>3. CacheTypes
  BY DEF CacheNew, CacheTypes
<1>4. Linked /\ Reached /\ Unshared /\ Hashed
  BY <1>1, <1>2 DEF Linked, Reached, Unshared, Hashed, Live
<1>5. Counted /\ BlocksOwned
  BY <1>2, FS_EmptySet DEF CacheNew, Counted, BlocksOwned
<1> QED
  BY <1>3, <1>4, <1>5 DEF CacheInv

\* Nothing the invariant speaks of changes when the process ends.
LEMMA CrashInv ==
  ASSUME CacheInv, UNCHANGED <<chain, entry, blocks, count>>
  PROVE  CacheInv'
BY DEF CacheInv, CacheTypes, Linked, Reached, Unshared, Hashed, Counted, BlocksOwned, Live

\* The chain in front of which an address is put.
LEMMA Prepended ==
  ASSUME NEW s \in Seq(Ptr), NEW p \in Ptr
  PROVE  /\ <<p>> \o s \in Seq(Ptr)
         /\ Len(<<p>> \o s) = Len(s) + 1 /\ Len(s) \in Nat
         /\ (<<p>> \o s)[1] = p
         /\ \A i \in 1 .. Len(s) : (<<p>> \o s)[i + 1] = s[i]
         /\ \A i \in 1 .. Len(s) + 1 : (<<p>> \o s)[i] = IF i = 1 THEN p ELSE s[i - 1]
<1>1. <<p>> \in Seq(Ptr) /\ Len(<<p>>) = 1 /\ <<p>>[1] = p
  OBVIOUS
<1>2. Len(s) \in Nat
  OBVIOUS
<1>3. /\ <<p>> \o s \in Seq(Ptr) /\ Len(<<p>> \o s) = 1 + Len(s)
      /\ \A i \in 1 .. 1 + Len(s) : (<<p>> \o s)[i] = IF i <= 1 THEN <<p>>[i] ELSE s[i - 1]
  BY <1>1, ConcatProperties
<1> QED
  BY <1>1, <1>2, <1>3

\* A new entry takes a free address and the front of its chain; its value is in the
\* entry, or in the block that is new with it (CacheInsertEmpty).
LEMMA InsertInv ==
  ASSUME CacheInv, NEW n \in Name, NEW p \in Ptr, NEW len \in Arg, Insert(n, p, len),
         \/ len <= NextAt /\ UNCHANGED blocks
         \/ blocks' = blocks \cup {p}
  PROVE  CacheInv'
<1> DEFINE h == Hash[n]
<1>1. PICK key \in {n, NULL} : entry' = [entry EXCEPT ![p] = [key |-> key, len |-> len]]
  BY DEF Insert
<1>2. /\ entry[p] = NULL /\ count' = count + 1
      /\ chain' = [chain EXCEPT ![h] = <<p>> \o chain[h]]
  BY DEF Insert, LinkFirst
<1>3. h \in Bucket /\ chain[h] \in Seq(Ptr)
  BY CacheAssumption DEF CacheInv, CacheTypes
<1> DEFINE new == [key |-> key, len |-> len]
<1>4. /\ new \in Entry /\ new # NULL /\ new.key \in {n, NULL} /\ new.len = len
      /\ entry'[p] = new /\ \A q \in Ptr : q # p => entry'[q] = entry[q]
  <2>1. new \in Entry
    BY DEF Entry
  <2> QED
    BY <1>1, <2>1, CacheAssumption DEF CacheInv, CacheTypes
<1>5. /\ chain'[h] \in Seq(Ptr) /\ Len(chain'[h]) = Len(chain[h]) + 1 /\ Len(chain[h]) \in Nat
      /\ chain'[h][1] = p
      /\ \A i \in 1 .. Len(chain[h]) : chain'[h][i + 1] = chain[h][i]
      /\ \A i \in 1 .. Len(chain'[h]) : chain'[h][i] = IF i = 1 THEN p ELSE chain[h][i - 1]
      /\ \A b \in Bucket : b # h => chain'[b] = chain[b]
  <2>1. chain'[h] = <<p>> \o chain[h] /\ \A b \in Bucket : b # h => chain'[b] = chain[b]
    BY <1>2, <1>3 DEF CacheInv, CacheTypes
  <2> QED
    BY <1>3, <2>1, Prepended
<1>6. Live' = Live \cup {p} /\ p \notin Live
  BY <1>2, <1>4 DEF Live
<1> HIDE DEF h, new
<1>7. CacheTypes'
  <2>1. chain' \in [Bucket -> Seq(Ptr)]
    BY <1>2, <1>3, <1>5 DEF CacheInv, CacheTypes
  <2>2. entry' \in [Ptr -> Entry \cup {NULL}]
    BY <1>1, <1>4 DEF CacheInv, CacheTypes, new
  <2> QED
    BY <2>1, <2>2 DEF CacheInv, CacheTypes
\* What is behind the new entry, and in the other chains, is what was there before.
<1>8. ASSUME NEW b \in Bucket, NEW i \in 1 .. Len(chain'[b])
      PROVE  \/ b = h /\ i = 1 /\ chain'[b][i] = p
             \/ \E k \in 1 .. Len(chain[b]) :
                  /\ chain'[b][i] = chain[b][k] /\ chain[b][k] \in Ptr /\ chain[b][k] # p
                  /\ i = IF b = h THEN k + 1 ELSE k
  <2>1. CASE b = h /\ i = 1
    BY <1>5, <2>1
  <2>2. CASE ~(b = h /\ i = 1)
    <3> DEFINE k == IF b = h THEN i - 1 ELSE i
    <3>1. k \in 1 .. Len(chain[b]) /\ chain'[b][i] = chain[b][k] /\ i = IF b = h THEN k + 1 ELSE k
      <4>1. CASE b = h
        <5>1. i \in 1 .. Len(chain[h]) + 1 /\ i # 1 /\ k = i - 1
          BY <1>5, <2>2, <4>1
        <5>2. k \in 1 .. Len(chain[h]) /\ i = k + 1
          BY <1>5, <5>1
        <5>3. chain'[h][i] = chain[h][k]
          BY <1>5, <4>1, <5>1
        <5> QED
          BY <4>1, <5>2, <5>3
      <4>2. CASE b # h
        BY <1>5, <4>2
      <4> QED
        BY <4>1, <4>2
    <3>2. chain[b][k] \in Ptr /\ chain[b][k] # p
      BY <1>2, <3>1, ElementOfSeq DEF CacheInv, CacheTypes, Linked
    <3> QED
      BY <3>1, <3>2
  <2> QED
    BY <2>1, <2>2
<1>9. Linked'
  BY <1>4, <1>8 DEF CacheInv, Linked
<1>10. Reached'
  <2> SUFFICES ASSUME NEW q \in Ptr, entry'[q] # NULL
               PROVE  \E b \in Bucket : \E i \in 1 .. Len(chain'[b]) : chain'[b][i] = q
    BY DEF Reached
  <2>1. CASE q = p
    <3>1. 1 \in 1 .. Len(chain'[h])
      BY <1>5
    <3> QED
      BY <1>3, <1>5, <2>1, <3>1
  <2>2. CASE q # p
    <3>1. PICK b \in Bucket : \E i \in 1 .. Len(chain[b]) : chain[b][i] = q
      BY <1>4, <2>2 DEF CacheInv, Reached
    <3>2. PICK i \in 1 .. Len(chain[b]) : chain[b][i] = q
      BY <3>1
    <3>3. CASE b = h
      <4>1. i + 1 \in 1 .. Len(chain'[h]) /\ chain'[h][i + 1] = q
        BY <1>5, <3>2, <3>3
      <4> QED
        BY <1>3, <4>1
    <3>4. CASE b # h
      BY <1>5, <3>2, <3>4
    <3> QED
      BY <3>3, <3>4
  <2> QED
    BY <2>1, <2>2
<1>11. Unshared'
  <2> SUFFICES ASSUME NEW b \in Bucket, NEW c \in Bucket,
                      NEW i \in 1 .. Len(chain'[b]), NEW j \in 1 .. Len(chain'[c]),
                      chain'[b][i] = chain'[c][j]
               PROVE  b = c /\ i = j
    BY DEF Unshared
  <2>1. CASE chain'[b][i] = p
    <3>1. b = h /\ i = 1
      BY <1>8, <2>1
    <3>2. chain'[c][j] = p
      BY <2>1
    <3>3. c = h /\ j = 1
      <4>1. \/ c = h /\ j = 1 /\ chain'[c][j] = p
            \/ \E k \in 1 .. Len(chain[c]) : chain'[c][j] = chain[c][k] /\ chain[c][k] # p
        BY <1>8, Zenon
      <4> QED
        BY <3>2, <4>1
    <3> QED
      BY <3>1, <3>3
  <2>2. CASE chain'[b][i] # p
    <3>1. PICK k \in 1 .. Len(chain[b]) :
            chain'[b][i] = chain[b][k] /\ i = IF b = h THEN k + 1 ELSE k
      BY <1>8, <2>2
    <3>2. PICK l \in 1 .. Len(chain[c]) :
            chain'[c][j] = chain[c][l] /\ j = IF c = h THEN l + 1 ELSE l
      BY <1>8, <2>2
    <3>3. chain[b][k] = chain[c][l]
      BY <3>1, <3>2
    <3>4. b = c /\ k = l
      BY <3>3 DEF CacheInv, Unshared
    <3> QED
      BY <3>1, <3>2, <3>4
  <2> QED
    BY <2>1, <2>2
<1>12. Hashed'
  <2> SUFFICES ASSUME NEW b \in Bucket, NEW i \in 1 .. Len(chain'[b]),
                      entry'[chain'[b][i]].key # NULL
               PROVE  Hash[entry'[chain'[b][i]].key] = b
    BY DEF Hashed
  <2>1. CASE b = h /\ chain'[b][i] = p
    BY <1>4, <2>1 DEF h
  <2>2. CASE ~(b = h /\ chain'[b][i] = p)
    <3>1. PICK k \in 1 .. Len(chain[b]) :
            chain'[b][i] = chain[b][k] /\ chain[b][k] \in Ptr /\ chain[b][k] # p
      BY <1>8, <2>2
    <3> QED
      BY <1>4, <3>1 DEF CacheInv, Hashed
  <2> QED
    BY <2>1, <2>2
<1>13. Counted'
  BY <1>2, <1>6, LiveFinite DEF CacheInv, Counted, Live
<1>14. BlocksOwned'
  <2>1. blocks' \subseteq Live'
    BY <1>6 DEF CacheInv, BlocksOwned
  <2>2. ASSUME NEW q \in Live', entry'[q].len > NextAt PROVE q \in blocks'
    <3>1. CASE q = p
      <4>1. ~(len <= NextAt)
        BY <1>4, <2>2, <3>1, CacheAssumption, MachineAssumption DEF Arg
      <4> QED
        BY <3>1, <4>1
    <3>2. CASE q # p
      BY <1>4, <1>6, <2>2, <3>2 DEF CacheInv, BlocksOwned, Live
    <3> QED
      BY <3>1, <3>2
  <2> QED
    BY <2>1, <2>2 DEF BlocksOwned
<1> QED
  BY <1>7, <1>9, <1>10, <1>11, <1>12, <1>13, <1>14 DEF CacheInv

\* SET, whether or not there was memory for the entry, its key or its value.
LEMMA CacheSetInv ==
  ASSUME CacheInv, NEW n \in Name, NEW len \in Arg, CacheSet(n, len)
  PROVE  CacheInv'
<1>1. CASE NotInserted
  BY <1>1, CrashInv DEF NotInserted, Crash, cacheVars
<1>2. CASE ~NotInserted
  <2>1. PICK p \in Ptr :
          \/ len <= SmallSize /\ Insert(n, p, len) /\ UNCHANGED blocks
          \/ len > SmallSize /\ Insert(n, p, len) /\ blocks' = blocks \cup {p}
          \/ len > SmallSize /\ Insert(n, p, 0) /\ UNCHANGED blocks
    BY <1>2 DEF CacheSet
  <2>2. 0 \in Arg /\ 0 <= NextAt /\ (len <= SmallSize => len <= NextAt)
    BY CacheAssumption, MachineAssumption DEF Arg
  <2> QED
    BY <2>1, <2>2, InsertInv
<1> QED
  BY <1>1, <1>2

\* The fast path: a value that ends behind e->small at most is as good as one within.
LEMMA CacheStoreFastInv ==
  ASSUME CacheInv, NEW n \in Name, NEW len \in Arg, CacheStoreFast(n, len)
  PROVE  CacheInv'
<1>1. CASE NotInserted \/ Crash("small")
  BY <1>1, CrashInv DEF NotInserted, Crash, cacheVars
<1>2. CASE \E p \in Ptr : len <= NextAt /\ Insert(n, p, len) /\ UNCHANGED blocks
  BY <1>2, InsertInv
<1> QED
  BY <1>1, <1>2 DEF CacheStoreFast

\* The sequence with one of its elements taken out.
LEMMA Removed ==
  ASSUME NEW s \in Seq(Ptr), NEW i \in 1 .. Len(s)
  PROVE  LET r == SubSeq(s, 1, i - 1) \o SubSeq(s, i + 1, Len(s))
         IN  /\ r \in Seq(Ptr) /\ Len(r) = Len(s) - 1 /\ Len(s) \in Nat
             /\ \A k \in 1 .. Len(r) : r[k] = s[IF k < i THEN k ELSE k + 1]
<1> DEFINE a == SubSeq(s, 1, i - 1)
           z == SubSeq(s, i + 1, Len(s))
<1>1. Len(s) \in Nat /\ i \in Nat
  OBVIOUS
<1>2. a \in Seq(Ptr) /\ Len(a) = i - 1 /\ \A k \in 1 .. i - 1 : a[k] = s[k]
  OBVIOUS
<1>3. z \in Seq(Ptr) /\ Len(z) = Len(s) - i /\ \A k \in 1 .. Len(s) - i : z[k] = s[i + k]
  OBVIOUS
<1> HIDE DEF a, z
<1>4. /\ a \o z \in Seq(Ptr) /\ Len(a \o z) = Len(a) + Len(z)
      /\ \A k \in 1 .. Len(a) + Len(z) : (a \o z)[k] = IF k <= Len(a) THEN a[k] ELSE z[k - Len(a)]
  BY <1>2, <1>3, ConcatProperties
<1>5. \A k \in 1 .. Len(s) - 1 : (a \o z)[k] = s[IF k < i THEN k ELSE k + 1]
  <2> SUFFICES ASSUME NEW k \in 1 .. Len(s) - 1
               PROVE  (a \o z)[k] = s[IF k < i THEN k ELSE k + 1]
    OBVIOUS
  <2>1. CASE k < i
    BY <1>1, <1>2, <1>3, <1>4, <2>1
  <2>2. CASE ~(k < i)
    <3>1. k - (i - 1) \in 1 .. Len(s) - i /\ i + (k - (i - 1)) = k + 1
      BY <1>1, <2>2
    <3>2. (a \o z)[k] = z[k - (i - 1)]
      BY <1>1, <1>2, <1>3, <1>4, <2>2
    <3>3. z[k - (i - 1)] = s[i + (k - (i - 1))]
      BY <1>3, <3>1
    <3> QED
      BY <2>2, <3>1, <3>2, <3>3
  <2> QED
    BY <2>1, <2>2
<1>6. Len(a \o z) = Len(s) - 1
  BY <1>1, <1>2, <1>3, <1>4
<1> QED
  BY <1>1, <1>4, <1>5, <1>6, Zenon DEF a, z

\* An entry leaves its chain, and memory, wherever in the chain it was.
LEMMA UnlinkInv ==
  ASSUME CacheInv, NEW g \in Bucket, NEW m \in 1 .. Len(chain[g]), Unlink(g, m)
  PROVE  CacheInv'
<1>1. CASE Crash("key")
  BY <1>1, CrashInv DEF Crash
<1>2. CASE ~Crash("key")
  <2> DEFINE p == chain[g][m]
             r == SubSeq(chain[g], 1, m - 1) \o SubSeq(chain[g], m + 1, Len(chain[g]))
  <2>1. /\ chain' = [chain EXCEPT ![g] = r]
        /\ entry' = [entry EXCEPT ![p] = NULL] /\ blocks' = blocks \ {p}
        /\ count' = count - 1
    BY <1>2 DEF Unlink, free_entry
  <2>2. chain[g] \in Seq(Ptr) /\ Len(chain[g]) \in Nat
    BY DEF CacheInv, CacheTypes
  <2>3. p \in Ptr /\ entry[p] # NULL
    BY <2>2, ElementOfSeq DEF CacheInv, Linked
  <2>4. r \in Seq(Ptr) /\ Len(r) = Len(chain[g]) - 1
        /\ \A k \in 1 .. Len(r) : r[k] = chain[g][IF k < m THEN k ELSE k + 1]
    BY <2>2, Removed
  <2>5. chain'[g] = r /\ \A b \in Bucket : b # g => chain'[b] = chain[b]
    BY <2>1 DEF CacheInv, CacheTypes
  <2>6. entry'[p] = NULL /\ \A q \in Ptr : q # p => entry'[q] = entry[q]
    BY <2>1, <2>3 DEF CacheInv, CacheTypes
  <2>7. Live' = Live \ {p} /\ p \in Live
    BY <2>3, <2>6 DEF Live
  <2>8. p = chain[g][m]
    OBVIOUS
  <2> HIDE DEF p, r
  <2>9. CacheTypes'
    <3>1. chain' \in [Bucket -> Seq(Ptr)]
      BY <2>1, <2>4 DEF CacheInv, CacheTypes
    <3>2. entry' \in [Ptr -> Entry \cup {NULL}]
      BY <2>1 DEF CacheInv, CacheTypes
    <3> QED
      BY <2>1, <3>1, <3>2 DEF CacheInv, CacheTypes
\* What is left in the chains was there before, behind the entry one place further on.
  <2>10. ASSUME NEW b \in Bucket, NEW i \in 1 .. Len(chain'[b])
         PROVE  \E k \in 1 .. Len(chain[b]) :
                  /\ chain'[b][i] = chain[b][k] /\ chain[b][k] \in Ptr /\ chain[b][k] # p
                  /\ k = IF b = g /\ ~(i < m) THEN i + 1 ELSE i
    <3> DEFINE k == IF b = g /\ ~(i < m) THEN i + 1 ELSE i
    <3>1. k \in 1 .. Len(chain[b]) /\ chain'[b][i] = chain[b][k] /\ (b = g => k # m)
      <4>1. CASE b = g
        <5>1. i \in 1 .. Len(chain[g]) - 1 /\ k = IF i < m THEN i ELSE i + 1
          BY <2>4, <2>5, <4>1
        <5>2. chain'[g][i] = chain[g][k]
          BY <2>4, <2>5, <5>1
        <5>3. k \in 1 .. Len(chain[g]) /\ k # m
          BY <2>2, <5>1
        <5> QED
          BY <4>1, <5>2, <5>3
      <4>2. CASE b # g
        BY <2>5, <4>2
      <4> QED
        BY <4>1, <4>2
    <3> HIDE DEF k
    <3>2. chain[b][k] \in Ptr
      BY <3>1, ElementOfSeq DEF CacheInv, CacheTypes
    <3>3. chain[b][k] # p
      BY <2>8, <3>1 DEF CacheInv, Unshared
    <3> QED
      BY <3>1, <3>2, <3>3 DEF k
  <2>11. Linked'
    <3> SUFFICES ASSUME NEW b \in Bucket, NEW i \in 1 .. Len(chain'[b])
                 PROVE  entry'[chain'[b][i]] # NULL
      BY DEF Linked
    <3>1. PICK k \in 1 .. Len(chain[b]) :
            chain'[b][i] = chain[b][k] /\ chain[b][k] \in Ptr /\ chain[b][k] # p
      BY <2>10
    <3> QED
      BY <2>6, <3>1 DEF CacheInv, Linked
  <2>12. Reached'
    <3> SUFFICES ASSUME NEW q \in Ptr, entry'[q] # NULL
                 PROVE  \E b \in Bucket : \E i \in 1 .. Len(chain'[b]) : chain'[b][i] = q
      BY DEF Reached
    <3>1. q # p /\ entry[q] # NULL
      BY <2>6
    <3>2. PICK b \in Bucket : \E i \in 1 .. Len(chain[b]) : chain[b][i] = q
      BY <3>1 DEF CacheInv, Reached
    <3>3. PICK i \in 1 .. Len(chain[b]) : chain[b][i] = q
      BY <3>2
    <3>4. CASE b = g
      <4>1. i # m
        BY <2>8, <3>1, <3>3, <3>4
      <4>2. CASE i < m
        <5>1. i \in 1 .. Len(r) /\ r[i] = chain[g][i]
          BY <2>2, <2>4, <3>4, <4>2
        <5> QED
          BY <2>5, <3>3, <3>4, <5>1
      <4>3. CASE m < i
        <5>1. i - 1 \in 1 .. Len(r) /\ ~(i - 1 < m) /\ (i - 1) + 1 = i
          BY <2>2, <2>4, <3>4, <4>3
        <5>2. r[i - 1] = chain[g][i]
          BY <2>4, <5>1
        <5> QED
          BY <2>5, <3>3, <3>4, <5>1, <5>2
      <4> QED
        BY <4>1, <4>2, <4>3
    <3>5. CASE b # g
      BY <2>5, <3>3, <3>5
    <3> QED
      BY <3>4, <3>5
  <2>13. Unshared'
    <3> SUFFICES ASSUME NEW b \in Bucket, NEW c \in Bucket,
                        NEW i \in 1 .. Len(chain'[b]), NEW j \in 1 .. Len(chain'[c]),
                        chain'[b][i] = chain'[c][j]
                 PROVE  b = c /\ i = j
      BY DEF Unshared
    <3>1. PICK k \in 1 .. Len(chain[b]) :
            chain'[b][i] = chain[b][k] /\ k = IF b = g /\ ~(i < m) THEN i + 1 ELSE i
      BY <2>10
    <3>2. PICK l \in 1 .. Len(chain[c]) :
            chain'[c][j] = chain[c][l] /\ l = IF c = g /\ ~(j < m) THEN j + 1 ELSE j
      BY <2>10
    <3>3. chain[b][k] = chain[c][l]
      BY <3>1, <3>2
    <3>4. b = c /\ k = l
      BY <3>3 DEF CacheInv, Unshared
    <3> QED
      BY <3>1, <3>2, <3>4
  <2>14. Hashed'
    <3> SUFFICES ASSUME NEW b \in Bucket, NEW i \in 1 .. Len(chain'[b]),
                        entry'[chain'[b][i]].key # NULL
                 PROVE  Hash[entry'[chain'[b][i]].key] = b
      BY DEF Hashed
    <3>1. PICK k \in 1 .. Len(chain[b]) :
            chain'[b][i] = chain[b][k] /\ chain[b][k] \in Ptr /\ chain[b][k] # p
      BY <2>10
    <3> QED
      BY <2>6, <3>1 DEF CacheInv, Hashed
  <2>15. Counted'
    BY <2>1, <2>3, <2>7, LiveFinite DEF CacheInv, Counted, Live
  <2>16. BlocksOwned'
    BY <2>1, <2>6, <2>7 DEF CacheInv, BlocksOwned, Live
  <2> QED
    BY <2>9, <2>11, <2>12, <2>13, <2>14, <2>15, <2>16 DEF CacheInv
<1> QED
  BY <1>1, <1>2

\* A search changes nothing.
LEMMA LookupInv ==
  ASSUME CacheInv, NEW b \in Bucket, NEW n, NEW ret, Lookup(b, n, ret)
  PROVE  /\ CacheInv' /\ UNCHANGED <<chain, entry, blocks, count>>
         /\ ret \in Ptr \cup {NULL} /\ (ret # NULL => entry[ret] # NULL)
<1>1. UNCHANGED <<chain, entry, blocks, count>>
  BY DEF Lookup, Crash, cacheVars
<1>2. CASE ret = NULL
  BY <1>1, <1>2, CrashInv
<1>3. CASE ret # NULL
  <2>1. Stops(b, n) # {} /\ ret = chain[b][FirstStop(b, n)]
    BY <1>3 DEF Lookup, Found
  <2>2. FirstStop(b, n) \in 1 .. Len(chain[b])
    BY <2>1, FirstStopIs DEF CacheInv
  <2>3. chain[b] \in Seq(Ptr)
    BY DEF CacheInv, CacheTypes
  <2>4. ret \in Ptr
    BY <2>1, <2>2, <2>3, ElementOfSeq
  <2>5. entry[ret] # NULL
    BY <2>1, <2>2 DEF CacheInv, Linked
  <2> QED
    BY <1>1, <2>4, <2>5, CrashInv
<1> QED
  BY <1>2, <1>3

\* GET of the pipe and of TCP.
LEMMA CacheGetInv ==
  ASSUME CacheInv, NEW n \in Name, NEW ret, CacheGet(n, ret) \/ CacheGetRaw(n, ret)
  PROVE  /\ CacheInv' /\ UNCHANGED <<chain, entry, blocks, count>>
         /\ ret \in Ptr \cup {NULL} /\ (ret # NULL => entry[ret] # NULL)
<1>1. CASE NotNormalized(n, ret)
  BY <1>1, CrashInv DEF NotNormalized, Crash, cacheVars
<1>2. CASE \E q \in Query(n) : Lookup(q.bucket, q.name, ret)
  <2>1. PICK q \in Query(n) : Lookup(q.bucket, q.name, ret)
    BY <1>2
  <2>2. q.bucket \in Bucket
    BY DEF Query
  <2> QED
    BY <2>1, <2>2, LookupInv
<1>3. CASE CacheGetRaw(n, ret)
  <2>1. Hash[n] \in Bucket
    BY CacheAssumption
  <2> QED
    BY <1>3, <2>1, LookupInv DEF CacheGetRaw
<1> QED
  BY <1>1, <1>2, <1>3 DEF CacheGet

\* DEL, whatever the name was normalised to.
LEMMA CacheDelInv ==
  ASSUME CacheInv, NEW n \in Name, CacheDel(n)
  PROVE  CacheInv'
<1>1. CASE NotNormalized(n, NULL)
  BY <1>1, CrashInv DEF NotNormalized, Crash, cacheVars
<1>2. CASE ~NotNormalized(n, NULL)
  <2>1. PICK q \in Query(n) :
          \/ Lookup(q.bucket, q.name, NULL)
          \/ Found(q.bucket, q.name) /\ Unlink(q.bucket, FirstStop(q.bucket, q.name))
    BY <1>2 DEF CacheDel
  <2>2. q.bucket \in Bucket
    BY DEF Query
  <2>3. CASE Lookup(q.bucket, q.name, NULL)
    BY <2>2, <2>3, LookupInv
  <2>4. CASE Found(q.bucket, q.name) /\ Unlink(q.bucket, FirstStop(q.bucket, q.name))
    <3>1. FirstStop(q.bucket, q.name) \in 1 .. Len(chain[q.bucket])
      BY <2>2, <2>4, FirstStopIs DEF CacheInv, Found
    <3> QED
      BY <2>2, <2>4, <3>1, UnlinkInv
  <2> QED
    BY <2>1, <2>3, <2>4
<1> QED
  BY <1>1, <1>2

-----------------------------------------------------------------------------
(* The values under a name.                                                *)

\* f lists the numbers of W from the least to the greatest.
Lists(f, m, W) ==
  /\ m \in Nat
  /\ f \in [1 .. m -> W]
  /\ \A i, j \in 1 .. m : i < j => f[i] < f[j]
  /\ \A w \in W : \E i \in 1 .. m : f[i] = w

\* Any set of places of a chain can be listed: a least number up to which some set
\* cannot be, does not exist.
LEMMA ListExists ==
  ASSUME NEW L \in Nat, NEW W \in SUBSET (1 .. L)
  PROVE  \E m \in Nat : \E f \in [1 .. m -> W] : Lists(f, m, W)
<1> DEFINE Bad == {k \in Nat : \E X \in SUBSET (1 .. k) :
                     ~\E m \in Nat : \E f \in [1 .. m -> X] : Lists(f, m, X)}
<1> SUFFICES Bad = {}
  OBVIOUS
<1> SUFFICES ASSUME Bad # {} PROVE FALSE
  OBVIOUS
<1>1. PICK k \in Bad : \A j \in Bad : k <= j
  <2>1. Bad \in SUBSET Nat
    OBVIOUS
  <2> HIDE DEF Bad
  <2> QED
    BY <2>1, LeastIs
<1>2. PICK X \in SUBSET (1 .. k) : ~\E m \in Nat : \E f \in [1 .. m -> X] : Lists(f, m, X)
  OBVIOUS
<1>3. k \in Nat /\ X \subseteq 1 .. k
  OBVIOUS
<1>3a. Bad \subseteq Nat
  OBVIOUS
<1> HIDE DEF Bad
<1>4. k # 0
  <2> SUFFICES ASSUME k = 0 PROVE FALSE
    OBVIOUS
  <2>1. X = {}
    BY <1>3
  <2> DEFINE g == [i \in 1 .. 0 |-> 0]
  <2>2. g \in [1 .. 0 -> X] /\ Lists(g, 0, X)
    BY <2>1 DEF Lists
  <2> QED
    BY <1>2, <2>2
<1>5. k - 1 \in Nat /\ k - 1 \notin Bad
  <2>1. k - 1 \in Nat /\ ~(k <= k - 1)
    BY <1>3, <1>4
  <2> QED
    BY <1>1, <2>1
<1> DEFINE Y == X \ {k}
<1>6. Y \in SUBSET (1 .. k - 1)
  BY <1>3
<1>7. PICK m \in Nat : \E f \in [1 .. m -> Y] : Lists(f, m, Y)
  BY <1>5, <1>6 DEF Bad
<1>8. PICK f \in [1 .. m -> Y] : Lists(f, m, Y)
  BY <1>7
<1>9. CASE k \notin X
  <2>1. Y = X
    BY <1>9
  <2> QED
    BY <1>2, <1>8, <2>1
<1>10. CASE k \in X
  <2> DEFINE g == [i \in 1 .. m + 1 |-> IF i = m + 1 THEN k ELSE f[i]]
  <2>1. g \in [1 .. m + 1 -> X]
    BY <1>10
  <2>2. \A i, j \in 1 .. m + 1 : i < j => g[i] < g[j]
    <3> SUFFICES ASSUME NEW i \in 1 .. m + 1, NEW j \in 1 .. m + 1, i < j
                 PROVE  g[i] < g[j]
      OBVIOUS
    <3>1. i \in 1 .. m /\ f[i] \in 1 .. k - 1 /\ g[i] = f[i]
      BY <1>6
    <3>2. CASE j = m + 1
      BY <1>3, <3>1, <3>2
    <3>3. CASE j # m + 1
      <4>1. j \in 1 .. m /\ g[j] = f[j]
        BY <3>3
      <4> QED
        BY <1>8, <3>1, <4>1 DEF Lists
    <3> QED
      BY <3>2, <3>3
  <2>3. \A w \in X : \E i \in 1 .. m + 1 : g[i] = w
    <3> SUFFICES ASSUME NEW w \in X PROVE \E i \in 1 .. m + 1 : g[i] = w
      OBVIOUS
    <3>1. CASE w = k
      BY <3>1
    <3>2. CASE w # k
      <4>1. PICK i \in 1 .. m : f[i] = w
        BY <1>8, <3>2 DEF Lists
      <4>2. i \in 1 .. m + 1 /\ i # m + 1
        OBVIOUS
      <4>3. g[i] = w
        BY <4>1, <4>2
      <4> QED
        BY <4>2, <4>3
    <3> QED
      BY <3>1, <3>2
  <2> HIDE DEF g
  <2>4. Lists(g, m + 1, X) /\ m + 1 \in Nat
    BY <2>1, <2>2, <2>3 DEF Lists
  <2> QED
    BY <1>2, <2>1, <2>4
<1> QED
  BY <1>9, <1>10

\* Up to the k-th number of a listed set there are k of its numbers.
LEMMA ListCounts ==
  ASSUME NEW L \in Nat, NEW W \in SUBSET (1 .. L), NEW m, NEW f, Lists(f, m, W)
  PROVE  /\ Cardinality(W) = m
         /\ \A k \in 1 .. m : \A i \in W :
              Cardinality({j \in W : j <= i}) = k <=> i = f[k]
<1>1. m \in Nat /\ f \in [1 .. m -> W] /\ \A i \in W : i \in Nat
  BY DEF Lists
<1>a. \A k \in 1 .. m : k \in Nat /\ f[k] \in W /\ f[k] \in Nat
  <2> SUFFICES ASSUME NEW k \in 1 .. m PROVE k \in Nat /\ f[k] \in W /\ f[k] \in Nat
    OBVIOUS
  <2>1. k \in Nat
    BY <1>1
  <2>2. f[k] \in W
    BY <1>1, Zenon
  <2> QED
    BY <1>1, <2>1, <2>2
<1>2. ASSUME NEW k \in 0 .. m PROVE
        /\ IsFiniteSet({f[j] : j \in 1 .. k})
        /\ Cardinality({f[j] : j \in 1 .. k}) = k
  <2> DEFINE g == [j \in 1 .. k |-> f[j]]
             T == {f[j] : j \in 1 .. k}
  <2>1. k \in Nat /\ \A i \in 1 .. k : i \in 1 .. m
    BY <1>1
  <2>2. g \in Bijection(1 .. k, T)
    <3>1. g \in [1 .. k -> T]
      OBVIOUS
    <3>2. \A i, j \in 1 .. k : g[i] = g[j] => i = j
      <4> SUFFICES ASSUME NEW i \in 1 .. k, NEW j \in 1 .. k, f[i] = f[j] PROVE i = j
        OBVIOUS
      <4>1. i \in 1 .. m /\ j \in 1 .. m /\ f[i] \in Nat /\ f[j] \in Nat
        BY <1>1, <2>1
      <4>2. ~(i < j) /\ ~(j < i)
        BY <4>1 DEF Lists
      <4> QED
        BY <4>1, <4>2
    <3>3. \A t \in T : \E i \in 1 .. k : g[i] = t
      OBVIOUS
    <3> HIDE DEF g, T
    <3> QED
      BY <3>1, <3>2, <3>3 DEF Bijection, Injection, IsInjective, Surjection
  <2>3. IsFiniteSet(1 .. k) /\ Cardinality(1 .. k) = k
    <3>1. 1 \in Int /\ k \in Int
      BY <2>1
    <3>2. IsFiniteSet(1 .. k) /\ Cardinality(1 .. k) = IF 1 > k THEN 0 ELSE k - 1 + 1
      BY <3>1, FS_Interval, Zenon
    <3> QED
      BY <2>1, <3>2
  <2> HIDE DEF g, T
  <2>4. IsFiniteSet(T) /\ Cardinality(T) = Cardinality(1 .. k)
    BY <2>2, <2>3, FS_Bijection DEF ExistsBijection
  <2> QED
    BY <2>3, <2>4 DEF T
<1>3. W = {f[j] : j \in 1 .. m}
  BY <1>1 DEF Lists
<1>4. ASSUME NEW k \in 1 .. m PROVE {j \in W : j <= f[k]} = {f[j] : j \in 1 .. k}
  <2>1. ASSUME NEW j \in 1 .. m PROVE f[j] <= f[k] <=> j <= k
    <3>1. f[j] \in Nat /\ f[k] \in Nat /\ j \in Nat /\ k \in Nat
      BY <1>a
    <3>2. CASE j < k
      BY <3>1, <3>2 DEF Lists
    <3>3. CASE j = k
      BY <3>1, <3>3
    <3>4. CASE k < j
      BY <3>1, <3>4 DEF Lists
    <3> QED
      BY <3>1, <3>2, <3>3, <3>4
  <2>2. ASSUME NEW w \in W, w <= f[k] PROVE w \in {f[j] : j \in 1 .. k}
    <3>1. PICK j \in 1 .. m : f[j] = w
      BY DEF Lists
    <3>2. j \in 1 .. k
      BY <1>1, <2>1, <2>2, <3>1
    <3> QED
      BY <3>1, <3>2
  <2>3. ASSUME NEW j \in 1 .. k PROVE f[j] \in W /\ f[j] <= f[k]
    <3>1. j \in 1 .. m /\ j <= k
      BY <1>1
    <3> QED
      BY <1>1, <2>1, <3>1
  <2> QED
    BY <2>2, <2>3
<1>5. Cardinality(W) = m
  <2>1. m \in 0 .. m
    BY <1>1
  <2> QED
    BY <1>2, <1>3, <2>1, Zenon
<1>6. ASSUME NEW k \in 1 .. m, NEW i \in W
      PROVE  Cardinality({j \in W : j <= i}) = k <=> i = f[k]
  <2>1. PICK l \in 1 .. m : f[l] = i
    BY DEF Lists
  <2>2. Cardinality({j \in W : j <= i}) = l
    <3>1. {j \in W : j <= i} = {f[j] : j \in 1 .. l}
      BY <1>4, <2>1, Zenon
    <3>2. l \in 0 .. m
      BY <1>1
    <3> QED
      BY <1>2, <3>1, <3>2, Zenon
  <2>3. i = f[k] => l = k
    <3> SUFFICES ASSUME f[l] = f[k] PROVE l = k
      BY <2>1
    <3>1. f[l] \in Nat /\ f[k] \in Nat /\ l \in Nat /\ k \in Nat
      BY <1>a
    <3>2. ~(l < k) /\ ~(k < l)
      BY <3>1 DEF Lists
    <3> QED
      BY <3>1, <3>2
  <2> QED
    BY <2>1, <2>2, <2>3
<1> QED
  BY <1>5, <1>6

\* So the values of a name are those at the places that are listed, before a step and
\* after it.
LEMMA ValuesAre ==
  ASSUME NEW n \in Name, NEW m, NEW f
  PROVE  /\ CacheTypes /\ Lists(f, m, Where(n)) =>
              Values(n) = [k \in 1 .. m |-> entry[chain[Hash[n]][f[k]]].len]
         /\ CacheTypes' /\ Lists(f, m, Where(n)') =>
              Values(n)' = [k \in 1 .. m |-> entry'[chain'[Hash[n]][f[k]]].len]
<1>1. Hash[n] \in Bucket
  BY CacheAssumption
<1>2. ASSUME NEW W, NEW L \in Nat, W \in SUBSET (1 .. L), Lists(f, m, W)
      PROVE  /\ Cardinality(W) = m
             /\ \A k \in 1 .. m : (CHOOSE i \in W : Cardinality({j \in W : j <= i}) = k) = f[k]
  <2>1. /\ Cardinality(W) = m
        /\ \A k \in 1 .. m : \A i \in W : Cardinality({j \in W : j <= i}) = k <=> i = f[k]
    BY <1>2, ListCounts
  <2>2. \A k \in 1 .. m : f[k] \in W
    BY <1>2 DEF Lists
  <2> QED
    BY <2>1, <2>2
<1>3. ASSUME CacheTypes, Lists(f, m, Where(n))
      PROVE  Values(n) = [k \in 1 .. m |-> entry[chain[Hash[n]][f[k]]].len]
  <2>1. Len(chain[Hash[n]]) \in Nat /\ Where(n) \in SUBSET (1 .. Len(chain[Hash[n]]))
    BY <1>1, <1>3 DEF CacheTypes, Where
  <2>2. Cardinality(Where(n)) = m /\ \A k \in 1 .. m : Nth(n, k) = f[k]
    BY <1>2, <1>3, <2>1, Zenon DEF Nth
  <2> QED
    BY <2>2 DEF Values
<1>4. ASSUME CacheTypes', Lists(f, m, Where(n)')
      PROVE  Values(n)' = [k \in 1 .. m |-> entry'[chain'[Hash[n]][f[k]]].len]
  <2>1. Len(chain'[Hash[n]]) \in Nat /\ Where(n)' \in SUBSET (1 .. Len(chain'[Hash[n]]))
    BY <1>1, <1>4 DEF CacheTypes, Where
  <2>2. Cardinality(Where(n)') = m /\ \A k \in 1 .. m : Nth(n, k)' = f[k]
    BY <1>2, <1>4, <2>1, Zenon DEF Nth
  <2> QED
    BY <2>2 DEF Values
<1> QED
  BY <1>3, <1>4

\* A sequence with a value put before it, as a function.
LEMMA PrependedIs ==
  ASSUME NEW S, NEW v \in S, NEW m \in Nat, NEW s \in Seq(S), Len(s) = m
  PROVE  [k \in 1 .. m + 1 |-> IF k = 1 THEN v ELSE s[k - 1]] = <<v>> \o s
<1> DEFINE r == [k \in 1 .. m + 1 |-> IF k = 1 THEN v ELSE s[k - 1]]
<1>1. <<v>> \in Seq(S) /\ Len(<<v>>) = 1 /\ <<v>>[1] = v
  OBVIOUS
<1>2. /\ <<v>> \o s \in Seq(S) /\ Len(<<v>> \o s) = m + 1
      /\ \A k \in 1 .. m + 1 : (<<v>> \o s)[k] = IF k <= 1 THEN <<v>>[k] ELSE s[k - 1]
  BY <1>1, ConcatProperties
<1>3. \A k \in 1 .. m + 1 : r[k] = (<<v>> \o s)[k]
  BY <1>1, <1>2
<1>4. <<v>> \o s = [k \in 1 .. m + 1 |-> (<<v>> \o s)[k]]
  BY <1>2
<1> QED
  BY <1>3, <1>4

\* Values that are as many, place by place, are the same.
LEMMA ValuesStay ==
  ASSUME CacheTypes, CacheTypes', NEW n \in Name, NEW m, NEW f, NEW g,
         Lists(f, m, Where(n)), Lists(g, m, Where(n)'),
         \A k \in 1 .. m : entry'[chain'[Hash[n]][g[k]]].len = entry[chain[Hash[n]][f[k]]].len
  PROVE  Values(n)' = Values(n)
<1>1. Values(n) = [k \in 1 .. m |-> entry[chain[Hash[n]][f[k]]].len]
  BY ValuesAre
<1>2. Values(n)' = [k \in 1 .. m |-> entry'[chain'[Hash[n]][g[k]]].len]
  BY ValuesAre
<1> QED
  BY <1>1, <1>2

\* Chains and entries that stay keep their values.
LEMMA SameValues ==
  ASSUME UNCHANGED <<chain, entry>>
  PROVE  \A x \in Name : Values(x)' = Values(x)
<1> SUFFICES ASSUME NEW x \in Name PROVE Values(x)' = Values(x)
  OBVIOUS
<1>1. chain' = chain /\ entry' = entry
  OBVIOUS
<1>2. Where(x)' = Where(x)
  BY <1>1, Zenon DEF Where
<1>3. \A k : Nth(x, k)' = Nth(x, k)
  BY <1>2, Zenon DEF Nth
<1> QED
  BY <1>1, <1>2, <1>3, Zenon DEF Values

\* SET puts its value before those of its name, if there was memory for the key, and
\* leaves the other names alone (CacheInsertEmpty).
LEMMA InsertStores ==
  ASSUME CacheInv, CacheTypes', NEW n \in Name, NEW p \in Ptr, NEW len \in Arg,
         Insert(n, p, len)
  PROVE  /\ \A x \in Name \ {n} : Values(x)' = Values(x)
         /\ \/ Values(n)' = Values(n)
            \/ Values(n)' = <<len>> \o Values(n)
<1> DEFINE h == Hash[n]
<1>1. PICK key \in {n, NULL} : entry' = [entry EXCEPT ![p] = [key |-> key, len |-> len]]
  BY DEF Insert
<1>2. h \in Bucket /\ chain[h] \in Seq(Ptr) /\ Len(chain[h]) \in Nat
  BY CacheAssumption DEF CacheInv, CacheTypes
<1>3. entry[p] = NULL /\ chain' = [chain EXCEPT ![h] = <<p>> \o chain[h]]
  BY DEF Insert, LinkFirst
<1>4. /\ entry'[p].key = key /\ entry'[p].len = len
      /\ \A q \in Ptr : q # p => entry'[q] = entry[q]
  BY <1>1 DEF CacheInv, CacheTypes
<1>5. /\ Len(chain'[h]) = Len(chain[h]) + 1 /\ chain'[h][1] = p
      /\ \A i \in 1 .. Len(chain[h]) : chain'[h][i + 1] = chain[h][i]
      /\ \A b \in Bucket : b # h => chain'[b] = chain[b]
  <2>1. chain'[h] = <<p>> \o chain[h] /\ \A b \in Bucket : b # h => chain'[b] = chain[b]
    BY <1>2, <1>3 DEF CacheInv, CacheTypes
  <2> QED
    BY <1>2, <2>1, Prepended
<1>6. \A b \in Bucket : \A i \in 1 .. Len(chain[b]) :
        entry'[chain[b][i]] = entry[chain[b][i]]
  <2> SUFFICES ASSUME NEW b \in Bucket, NEW i \in 1 .. Len(chain[b])
               PROVE  entry'[chain[b][i]] = entry[chain[b][i]]
    OBVIOUS
  <2>1. chain[b] \in Seq(Ptr)
    BY DEF CacheInv, CacheTypes
  <2>2. chain[b][i] \in Ptr /\ chain[b][i] # p
    BY <1>3, <2>1, ElementOfSeq DEF CacheInv, Linked
  <2> QED
    BY <1>4, <2>2
<1> HIDE DEF h
<1>7. ASSUME NEW x \in Name
      PROVE  IF Hash[x] = h /\ key = x THEN Values(x)' = <<len>> \o Values(x)
             ELSE Values(x)' = Values(x)
  <2>1. Hash[x] \in Bucket /\ Len(chain[Hash[x]]) \in Nat
    BY CacheAssumption DEF CacheInv, CacheTypes
  <2>2. PICK m \in Nat : \E f \in [1 .. m -> Where(x)] : Lists(f, m, Where(x))
    BY <2>1, ListExists DEF Where
  <2>3. PICK f \in [1 .. m -> Where(x)] : Lists(f, m, Where(x))
    BY <2>2
  <2>4. \A k \in 1 .. m : f[k] \in 1 .. Len(chain[Hash[x]]) /\ entry[chain[Hash[x]][f[k]]].key = x
    BY DEF Where
  <2>5. CASE Hash[x] # h
    <3>1. Where(x)' = Where(x)
      BY <1>5, <1>6, <2>1, <2>5 DEF Where
    <3>2. \A k \in 1 .. m : entry'[chain'[Hash[x]][f[k]]] = entry[chain[Hash[x]][f[k]]]
      BY <1>5, <1>6, <2>1, <2>4, <2>5
    <3> QED
      BY <2>3, <2>5, <3>1, <3>2, ValuesStay DEF CacheInv
  <2>6. CASE Hash[x] = h /\ key # x
    <3> DEFINE g == [k \in 1 .. m |-> f[k] + 1]
    <3>1. Where(x)' = {i + 1 : i \in Where(x)}
      <4>1. ASSUME NEW i \in 1 .. Len(chain'[h]), entry'[chain'[h][i]].key = x
            PROVE  \E j \in Where(x) : i = j + 1
        <5>1. i # 1
          BY <1>4, <1>5, <2>6, <4>1
        <5>2. i - 1 \in 1 .. Len(chain[h]) /\ i = (i - 1) + 1
          BY <1>2, <1>5, <5>1
        <5>3. chain'[h][i] = chain[h][i - 1]
          BY <1>5, <5>2
        <5>4. i - 1 \in Where(x)
          BY <1>2, <1>6, <2>6, <4>1, <5>2, <5>3 DEF Where
        <5> QED
          BY <5>2, <5>4
      <4>2. ASSUME NEW j \in Where(x)
            PROVE  j + 1 \in 1 .. Len(chain'[h]) /\ entry'[chain'[h][j + 1]].key = x
        <5>1. j \in 1 .. Len(chain[h]) /\ entry[chain[h][j]].key = x
          BY <2>6 DEF Where
        <5> QED
          BY <1>2, <1>5, <1>6, <5>1
      <4> QED
        BY <2>6, <4>1, <4>2 DEF Where
    <3>2. Lists(g, m, Where(x)')
      <4>1. g \in [1 .. m -> Where(x)']
        BY <3>1
      <4>2. \A i, j \in 1 .. m : i < j => g[i] < g[j]
        BY <2>3, <2>4 DEF Lists
      <4>3. \A w \in Where(x)' : \E i \in 1 .. m : g[i] = w
        BY <2>3, <3>1 DEF Lists
      <4> HIDE DEF g
      <4> QED
        BY <4>1, <4>2, <4>3 DEF Lists
    <3>3. \A k \in 1 .. m : entry'[chain'[h][g[k]]] = entry[chain[h][f[k]]]
      BY <1>2, <1>5, <1>6, <2>4, <2>6
    <3> HIDE DEF g
    <3> QED
      BY <2>3, <2>6, <3>2, <3>3, ValuesStay DEF CacheInv
  <2>7. CASE Hash[x] = h /\ key = x
    <3> DEFINE g == [k \in 1 .. m + 1 |-> IF k = 1 THEN 1 ELSE f[k - 1] + 1]
    <3>1. Where(x)' = {1} \cup {i + 1 : i \in Where(x)}
      <4>1. ASSUME NEW i \in 1 .. Len(chain'[h]), entry'[chain'[h][i]].key = x, i # 1
            PROVE  \E j \in Where(x) : i = j + 1
        <5>2. i - 1 \in 1 .. Len(chain[h]) /\ i = (i - 1) + 1
          BY <1>2, <1>5, <4>1
        <5>3. chain'[h][i] = chain[h][i - 1]
          BY <1>5, <5>2
        <5>4. i - 1 \in Where(x)
          BY <1>2, <1>6, <2>7, <4>1, <5>2, <5>3 DEF Where
        <5> QED
          BY <5>2, <5>4
      <4>2. ASSUME NEW j \in Where(x)
            PROVE  j + 1 \in 1 .. Len(chain'[h]) /\ entry'[chain'[h][j + 1]].key = x
        <5>1. j \in 1 .. Len(chain[h]) /\ entry[chain[h][j]].key = x
          BY <2>7 DEF Where
        <5> QED
          BY <1>2, <1>5, <1>6, <5>1
      <4>3. 1 \in 1 .. Len(chain'[h]) /\ entry'[chain'[h][1]].key = x
        BY <1>2, <1>4, <1>5, <2>7
      <4> QED
        BY <2>7, <4>1, <4>2, <4>3 DEF Where
    <3>2. Lists(g, m + 1, Where(x)')
      <4>1. g \in [1 .. m + 1 -> Where(x)']
        <5> SUFFICES ASSUME NEW k \in 1 .. m + 1, k # 1 PROVE f[k - 1] + 1 \in Where(x)'
          BY <3>1
        <5>1. k - 1 \in 1 .. m
          OBVIOUS
        <5> QED
          BY <3>1, <5>1
      <4>2. \A i, j \in 1 .. m + 1 : i < j => g[i] < g[j]
        <5> SUFFICES ASSUME NEW i \in 1 .. m + 1, NEW j \in 1 .. m + 1, i < j
                     PROVE  g[i] < g[j]
          OBVIOUS
        <5>1. j - 1 \in 1 .. m /\ g[j] = f[j - 1] + 1 /\ f[j - 1] \in Nat /\ f[j - 1] >= 1
          BY <2>4
        <5>2. CASE i = 1
          BY <5>1, <5>2
        <5>3. CASE i # 1
          <6>1. i - 1 \in 1 .. m /\ i - 1 < j - 1 /\ g[i] = f[i - 1] + 1 /\ f[i - 1] \in Nat
            BY <2>4, <5>3
          <6>2. f[i - 1] < f[j - 1]
            BY <2>3, <5>1, <6>1 DEF Lists
          <6> QED
            BY <5>1, <6>1, <6>2
        <5> QED
          BY <5>2, <5>3
      <4>3. \A w \in Where(x)' : \E i \in 1 .. m + 1 : g[i] = w
        <5> SUFFICES ASSUME NEW w \in Where(x)' PROVE \E i \in 1 .. m + 1 : g[i] = w
          OBVIOUS
        <5>1. CASE w = 1
          BY <5>1
        <5>2. CASE w # 1
          <6>1. PICK i \in Where(x) : w = i + 1
            BY <3>1, <5>2
          <6>2. PICK k \in 1 .. m : f[k] = i
            BY <2>3 DEF Lists
          <6>3. k + 1 \in 1 .. m + 1 /\ k + 1 # 1 /\ (k + 1) - 1 = k
            OBVIOUS
          <6> QED
            BY <6>1, <6>2, <6>3
        <5> QED
          BY <5>1, <5>2
      <4> HIDE DEF g
      <4> QED
        BY <4>1, <4>2, <4>3 DEF Lists
    <3>3. \A k \in 1 .. m : k + 1 \in 1 .. m + 1 /\ entry'[chain'[h][g[k + 1]]] = entry[chain[h][f[k]]]
      <4> SUFFICES ASSUME NEW k \in 1 .. m
                   PROVE  k + 1 \in 1 .. m + 1 /\ entry'[chain'[h][g[k + 1]]] = entry[chain[h][f[k]]]
        OBVIOUS
      <4>1. k + 1 \in 1 .. m + 1 /\ k + 1 # 1 /\ (k + 1) - 1 = k
        OBVIOUS
      <4>2. g[k + 1] = f[k] + 1
        BY <4>1
      <4>3. f[k] \in 1 .. Len(chain[h])
        BY <2>4, <2>7
      <4> QED
        <5>1. chain'[h][f[k] + 1] = chain[h][f[k]]
          BY <1>5, <4>3
        <5>2. entry'[chain[h][f[k]]] = entry[chain[h][f[k]]]
          BY <1>2, <1>6, <4>3
        <5> HIDE DEF g
        <5> QED
          BY <4>1, <4>2, <5>1, <5>2
    <3>4. g[1] = 1 /\ entry'[chain'[h][g[1]]].len = len
      BY <1>4, <1>5
    <3> HIDE DEF g
    <3>5. Values(x)' = [k \in 1 .. m + 1 |-> entry'[chain'[h][g[k]]].len]
      BY <2>7, <3>2, ValuesAre
    <3>6. Values(x) = [k \in 1 .. m |-> entry[chain[h][f[k]]].len]
      BY <2>3, <2>7, ValuesAre DEF CacheInv
    <3> DEFINE new == Values(x)'
               old == Values(x)
    <3>7. \A k \in 1 .. m : old[k] \in Arg
      <4> SUFFICES ASSUME NEW k \in 1 .. m PROVE entry[chain[h][f[k]]].len \in Arg
        BY <3>6
      <4>1. f[k] \in 1 .. Len(chain[h])
        BY <2>4, <2>7
      <4>2. chain[h][f[k]] \in Ptr /\ entry[chain[h][f[k]]] # NULL
        BY <1>2, <4>1, ElementOfSeq DEF CacheInv, Linked
      <4> QED
        BY <4>2 DEF CacheInv, CacheTypes, Entry
    <3>8. old \in Seq(Arg) /\ Len(old) = m
      BY <3>6, <3>7
    <3>9. new = [k \in 1 .. m + 1 |-> IF k = 1 THEN len ELSE old[k - 1]]
      <4>1. ASSUME NEW k \in 1 .. m + 1, k # 1
            PROVE  entry'[chain'[h][g[k]]].len = old[k - 1]
        <5>1. k - 1 \in 1 .. m /\ (k - 1) + 1 = k
          BY <4>1
        <5>2. entry'[chain'[h][g[k]]] = entry[chain[h][f[k - 1]]]
          BY <3>3, <5>1
        <5> QED
          BY <3>6, <5>1, <5>2
      <4> QED
        BY <3>4, <3>5, <4>1
    <3> HIDE DEF new, old
    <3>10. new = <<len>> \o old
      BY <3>8, <3>9, PrependedIs
    <3> QED
      BY <2>7, <3>10 DEF new, old
  <2> QED
    BY <2>5, <2>6, <2>7
<1> QED
  BY <1>7, NamesAssumption DEF h

LEMMA SeqIs ==
  ASSUME NEW S, NEW m \in Nat, NEW s, s = [k \in 1 .. m |-> s[k]], \A k \in 1 .. m : s[k] \in S
  PROVE  s \in Seq(S) /\ Len(s) = m
<1>1. s \in [1 .. m -> S]
  OBVIOUS
<1> QED
  BY <1>1

\* DEL takes the newest value of the name it was normalised to, wherever in the chain
\* its entry is, and leaves the other names alone (CacheDel).
LEMMA UnlinkRemoves ==
  ASSUME CacheInv, CacheTypes', NEW n \in Name, Found(Hash[n], n),
         Unlink(Hash[n], FirstStop(Hash[n], n))
  PROVE  \/ \A x \in Name : Values(x)' = Values(x)
         \/ /\ \A x \in Name \ {n} : Values(x)' = Values(x)
            /\ Values(n) # <<>> /\ Values(n)' = Tail(Values(n))
<1> DEFINE h == Hash[n]
           c == chain[h]
           d == FirstStop(h, n)
<1>1. CASE Crash("key")
  BY <1>1, SameValues DEF Crash
<1>2. CASE ~Crash("key")
  <2>1. h \in Bucket /\ c \in Seq(Ptr) /\ Len(c) \in Nat
    BY CacheAssumption DEF CacheInv, CacheTypes
  <2>2. /\ d \in 1 .. Len(c) /\ entry[c[d]].key = n
        /\ \A j \in 1 .. Len(c) : entry[c[j]].key = n => d <= j
    BY <2>1, FirstStopIs DEF CacheInv, Found, Stops
  <2> DEFINE r == SubSeq(c, 1, d - 1) \o SubSeq(c, d + 1, Len(c))
  <2>3. chain' = [chain EXCEPT ![h] = r] /\ entry' = [entry EXCEPT ![c[d]] = NULL]
    BY <1>2 DEF Unlink, free_entry
  <2>4. /\ Len(r) = Len(c) - 1
        /\ \A k \in 1 .. Len(r) : r[k] = c[IF k < d THEN k ELSE k + 1]
    BY <2>1, <2>2, Removed
  <2>5. chain'[h] = r /\ \A b \in Bucket : b # h => chain'[b] = chain[b]
    BY <2>1, <2>3 DEF CacheInv, CacheTypes
  <2>6. \A b \in Bucket : \A i \in 1 .. Len(chain[b]) :
          (b = h => i # d) => entry'[chain[b][i]] = entry[chain[b][i]]
    <3> SUFFICES ASSUME NEW b \in Bucket, NEW i \in 1 .. Len(chain[b]), b = h => i # d
                 PROVE  entry'[chain[b][i]] = entry[chain[b][i]]
      OBVIOUS
    <3>1. chain[b] \in Seq(Ptr)
      BY DEF CacheInv, CacheTypes
    <3>2. chain[b][i] \in Ptr /\ chain[b][i] # c[d]
      BY <2>1, <2>2, <3>1, ElementOfSeq DEF CacheInv, Unshared
    <3> QED
      BY <2>3, <3>2 DEF CacheInv, CacheTypes
  <2> HIDE DEF d, r
\* Where what was behind place j of the chain is found now.
  <2> DEFINE at(j) == IF j < d THEN j ELSE j - 1
  <2>7. ASSUME NEW j \in 1 .. Len(c), j # d
        PROVE  at(j) \in 1 .. Len(r) /\ r[at(j)] = c[j] /\ entry'[c[j]] = entry[c[j]]
    <3>1. at(j) \in 1 .. Len(r)
      BY <2>1, <2>2, <2>4, <2>7
    <3>2. j = IF at(j) < d THEN at(j) ELSE at(j) + 1
      BY <2>1, <2>2, <2>7
    <3>3. r[at(j)] = c[j]
      BY <2>4, <3>1, <3>2
    <3> QED
      BY <2>1, <2>6, <2>7, <3>1, <3>3
  <2>8. ASSUME NEW x \in Name, Hash[x] = h
        PROVE  Where(x)' = {at(j) : j \in Where(x) \ {d}}
    <3>1. ASSUME NEW i \in 1 .. Len(r), entry'[r[i]].key = x
          PROVE  \E j \in Where(x) \ {d} : i = at(j)
      <4> DEFINE j == IF i < d THEN i ELSE i + 1
      <4>1. j \in 1 .. Len(c) /\ j # d /\ i = at(j)
        BY <2>1, <2>2, <2>4
      <4>2. r[i] = c[j]
        BY <2>4
      <4> HIDE DEF j
      <4>3. entry[c[j]].key = x
        BY <2>7, <3>1, <4>1, <4>2
      <4> QED
        BY <2>8, <4>1, <4>3 DEF Where
    <3>2. ASSUME NEW j \in Where(x) \ {d}
          PROVE  at(j) \in 1 .. Len(r) /\ entry'[r[at(j)]].key = x
      <4>1. j \in 1 .. Len(c) /\ j # d /\ entry[c[j]].key = x
        BY <2>8 DEF Where
      <4> QED
        BY <2>7, <4>1
    <3>3. Where(x)' = {i \in 1 .. Len(r) : entry'[r[i]].key = x}
      BY <2>5, <2>8 DEF Where
    <3> HIDE DEF at
    <3> QED
      BY <3>1, <3>2, <3>3
  <2>9. ASSUME NEW x \in Name \ {n}
        PROVE  Values(x)' = Values(x)
    <3>1. Hash[x] \in Bucket /\ Len(chain[Hash[x]]) \in Nat
      BY CacheAssumption DEF CacheInv, CacheTypes
    <3>2. PICK m \in Nat : \E f \in [1 .. m -> Where(x)] : Lists(f, m, Where(x))
      BY <3>1, ListExists DEF Where
    <3>3. PICK f \in [1 .. m -> Where(x)] : Lists(f, m, Where(x))
      BY <3>2
    <3>4. \A k \in 1 .. m : f[k] \in 1 .. Len(chain[Hash[x]]) /\ entry[chain[Hash[x]][f[k]]].key = x
      BY DEF Where
    <3>5. CASE Hash[x] # h
      <4>1. Where(x)' = Where(x)
        BY <2>5, <2>6, <3>1, <3>5 DEF Where
      <4>2. \A k \in 1 .. m : entry'[chain'[Hash[x]][f[k]]] = entry[chain[Hash[x]][f[k]]]
        BY <2>5, <2>6, <3>1, <3>4, <3>5
      <4> QED
        BY <3>3, <3>5, <4>1, <4>2, ValuesStay DEF CacheInv
    <3>6. CASE Hash[x] = h
      <4> DEFINE g == [k \in 1 .. m |-> at(f[k])]
      <4>1. \A k \in 1 .. m : f[k] \in 1 .. Len(c) /\ f[k] # d
        BY <2>2, <3>4, <3>6
      <4>2. d \notin Where(x)
        BY <2>2, <3>6 DEF Where
      <4>3. Where(x)' = {at(j) : j \in Where(x)}
        BY <2>8, <3>6, <4>2, Zenon
      <4>4. \A i, j \in 1 .. m : i < j => g[i] < g[j]
        <5> SUFFICES ASSUME NEW i \in 1 .. m, NEW j \in 1 .. m, i < j
                     PROVE  at(f[i]) < at(f[j])
          OBVIOUS
        <5>1. f[i] < f[j]
          BY <3>3 DEF Lists
        <5> QED
          BY <2>1, <2>2, <4>1, <5>1
      <4>5. \A k \in 1 .. m : entry'[chain'[h][g[k]]] = entry[chain[h][f[k]]]
        BY <2>5, <2>7, <4>1
      <4> HIDE DEF at
      <4>6. g \in [1 .. m -> Where(x)']
        BY <4>3
      <4>7. \A w \in Where(x)' : \E i \in 1 .. m : g[i] = w
        BY <3>3, <4>3 DEF Lists
      <4> HIDE DEF g
      <4>8. Lists(g, m, Where(x)')
        BY <4>4, <4>6, <4>7 DEF Lists
      <4> QED
        BY <3>3, <3>6, <4>5, <4>8, ValuesStay DEF CacheInv
    <3> QED
      BY <3>5, <3>6
  <2>10. Values(n) # <<>> /\ Values(n)' = Tail(Values(n))
    <3>1. PICK m \in Nat : \E f \in [1 .. m -> Where(n)] : Lists(f, m, Where(n))
      BY <2>1, ListExists DEF Where
    <3>2. PICK f \in [1 .. m -> Where(n)] : Lists(f, m, Where(n))
      BY <3>1
    <3>3. \A k \in 1 .. m : f[k] \in 1 .. Len(c) /\ entry[c[f[k]]].key = n /\ d <= f[k]
      BY <2>2 DEF Where
    <3>4. d \in Where(n)
      BY <2>2 DEF Where
    <3>5. PICK e \in 1 .. m : f[e] = d
      BY <3>2, <3>4 DEF Lists
    <3>6. 1 \in 1 .. m /\ m - 1 \in Nat
      OBVIOUS
    <3>7. f[1] = d
      <4>1. CASE e = 1
        BY <3>5, <4>1
      <4>2. CASE e # 1
        <5>1. f[1] < f[e]
          BY <3>2, <3>6, <4>2 DEF Lists
        <5> QED
          BY <2>1, <2>2, <3>3, <3>5, <3>6, <5>1
      <4> QED
        BY <4>1, <4>2
    <3>8. \A k \in 1 .. m - 1 : /\ k + 1 \in 1 .. m /\ d < f[k + 1] /\ f[k + 1] \in 1 .. Len(c)
                                /\ at(f[k + 1]) = f[k + 1] - 1
      <4> SUFFICES ASSUME NEW k \in 1 .. m - 1
                   PROVE  /\ k + 1 \in 1 .. m /\ d < f[k + 1] /\ f[k + 1] \in 1 .. Len(c)
                          /\ at(f[k + 1]) = f[k + 1] - 1
        OBVIOUS
      <4>1. k + 1 \in 1 .. m /\ 1 < k + 1
        OBVIOUS
      <4>2. f[1] < f[k + 1]
        BY <3>2, <3>6, <4>1 DEF Lists
      <4>3. f[k + 1] \in 1 .. Len(c)
        BY <3>3, <4>1
      <4> QED
        BY <2>1, <2>2, <3>7, <4>1, <4>2, <4>3
    <3> DEFINE g == [k \in 1 .. m - 1 |-> at(f[k + 1])]
    <3>9. Where(n)' = {at(j) : j \in Where(n) \ {d}}
      BY <2>8
    <3>10. \A i, j \in 1 .. m - 1 : i < j => g[i] < g[j]
      <4> SUFFICES ASSUME NEW i \in 1 .. m - 1, NEW j \in 1 .. m - 1, i < j
                   PROVE  at(f[i + 1]) < at(f[j + 1])
        OBVIOUS
      <4>1. i + 1 \in 1 .. m /\ j + 1 \in 1 .. m /\ i + 1 < j + 1
        BY <3>8
      <4>2. f[i + 1] < f[j + 1]
        BY <3>2, <4>1 DEF Lists
      <4> QED
        BY <2>1, <3>8, <4>2
    <3>11. \A k \in 1 .. m - 1 : entry'[chain'[h][g[k]]] = entry[chain[h][f[k + 1]]]
      <4> SUFFICES ASSUME NEW k \in 1 .. m - 1
                   PROVE  entry'[chain'[h][at(f[k + 1])]] = entry[chain[h][f[k + 1]]]
        OBVIOUS
      <4>1. f[k + 1] \in 1 .. Len(c) /\ f[k + 1] # d
        <5>1. d < f[k + 1] /\ f[k + 1] \in 1 .. Len(c)
          BY <3>8
        <5> QED
          BY <2>1, <2>2, <5>1
      <4> QED
        BY <2>5, <2>7, <4>1
    <3> HIDE DEF at
    <3>12. g \in [1 .. m - 1 -> Where(n)']
      <4> SUFFICES ASSUME NEW k \in 1 .. m - 1 PROVE at(f[k + 1]) \in Where(n)'
        OBVIOUS
      <4>1. f[k + 1] \in Where(n) \ {d}
        BY <2>1, <2>2, <3>8
      <4> QED
        BY <3>9, <4>1
    <3>13. \A w \in Where(n)' : \E i \in 1 .. m - 1 : g[i] = w
      <4> SUFFICES ASSUME NEW w \in Where(n)' PROVE \E i \in 1 .. m - 1 : g[i] = w
        OBVIOUS
      <4>1. PICK j \in Where(n) \ {d} : w = at(j)
        BY <3>9
      <4>2. PICK k \in 1 .. m : f[k] = j
        BY <3>2 DEF Lists
      <4>3. k # 1
        BY <3>7, <4>1, <4>2
      <4>4. k - 1 \in 1 .. m - 1 /\ (k - 1) + 1 = k
        BY <4>3
      <4> QED
        BY <4>1, <4>2, <4>4
    <3> HIDE DEF g
    <3>14. Lists(g, m - 1, Where(n)')
      BY <3>6, <3>10, <3>12, <3>13 DEF Lists
    <3>15. Values(n)' = [k \in 1 .. m - 1 |-> entry'[chain'[h][g[k]]].len]
      BY <3>14, ValuesAre
    <3>16. Values(n) = [k \in 1 .. m |-> entry[chain[h][f[k]]].len]
      BY <3>2, ValuesAre DEF CacheInv
    <3> DEFINE old == Values(n)
    <3>17. Values(n)' = [k \in 1 .. m - 1 |-> old[k + 1]]
      <4>1. \A k \in 1 .. m - 1 : old[k + 1] = entry[chain[h][f[k + 1]]].len
        BY <3>8, <3>16
      <4> QED
        BY <3>11, <3>15, <4>1
    <3>18. old \in Seq({old[k] : k \in 1 .. m}) /\ Len(old) = m
      <4>1. old = [k \in 1 .. m |-> old[k]]
        BY <3>16
      <4> HIDE DEF old
      <4>2. \A k \in 1 .. m : old[k] \in {old[l] : l \in 1 .. m}
        OBVIOUS
      <4> QED
        BY <4>1, <4>2, SeqIs
    <3> HIDE DEF old
    <3>19. old # <<>> /\ Tail(old) = [k \in 1 .. m - 1 |-> old[k + 1]]
      <4> DEFINE T == {old[k] : k \in 1 .. m}
      <4> HIDE DEF T
      <4>1. old \in Seq(T) /\ Len(old) = m /\ m # 0
        BY <3>6, <3>18 DEF T
      <4>2. old # <<>>
        BY <4>1
      <4>3. /\ Tail(old) \in Seq(T) /\ Len(Tail(old)) = m - 1
            /\ \A k \in 1 .. m - 1 : Tail(old)[k] = old[k + 1]
        <5>1. /\ Tail(old) \in Seq(T) /\ Len(Tail(old)) = Len(old) - 1
              /\ \A k \in 1 .. Len(Tail(old)) : Tail(old)[k] = old[k + 1]
          BY <4>1, <4>2, HeadTailProperties, Zenon
        <5> QED
          BY <4>1, <5>1
      <4>4. Tail(old) = [k \in 1 .. m - 1 |-> Tail(old)[k]]
        <5> DEFINE u == Tail(old)
        <5>1. u \in Seq(T) /\ Len(u) = m - 1
          BY <4>3
        <5> HIDE DEF u
        <5>2. u = [k \in 1 .. Len(u) |-> u[k]]
          BY <5>1
        <5> QED
          BY <5>1, <5>2 DEF u
      <4> QED
        BY <4>2, <4>3, <4>4
    <3> QED
      BY <3>17, <3>19 DEF old
  <2> QED
    BY <2>9, <2>10
<1> QED
  BY <1>1, <1>2

\* A step that changes the values of one name only, by one stored or one removed, is a
\* step of the abstract cache.
LEMMA StepOfVersions ==
  ASSUME NEW n \in Name, \A x \in Name \ {n} : Values(x)' = Values(x),
         \/ Values(n)' = Values(n)
         \/ \E len \in Arg : Values(n)' = <<len>> \o Values(n)
         \/ Values(n) # <<>> /\ Values(n)' = Tail(Values(n))
  PROVE  [V!Next]_([x \in Name |-> Values(x)])
<1> DEFINE old == [x \in Name |-> Values(x)]
           new == [x \in Name |-> Values(x)']
<1>1. new = [old EXCEPT ![n] = Values(n)']
  OBVIOUS
<1>2. old[n] = Values(n)
  OBVIOUS
<1>3. CASE Values(n)' = Values(n)
  BY <1>3
<1>4. CASE new # old /\ \E len \in Arg : Values(n)' = <<len>> \o Values(n)
  <2>1. PICK len \in Arg : Values(n)' = <<len>> \o Values(n)
    BY <1>4
  <2>2. V!Store(n, len)
    BY <1>1, <1>2, <2>1, Zenon DEF V!Store
  <2> QED
    BY <1>4, <2>2, Zenon DEF V!Next
<1>5. CASE new # old /\ Values(n) # <<>> /\ Values(n)' = Tail(Values(n))
  <2>1. V!Remove(n)
    BY <1>1, <1>2, <1>5, Zenon DEF V!Remove
  <2> QED
    BY <1>5, <2>1, Zenon DEF V!Next
<1> QED
  BY <1>3, <1>4, <1>5

\* Each call of the cache but CacheFree is a step of the abstract one, or none.
LEMMA SetVersions ==
  ASSUME CacheInv, NEW n \in Name, NEW len \in Arg, CacheSet(n, len) \/ CacheStoreFast(n, len)
  PROVE  [V!Next]_([x \in Name |-> Values(x)])
<1>1. CASE UNCHANGED <<chain, entry>>
  BY <1>1, SameValues, Zenon
<1>2. CASE ~UNCHANGED <<chain, entry>>
  <2>1. PICK p \in Ptr : Insert(n, p, len) \/ Insert(n, p, 0)
    BY <1>2 DEF CacheSet, CacheStoreFast, NotInserted, Crash, cacheVars
  <2>2. CacheTypes'
    BY CacheSetInv, CacheStoreFastInv DEF CacheInv
  <2>3. 0 \in Arg
    BY MachineAssumption DEF Arg
  <2>4. /\ \A x \in Name \ {n} : Values(x)' = Values(x)
        /\ \/ Values(n)' = Values(n)
           \/ \E l \in Arg : Values(n)' = <<l>> \o Values(n)
    BY <2>1, <2>2, <2>3, InsertStores
  <2> QED
    BY <2>4, StepOfVersions
<1> QED
  BY <1>1, <1>2

LEMMA DelVersions ==
  ASSUME CacheInv, NEW n \in Name, CacheDel(n)
  PROVE  [V!Next]_([x \in Name |-> Values(x)])
<1>1. CASE UNCHANGED <<chain, entry>>
  BY <1>1, SameValues, Zenon
<1>2. CASE ~UNCHANGED <<chain, entry>>
  <2>1. PICK q \in Query(n) :
          Found(q.bucket, q.name) /\ Unlink(q.bucket, FirstStop(q.bucket, q.name))
    BY <1>2 DEF CacheDel, NotNormalized, Lookup, Crash, cacheVars
  <2>2. q.bucket \in Bucket /\ q.name \in Name \cup {NULL} /\ (q.name # NULL => q.bucket = Hash[q.name])
    BY DEF Query, Normal
  <2>3. q.name # NULL
    <3>1. FirstStop(q.bucket, q.name) \in Stops(q.bucket, q.name)
      BY <2>1, <2>2, FirstStopIs DEF Found, CacheInv
    <3> QED
      BY <2>1, <3>1 DEF Found, Stops
  <2>4. CacheTypes'
    BY CacheDelInv DEF CacheInv
  <2> DEFINE x == q.name
  <2>5. x \in Name /\ Found(Hash[x], x) /\ Unlink(Hash[x], FirstStop(Hash[x], x))
    BY <2>1, <2>2, <2>3
  <2> HIDE DEF x
  <2>6. \/ \A y \in Name : Values(y)' = Values(y)
        \/ /\ \A y \in Name \ {x} : Values(y)' = Values(y)
           /\ Values(x) # <<>> /\ Values(x)' = Tail(Values(x))
    BY <2>4, <2>5, UnlinkRemoves
  <2> QED
    BY <2>5, <2>6, StepOfVersions
<1> QED
  BY <1>1, <1>2

\* An empty cache has no values.
LEMMA NewVersions ==
  ASSUME CacheNew
  PROVE  V!Init
<1> SUFFICES ASSUME NEW n \in Name PROVE Values(n) = <<>>
  BY DEF V!Init
<1>1. Hash[n] \in Bucket /\ chain[Hash[n]] = <<>>
  BY CacheAssumption DEF CacheNew
<1>2. Where(n) = {}
  BY <1>1 DEF Where
<1>3. Cardinality(Where(n)) = 0
  BY <1>2, FS_EmptySet
<1> QED
  BY <1>3 DEF Values
=============================================================================
