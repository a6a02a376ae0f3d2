------------------------------- MODULE Cache -------------------------------
(***************************************************************************)
(* cachecore.dll: a hash table of entries.  Storing always adds an entry   *)
(* at the front of a chain; a value is kept inside its entry or in a block *)
(* of its own.  Values are lengths: nothing branches on their bytes.       *)
(***************************************************************************)
EXTENDS Names, Sequences, FiniteSets

CONSTANTS Ptr,          \* addresses of entries
          NBuckets,     \* c->nbuckets
          Hash,         \* hash_str(name) % c->nbuckets
          SmallSize,    \* sizeof(e->small), 64
          NextAt,       \* bytes from e->small to e->next: 68 on x64, 64 on x86
          CopyLimit,    \* 256, the length from which normalize_key copies nothing
          LineSize,     \* 128, the block CacheFormatLine prints into
          PreviewSize   \* 32, the block CachePreviewKey copies into

Bucket == 0 .. NBuckets - 1

\* key is NULL when there was no memory for it.
Entry == [key: Name \cup {NULL}, len: Arg]

ASSUME CacheAssumption ==
  /\ NBuckets \in Nat \ {0}
  /\ Hash \in [Name -> Bucket]
  /\ SmallSize \in Nat /\ NextAt \in Nat /\ SmallSize <= NextAt
  /\ CopyLimit \in Nat /\ LineSize \in Nat /\ PreviewSize \in Nat
  /\ IsFiniteSet(Ptr)
  /\ NULL \notin Ptr \cup Entry

VARIABLES
  chain,   \* c->buckets, each with its entries in the order of e->next
  entry,   \* what is at each address, NULL if freed or never allocated
  blocks,  \* the entries whose value is a block of its own
  count,   \* c->count
  fault    \* the overrun or freed memory that ended the process

cacheVars == <<chain, entry, blocks, count, fault>>

Crash(what) == fault' = what /\ UNCHANGED <<chain, entry, blocks, count>>

CacheNew ==
  /\ chain = [b \in Bucket |-> <<>>]
  /\ entry = [p \in Ptr |-> NULL]
  /\ blocks = {}
  /\ count = 0
  /\ fault = "none"

-----------------------------------------------------------------------------
(* Storing.                                                                *)

\* Variant: a new entry goes to the end of its chain.
LinkLast(n, p) == chain' = [chain EXCEPT ![Hash[n]] = Append(@, p)]

LinkFirst(n, p) == chain' = [chain EXCEPT ![Hash[n]] = <<p>> \o @]

\* CacheInsertEmpty, and what the caller fills in.  The entry is linked and counted
\* even when there was no memory for its key.
Insert(n, p, len) ==
  /\ entry[p] = NULL
  /\ \E key \in {n, NULL} : entry' = [entry EXCEPT ![p] = [key |-> key, len |-> len]]
  /\ LinkFirst(n, p)
  /\ count' = count + 1
  /\ UNCHANGED fault

\* There is no memory for the entry, or dup_key's terminator, which it writes
\* behind its block, hits more than padding.
NotInserted == UNCHANGED cacheVars \/ Crash("key")

\* No caller looks at the status.  Without memory for a value of its own block the
\* entry stays, empty.
CacheSet(n, len) ==
  \/ NotInserted
  \/ \E p \in Ptr :
       \/ len <= SmallSize /\ Insert(n, p, len) /\ UNCHANGED blocks
       \/ len > SmallSize /\ Insert(n, p, len) /\ blocks' = blocks \cup {p}
       \/ len > SmallSize /\ Insert(n, p, 0) /\ UNCHANGED blocks

\* CacheInsertEmpty and CacheStoreFast: the value goes into the entry whatever its
\* length.  Over the end of small[] there may be padding; then comes e->next.
CacheStoreFast(n, len) ==
  \/ NotInserted
  \/ len <= NextAt /\ \E p \in Ptr : Insert(n, p, len) /\ UNCHANGED blocks
  \/ len > NextAt /\ (\E p \in Ptr : entry[p] = NULL) /\ Crash("small")

-----------------------------------------------------------------------------
(* Looking up.                                                             *)

\* Where the walk of bucket b for name n ends: at the name, or at an entry without
\* a key, which strcmp does not survive.
Stops(b, n) == {i \in 1 .. Len(chain[b]) : entry[chain[b][i]].key \in {n, NULL}}

FirstStop(b, n) == CHOOSE i \in Stops(b, n) : \A j \in Stops(b, n) : i <= j

Found(b, n) == Stops(b, n) # {} /\ entry[chain[b][FirstStop(b, n)]].key # NULL

Lookup(b, n, ret) ==
  \/ Stops(b, n) = {} /\ ret = NULL /\ UNCHANGED cacheVars
  \/ Found(b, n) /\ ret = chain[b][FirstStop(b, n)] /\ UNCHANGED cacheVars
  \/ Stops(b, n) # {} /\ ~Found(b, n) /\ ret = NULL /\ Crash("key")

\* What a request for n is looked up as on the pipe; no name in use may hash to
\* any bucket.
Query(n) ==
  {q \in [name: Normal(n, CopyLimit), bucket: Bucket] :
     q.name # NULL => q.bucket = Hash[q.name]}

\* There is no memory for the buffer, or the name does not fit it.
NotNormalized(n, ret) ==
  /\ ret = NULL
  /\ UNCHANGED cacheVars \/ (Overlong(n, CopyLimit) /\ Crash("norm"))

CacheGetRaw(n, ret) == Lookup(Hash[n], n, ret)

CacheGet(n, ret) ==
  \/ NotNormalized(n, ret)
  \/ ~Overlong(n, CopyLimit) /\ \E q \in Query(n) : Lookup(q.bucket, q.name, ret)

-----------------------------------------------------------------------------
(* Deleting.                                                               *)

\* Variant: the value's own block is forgotten.
free_key(p) == entry' = [entry EXCEPT ![p] = NULL] /\ UNCHANGED blocks

free_entry(p) == entry' = [entry EXCEPT ![p] = NULL] /\ blocks' = blocks \ {p}

\* The entry leaves its chain; the byte behind its key may be noticed now.
Unlink(b, i) ==
  \/ /\ chain' = [chain EXCEPT ![b] = SubSeq(@, 1, i - 1) \o SubSeq(@, i + 1, Len(@))]
     /\ free_entry(chain[b][i])
     /\ count' = count - 1
     /\ UNCHANGED fault
  \/ Crash("key")

CacheDel(n) ==
  \/ NotNormalized(n, NULL)
  \/ /\ ~Overlong(n, CopyLimit)
     /\ \E q \in Query(n) :
          \/ ~Found(q.bucket, q.name) /\ Lookup(q.bucket, q.name, NULL)
          \/ Found(q.bucket, q.name) /\ Unlink(q.bucket, FirstStop(q.bucket, q.name))

\* CacheFree: every entry, the chains and the cache itself.
CacheFree ==
  \/ /\ chain' = [b \in Bucket |-> <<>>]
     /\ entry' = [p \in Ptr |-> IF \E b \in Bucket : p \in {chain[b][i] : i \in 1 .. Len(chain[b])}
                                THEN NULL ELSE entry[p]]
     /\ blocks' = {p \in blocks : entry'[p] # NULL}
     /\ count' = 0
     /\ UNCHANGED fault
  \/ (\E p \in Ptr : entry[p] # NULL) /\ Crash("key")

-----------------------------------------------------------------------------
(* Printing.                                                               *)

Digits(n) == CHOOSE d \in 1 .. 10 : n < 10^d /\ (d > 1 => n >= 10^(d - 1))

\* "key=%s len=%u" and its terminator; a missing key prints as "(null)".
LineFits(e) ==
  (IF e.key = NULL THEN 6 ELSE e.key.len) + Digits(e.len) + 10 <= LineSize

\* CachePreviewKey copies the key with its terminator, whatever it is.
PreviewFits(e) == e.key # NULL /\ e.key.len < PreviewSize

\* Copies one byte more than the tag has, and for a tag of 16 or more than the
\* block does; ret says whether there was memory for the block.
CacheDecodeId(id_len, ret) ==
  \/ ret \in BOOLEAN /\ UNCHANGED cacheVars
  \/ id_len > 0 /\ ~ret /\ Crash("id")

-----------------------------------------------------------------------------
(* Properties.                                                             *)

\* The places in the table, in the order a walk meets them.
Place == {x \in Bucket \X (1 .. Cardinality(Ptr)) : x[2] <= Len(chain[x[1]])}

PtrAt(x) == chain[x[1]][x[2]]

\* c->count and the chains agree with the entries there are: each is linked once,
\* in the bucket its name is looked for in, and a value's own block lives exactly
\* as long as its entry, whichever of SET, DEL and the fast path came in between
\* and wherever memory ran out (CacheInsertEmpty, CacheDel, free_entry).
CacheSound ==
  /\ count = Cardinality({p \in Ptr : entry[p] # NULL})
  /\ \A p \in Ptr : entry[p] # NULL <=> \E x \in Place : PtrAt(x) = p
  /\ \A x, y \in Place : PtrAt(x) = PtrAt(y) => x = y
  /\ \A x \in Place : entry[PtrAt(x)].key # NULL => Hash[entry[PtrAt(x)].key] = x[1]
  /\ \A p \in blocks : entry[p] # NULL
  /\ \A p \in Ptr : entry[p] # NULL /\ entry[p].len > NextAt => p \in blocks

\* Where the entries of a name are in its chain, the k-th of these places, and the
\* values a walk of the chain meets under the name.
Where(n) == {i \in 1 .. Len(chain[Hash[n]]) : entry[chain[Hash[n]][i]].key = n}

Nth(n, k) == CHOOSE i \in Where(n) : Cardinality({j \in Where(n) : j <= i}) = k

Values(n) == [k \in 1 .. Cardinality(Where(n)) |-> entry[chain[Hash[n]][Nth(n, k)]].len]

V == INSTANCE Versions WITH Value <- Arg, versions <- [n \in Name |-> Values(n)]

\* Under each name the cache keeps the values in the order they were stored: SET
\* and the fast path hide the value before, DEL brings it back, neither touches
\* another name that shares the bucket (CacheSet, CacheDel).
ImplementsVersions == V!Spec
=============================================================================
