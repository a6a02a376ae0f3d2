------------------------------ MODULE SessCore ------------------------------
(***************************************************************************)
(* sesscore.dll, the session store of Revenant: the handle table, the      *)
(* most-recent fast path, the deferred-write batch, and the heap blocks    *)
(* they point to.                                                          *)
(*                                                                         *)
(* A pointer is the identity of a heap block, and stays behind when the    *)
(* block is freed.  Memory is modelled as Full Page Heap runs it (the aid  *)
(* capstone/README.md suggests for practising): an access to a freed block *)
(* or past the end of one ends the process at once, and an address that    *)
(* some pointer still holds is not issued again.  Contents of buffers are  *)
(* abstracted to their lengths.                                            *)
(*                                                                         *)
(* Every operation is an action whose last parameter is the value the C    *)
(* function returns.  "held" is the set of Session pointers the caller     *)
(* keeps outside the store.                                                *)
(***************************************************************************)
EXTENDS Machine, FiniteSets, Sequences

CONSTANTS
  SessMax,   \* SESS_MAX, the number of handles
  DeferMax,  \* DEFER_MAX, the capacity of the deferred batch
  MinCap,    \* the smallest data buffer an OPEN allocates (32 in the code)
  MaxData,   \* SESS_MAX_DATA
  Handler,   \* the handler functions a plugin may export
  Ptr,       \* addresses of Session objects
  Buf        \* addresses of data buffers

Handle      == 0 .. SessMax - 1
SESS_RECENT == SessMax + 1
WireHandle  == 0 .. SESS_RECENT    \* valid handles, one out of range, RECENT
SESS_OK     == 0
SESS_ERR    == -1

Session == [id: Handle, handler: Handler, data: Buf, len: U32, cap: U32]
Deferred == [data: Buf, len: U32]
FaultKind == {"none", "handle", "recent", "cur", "batch", "grow", "wrap"}

ASSUME SessCoreAssumption ==
  /\ SessMax \in Nat \ {0}
  /\ DeferMax \in Nat \ {0}
  /\ MinCap \in Nat \ {0} /\ MinCap < Word
  /\ MaxData \in Nat /\ MaxData < Word
  /\ NULL \notin Ptr \cup Buf \cup Handler
  /\ NULL \notin Session \cup [obj: Ptr, len: U32]

VARIABLES
  slots,   \* SessTable.slots: handle -> Session*
  count,   \* SessTable.count
  recent,  \* g_recent
  batch,   \* g_batch: the captured data pointers and lengths
  sess,    \* the Session blocks: NULL where the block is not allocated
  buf,     \* the data buffers: their size, or NULL where not allocated
  fault    \* "none", or through what the access that ended the process went

storeVars == <<slots, count, recent, batch, sess, buf, fault>>

-----------------------------------------------------------------------------
(* The heap.                                                               *)

FreshPtr(p, held) == sess[p] = NULL /\ p # recent /\ p \notin held

FreshBuf(b) ==
  /\ buf[b] = NULL
  /\ \A i \in 1 .. Len(batch) : batch[i].data # b

\* n bytes can be written at the start of block b.
Writable(b, n) == n = 0 \/ (buf[b] # NULL /\ n <= buf[b])

\* The process ends at an invalid access made through a reference of this kind.
Crash(kind) ==
  /\ fault' = kind
  /\ UNCHANGED <<slots, count, recent, batch, sess, buf>>

Via(id) == IF id = SESS_RECENT THEN "recent" ELSE "handle"

-----------------------------------------------------------------------------
(* The operations.                                                         *)

SessNew ==
  /\ slots = [h \in Handle |-> NULL]
  /\ count = 0
  /\ recent = NULL
  /\ batch = <<>>
  /\ sess = [p \in Ptr |-> NULL]
  /\ buf = [b \in Buf |-> NULL]
  /\ fault = "none"

\* Variant: the first handle, in use or not.
FirstHandle(h) == h = 0

\* The lowest handle that is not in use.
FreeSlot(h) ==
  /\ slots[h] = NULL
  /\ \A g \in Handle : slots[g] = NULL => h <= g

SessOpen(handler, len, held, ret) ==
  \/ /\ ret = SESS_ERR           \* no handler, no free slot or no memory
     /\ UNCHANGED storeVars
  \/ /\ handler # NULL
     /\ ret \in Handle
     /\ FreeSlot(ret)
     /\ \E p \in Ptr, b \in Buf :
          LET n   == Lesser(len, MaxData)
              cap == Greater(n, MinCap)
          IN /\ FreshPtr(p, held)
             /\ FreshBuf(b)
             /\ sess' = [sess EXCEPT ![p] = [id |-> ret, handler |-> handler,
                                             data |-> b, len |-> n, cap |-> cap]]
             /\ buf' = [buf EXCEPT ![b] = cap]
             /\ slots' = [slots EXCEPT ![ret] = p]
             /\ recent' = p
     /\ count' = count + 1
     /\ UNCHANGED <<batch, fault>>

\* A handle out of range names nothing.
Slot(id) == IF id \in Handle THEN slots[id] ELSE NULL

\* The pointer SessGet returns, and what it leaves in g_recent.
SessGet(id) == IF id = SESS_RECENT THEN recent ELSE Slot(id)

Touch(id) ==
  recent' = IF SessGet(id) # NULL THEN SessGet(id) ELSE recent

\* SessGet, then one of the three ways on: no session, a freed one, a live one.
NoSession(id, ret) ==
  /\ SessGet(id) = NULL
  /\ ret = SESS_ERR
  /\ UNCHANGED storeVars

StaleSession(id) ==
  /\ SessGet(id) # NULL
  /\ sess[SessGet(id)] = NULL
  /\ Crash(Via(id))

LiveSession(id) ==
  /\ SessGet(id) # NULL
  /\ sess[SessGet(id)] # NULL
  /\ Touch(id)

SessUseRun(id, ret) ==
  \/ NoSession(id, ret)
  \/ StaleSession(id)
  \/ /\ LiveSession(id)
     /\ ret = sess[SessGet(id)].handler
     /\ UNCHANGED <<slots, count, batch, sess, buf, fault>>

\* Overwrite the data of session s with an argument of len bytes.
SetData(s, len, kind) ==
  LET n == Lesser(len, sess[s].cap)
  IN \/ /\ Writable(sess[s].data, n)
        /\ sess' = [sess EXCEPT ![s].len = n]
        /\ UNCHANGED <<buf, fault>>
     \/ /\ ~Writable(sess[s].data, n)
        /\ fault' = kind
        /\ UNCHANGED <<sess, buf>>

SessUseSet(id, len, ret) ==
  \/ NoSession(id, ret)
  \/ StaleSession(id)
  \/ /\ LiveSession(id)
     /\ SetData(SessGet(id), len, Via(id))
     /\ ret = SESS_OK
     /\ UNCHANGED <<slots, count, batch>>

\* The append fits the buffer it found, as far as uint32_t arithmetic tells.
AppendInPlace(s, len, kind) ==
  LET sum  == sess[s].len + len
      need == sum % Word
  IN /\ need <= sess[s].cap
     /\ \/ /\ Writable(sess[s].data, sum)
           /\ sess' = [sess EXCEPT ![s].len = need]
           /\ UNCHANGED <<buf, fault>>
        \/ /\ ~Writable(sess[s].data, sum)
           /\ fault' = IF sum = need THEN kind ELSE "wrap"
           /\ UNCHANGED <<sess, buf>>

\* Variant: the sum is computed without wrapping.
AppendGrowWide(s, len) ==
  LET need == sess[s].len + len
  IN /\ need > sess[s].cap
     /\ sess' = [sess EXCEPT ![s] = [@ EXCEPT !.len = need, !.cap = need]]
     /\ buf' = [buf EXCEPT ![sess[s].data] = need]
     /\ UNCHANGED fault

\* realloc grows the block where it is, or moves it, and then the write goes
\* through the pointer read before.
AppendGrow(s, len) ==
  LET need == (sess[s].len + len) % Word
  IN /\ need > sess[s].cap
     /\ \/ /\ sess' = [sess EXCEPT ![s] = [@ EXCEPT !.len = need, !.cap = need]]
           /\ buf' = [buf EXCEPT ![sess[s].data] = need]
           /\ UNCHANGED fault
        \/ /\ fault' = "grow"
           /\ UNCHANGED <<sess, buf>>

AppendNoMemory(s, len) ==
  /\ (sess[s].len + len) % Word > sess[s].cap
  /\ UNCHANGED <<sess, buf, fault>>

SessUseAppend(id, len, ret) ==
  \/ NoSession(id, ret)
  \/ StaleSession(id)
  \/ /\ LiveSession(id)
     /\ LET s == SessGet(id)
        IN \/ ret = SESS_OK /\ AppendInPlace(s, len, Via(id))
           \/ ret = SESS_OK /\ AppendGrow(s, len)
           \/ ret = SESS_ERR /\ AppendNoMemory(s, len)
     /\ UNCHANGED <<slots, count, batch>>

\* Variant: the data buffer is forgotten.
free_session_only(s) ==
  /\ sess' = [sess EXCEPT ![s] = NULL]
  /\ UNCHANGED buf

free_session(s) ==
  /\ buf' = [buf EXCEPT ![sess[s].data] = NULL]
  /\ sess' = [sess EXCEPT ![s] = NULL]

\* Variants: the counter, or the slot, stays as it was.
UnlistUncounted(id) == slots' = [slots EXCEPT ![id] = NULL] /\ UNCHANGED count
UnlistKeepsSlot(id) == count' = count - 1 /\ UNCHANGED slots

Unlist(id) == slots' = [slots EXCEPT ![id] = NULL] /\ count' = count - 1

SessClose(id, ret) ==
  \/ /\ Slot(id) = NULL
     /\ ret = SESS_ERR
     /\ UNCHANGED storeVars
  \/ /\ Slot(id) # NULL
     /\ LET s == Slot(id)
        IN IF sess[s] # NULL /\ buf[sess[s].data] # NULL
           THEN /\ free_session(s)
                /\ Unlist(id)
                /\ UNCHANGED <<recent, batch, fault>>
           ELSE Crash("handle")
     /\ ret = SESS_OK

SessStat(verbose) ==
  IF verbose /\ recent # NULL /\ sess[recent] = NULL
  THEN Crash("recent")
  ELSE UNCHANGED storeVars

\* Variant: one capture too many.
BatchFullLate == Len(batch) > DeferMax

BatchFull == Len(batch) >= DeferMax

SessDefer(id) ==
  LET s == SessGet(id)
  IN \/ /\ s = NULL \/ BatchFull
        /\ Touch(id)
        /\ UNCHANGED <<slots, count, batch, sess, buf, fault>>
     \/ /\ ~BatchFull
        /\ LiveSession(id)
        /\ batch' = Append(batch, [data |-> sess[s].data, len |-> sess[s].len])
        /\ UNCHANGED <<slots, count, sess, buf, fault>>
     \/ /\ ~BatchFull
        /\ StaleSession(id)

SessFlush(len) ==
  IF \A i \in 1 .. Len(batch) : Writable(batch[i].data, Lesser(len, batch[i].len))
  THEN /\ batch' = <<>>
       /\ UNCHANGED <<slots, count, recent, sess, buf, fault>>
  ELSE Crash("batch")

-----------------------------------------------------------------------------
(* The store on its own: any caller, any sequence of calls.                *)

Call ==
  /\ fault = "none"
  /\ \/ \E f \in Handler \cup {NULL}, n \in Arg, ret \in Handle \cup {SESS_ERR} :
          SessOpen(f, n, {}, ret)
     \/ \E id \in WireHandle, ret \in Handler \cup {SESS_ERR} : SessUseRun(id, ret)
     \/ \E id \in WireHandle, n \in Arg, ret \in {SESS_OK, SESS_ERR} :
          SessUseSet(id, n, ret)
     \/ \E id \in WireHandle, n \in Arg, ret \in {SESS_OK, SESS_ERR} :
          SessUseAppend(id, n, ret)
     \/ \E id \in WireHandle, ret \in {SESS_OK, SESS_ERR} : SessClose(id, ret)
     \/ \E verbose \in BOOLEAN : SessStat(verbose)
     \/ \E id \in WireHandle : SessDefer(id)
     \/ \E n \in Arg : SessFlush(n)

\* The process is gone.
Ended == fault # "none" /\ UNCHANGED storeVars

StoreNext == Call \/ Ended

StoreSpec == SessNew /\ [][StoreNext]_storeVars

-----------------------------------------------------------------------------
(* Properties.                                                             *)

TypeOK ==
  /\ slots \in [Handle -> Ptr \cup {NULL}]
  /\ count \in Int
  /\ recent \in Ptr \cup {NULL}
  /\ batch \in Seq(Deferred)
  /\ sess \in [Ptr -> Session \cup {NULL}]
  /\ buf \in [Buf -> U32 \cup {NULL}]
  /\ fault \in FaultKind

CountExact == count = Cardinality({h \in Handle : slots[h] # NULL})

SlotsLive ==
  \A h \in Handle : slots[h] # NULL => sess[slots[h]] # NULL /\ sess[slots[h]].id = h

SessionsListed == \A p \in Ptr : sess[p] # NULL => slots[sess[p].id] = p

\* The handle table, its counter and the allocated sessions always agree: a
\* non-NULL slot holds a live session that carries the slot's number, every
\* live session is in the table (CLOSE is the only way out and loses none), and
\* "sessions=%d" of STAT counts exactly the open handles (SessOpen, SessClose).
TableConsistent == CountExact /\ SlotsLive /\ SessionsListed

BufferFits ==
  \A p \in Ptr : sess[p] # NULL =>
    buf[sess[p].data] = sess[p].cap /\ sess[p].len <= sess[p].cap

BufferUnshared ==
  \A p, q \in Ptr :
    sess[p] # NULL /\ sess[q] # NULL /\ sess[p].data = sess[q].data => p = q

BufferHasOwner ==
  \A b \in Buf : buf[b] # NULL => \E p \in Ptr : sess[p] # NULL /\ sess[p].data = b

\* Each live session owns one live buffer of exactly its capacity and holds no
\* more bytes than that, no two sessions share one, and no buffer outlives its
\* session, through every OPEN, SET, growing APPEND and CLOSE.
BuffersOwned == BufferFits /\ BufferUnshared /\ BufferHasOwner

\* The batch stays within its arrays, and a length captured by SessDefer is
\* still within the captured buffer when SessFlush writes it later, whatever SET
\* and APPEND did to the session in between, as long as that buffer is there.
BatchInBounds ==
  /\ Len(batch) <= DeferMax
  /\ \A i \in 1 .. Len(batch) :
       buf[batch[i].data] # NULL => batch[i].len <= buf[batch[i].data]

\* A lookup by handle never reaches a freed session or buffer, and no write by
\* handle leaves the session's buffer.  Excepted are the two writes of APPEND that
\* the faults "wrap" and "grow" stand for; FaultsHaveCause says when those happen.
HandlePathSafe == fault # "handle"

\* The inductive invariant: these four need each other.
StoreInv ==
  TypeOK /\ TableConsistent /\ BuffersOwned /\ BatchInBounds /\ HandlePathSafe

\* What each way to end the process needs to have happened before.
RecentFreed == recent # NULL /\ sess[recent] = NULL
CapturedFreed == \E i \in 1 .. Len(batch) : buf[batch[i].data] = NULL
SumWraps ==
  \E p \in Ptr, n \in Arg : /\ sess[p] # NULL
                          /\ sess[p].len + n >= Word
                          /\ (sess[p].len + n) % Word <= sess[p].cap
BufferTooSmall ==
  \E p \in Ptr, n \in Arg : sess[p] # NULL /\ (sess[p].len + n) % Word > sess[p].cap

FaultCaused ==
  \/ fault' = fault
  \/ fault' = "recent" /\ RecentFreed
  \/ fault' = "batch" /\ CapturedFreed
  \/ fault' = "wrap" /\ SumWraps
  \/ fault' = "grow" /\ BufferTooSmall

\* capstone/README.md: "The obvious handle path is maintained correctly".  What
\* can end the process, and all that can: g_recent kept past a CLOSE, a captured
\* buffer freed since, an APPEND to a live session whose uint32_t sum wraps into
\* the capacity (sesscore.c:101), and one that has to grow the buffer and moves it
\* (:108).  So a handle never leads to freed memory, a SET through RECENT or a
\* FLUSH never overruns, and an APPEND that fits is safe, after any calls.
FaultsHaveCause == [][FaultCaused]_storeVars

\* sesscore.h: SESS_MAX_DATA is the "cap on a session's data buffer".
DataWithinCap == \A p \in Ptr : sess[p] # NULL => sess[p].cap <= Greater(MaxData, MinCap)

\* The store implements the table of numbered objects: what a client sees of a
\* handle is the session it names and how much data that holds.
Contents == [h \in Handle |->
               IF slots[h] = NULL THEN NULL
               ELSE [obj |-> slots[h], len |-> sess[slots[h]].len]]

Table == INSTANCE HandleTable
         WITH Object <- Ptr, Size <- U32, None <- NULL, table <- Contents

\* Every step of the store is a step of that table: the lowest free handle is
\* issued, it names the same session until CLOSE, and no call changes what two
\* handles name.
ImplementsHandleTable == Table!Spec
=============================================================================
